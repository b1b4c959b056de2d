SPECIFICATION MCSpec
CONSTANTS
    Conversations = {c1}
    MaxScans = 2
    MaxRequests = 1
    Deleters = {d1}
    Savers = {w1}
    Urls = {u1}
    Keys = {k1}
    None = None
INVARIANT StoredStaysIndexed
