SPECIFICATION MCSpec
CONSTANTS
    Conversations = {c1, c2}
    MaxScans = 2
    MaxRequests = 2
    Deleters = {d1, d2}
    Savers = {w1, w2}
    Urls = {u1, u2}
    Keys = {k1, k2}
    None = None
SYMMETRY StoreSymmetry
INVARIANTS StoresInv KeyStaysHome
PROPERTY DeletedWithFiles
