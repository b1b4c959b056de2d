SPECIFICATION FairSpec
CONSTANTS
    Runtimes = {r1, r2}
    Shots = {s}
    Requests = {q1, q2}
    MaxQueue = 1
    None = None
PROPERTY LeaseComesBack
