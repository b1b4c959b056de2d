SPECIFICATION Spec
CONSTANTS
    Runtimes = {r1, r2}
    Shots = {s}
    Requests = {q1, q2, q3}
    MaxQueue = 1
    None = None
SYMMETRY WorkerSymmetry
INVARIANTS
    TypeOK
    OneInference
    LeaseAccounted
    RequestAccounted
    OnePlan
