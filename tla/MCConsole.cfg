SPECIFICATION Spec
CONSTANTS
    MaxRequests = 2
    MaxLines = 3
    InputLimit = 1
    QueueLimit = 1
    MaxSteps = 2
    Budget = 3
    AutoBytes = 2
    SweepBytes = 2
    RetryLimit = 2
    Proposals <- MCAllProposals
    Inputs = {"text", "follow-up", "approve", "reject", "manual", "auto", "resume", "status", "quit"}
INVARIANT ConsoleInv
PROPERTY NothingUnapproved
