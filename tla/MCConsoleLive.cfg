SPECIFICATION FairSpec
CONSTANTS
    MaxRequests = 2
    MaxLines = 2
    InputLimit = 1
    QueueLimit = 1
    MaxSteps = 2
    Budget = 3
    AutoBytes = 2
    SweepBytes = 2
    RetryLimit = 2
    Proposals <- MCProposals
    Inputs = {"text", "approve", "auto", "pause"}
PROPERTIES CruiseEnds DeferredRenewal
