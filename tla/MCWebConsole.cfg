SPECIFICATION FairSpec
CONSTANTS
    Created = 3
    Tasks = 3
    MaxCalls = 3
    Asked = {"pending"}
    MAX_SESSIONS = 2
    COMPACT_AT_EVENTS = 1
    ChannelBound = 1
    MaxRestarts = 1
CHECK_DEADLOCK FALSE
INVARIANTS WebInv TerminalAlone SurveyOnce
PROPERTIES DisownedEnds CurrentGetsTurn
