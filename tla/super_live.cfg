CONSTANTS
    Runs = {1, 2}
    Calls = {}
    Messages = {1, 2}
    Requests = {}
    Agents = {}
    Values = {}
    Sessions = {s1, s2}
    ProjectSessions = {}
    Handlers = {h1}
    MaxPending = 2
    MaxPerSession = 1
    MaxActive = 1
    MaxAttempts = 1
    Scenarios = {{}}
SPECIFICATION FairSpec
PROPERTIES  CancelledRunEnds
CHECK_DEADLOCK FALSE
