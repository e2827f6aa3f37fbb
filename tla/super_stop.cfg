CONSTANTS
    Runs = {1, 2}
    Calls = {c1}
    Messages = {1, 2}
    Requests = {}
    Agents = {}
    Values = {}
    Sessions = {s1}
    ProjectSessions = {s1}
    Handlers = {h1}
    MaxPending = 2
    MaxPerSession = 2
    MaxActive = 1
    MaxAttempts = 1
    Scenarios = {{"stop", "busy"}, {"stop", "calls"}, {"delete", "busy"}, {"delete", "storage"}}
SPECIFICATION FairSpec
PROPERTIES ShutdownEnds DeletionEnds
CHECK_DEADLOCK FALSE
