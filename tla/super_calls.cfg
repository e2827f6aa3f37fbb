CONSTANTS
    Runs = {1}
    Calls = {c1}
    Messages = {1}
    Requests = {}
    Agents = {}
    Values = {}
    Sessions = {s1}
    ProjectSessions = {}
    Handlers = {h1}
    MaxPending = 1
    MaxPerSession = 1
    MaxActive = 1
    MaxAttempts = 1
    Scenarios = {{"calls"}}
SPECIFICATION Spec
INVARIANT CallsPauseRun
CHECK_DEADLOCK FALSE
