CONSTANTS
    Runs = {1, 2}
    Calls = {c1}
    Messages = {1, 2}
    Requests = {}
    Agents = {}
    Values = {}
    Sessions = {s1}
    ProjectSessions = {s1}
    Handlers = {h1, h2}
    MaxPending = 2
    MaxPerSession = 2
    MaxActive = 1
    MaxAttempts = 2
    Scenarios = {{"stop", "crash", "abort"}, {"stop", "crash", "recovery_crash", "storage"}, {"delete", "crash", "disconnect"}, {"stop", "retry"}, {"stop", "delete", "calls"}}
SPECIFICATION Spec
SYMMETRY HandlerSymmetry
INVARIANTS TypeOK OneActiveRun SlotCounters  SlotsAccounted 
PROPERTIES  RecoveryComplete
