SPECIFICATION Spec
CONSTANTS
    Runs = {1}
    Calls = {c1, c2}
    Messages = {}
    Requests = {c1, c2}
    Agents = {"agent"}
    Values = {"parent", "child", "h1", "h2", "output", "denied", "rejected", "result"}
    Handlers = {"h1", "h2"}
    MaxActive = 2
    MaxTurns = 2
    MaxDepth = 1
    Scenarios <- MCScenarios
CHECK_DEADLOCK FALSE
INVARIANTS
    TypeOK
    
PROPERTIES
    
    ChildDelivered
