CONSTANTS
    Runs = {1}
    Calls = {}
    Messages = {}
    Requests = {}
    Agents = {}
    Values = {}
    worker = worker
    client = client
    Sessions = {s1, s2}
    Tasks = {worker, client}
    Batches <- AnyBatches
    CanDrop = TRUE
    MaxLog = 3
SPECIFICATION Spec
SYMMETRY Symmetry
INVARIANT LogNumbering
PROPERTIES LogsAppendOnly DeletedStaysDeleted
