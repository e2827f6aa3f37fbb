CONSTANTS
    Runs = {1}
    Calls = {}
    Messages = {}
    Requests = {}
    Agents = {}
    Values = {}
    worker = worker
    client = client
    Sessions = {s1, s2}
    Tasks = {client}
    Batches <- AnyBatches
    CanDrop = FALSE
    MaxLog = 6
SPECIFICATION Spec
INVARIANTS TypeOK  
 
