CONSTANTS
    Appenders = {a1, a2}
    Clients = {c1, c2}
    Capacity = 1
    MaxStreams = 2
    MaxWire = 1
    MaxEvents = 3
    Orderly = {TRUE, FALSE}
SPECIFICATION FairSpec
INVARIANTS TypeOK NoGap SentOnceInOrder
PROPERTY EventuallySent
CHECK_DEADLOCK FALSE
