CONSTANTS
    Tasks = {t1, t2}
    Servers = 2
    MaxAttempts = 2
    MaxGeneration = 2
    Scenarios = {{"several", "exit"}, {"exit", "reload"}, {"overlap", "changes", "reload"}, {"overlap", "exit", "dropped"}}
SPECIFICATION Spec
INVARIANTS TypeOK RestartsBounded  ChangeNoticed
PROPERTY RequestEnds
