CONSTANTS
    Tasks = {t1, t2}
    Servers = 1
    MaxAttempts = 1
    MaxGeneration = 1
    Scenarios = {{"diagnose"}}
SPECIFICATION Spec
PROPERTY DiagnosticsAnswered
CHECK_DEADLOCK FALSE
