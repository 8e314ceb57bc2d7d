CONSTANTS
    scan = scan
    commands = commands
    Registered <- TwoTasks
    Scan = scan
    Commands = commands
    BatchSize = 2
    MaxCommands = 2
    MaxStarts = 1
SPECIFICATION Spec
INVARIANTS
    EveryStopTold
CHECK_DEADLOCK FALSE
