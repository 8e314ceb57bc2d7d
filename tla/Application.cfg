CONSTANTS
    scan = scan
    commands = commands
    Registered <- TwoTasks
    Scan = scan
    Commands = commands
    BatchSize = 2
    MaxCommands = 3
    MaxStarts = 2
SPECIFICATION FairSpec
INVARIANTS
    CommandsOnce
    StopsToldOnce
PROPERTIES
    DueTasksRun
    RestartHappens
CHECK_DEADLOCK FALSE
