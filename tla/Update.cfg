SPECIFICATION BothSpec
CONSTANTS
    Layouts = {"first", "upgrade", "reinstall", "legacy", "retained"}
    Handoffs = {"plain", "guard", "operation"}
CHECK_DEADLOCK FALSE
PROPERTIES RecoverySound CommitIsFinal TakenBackOrDone UpdateSettles
