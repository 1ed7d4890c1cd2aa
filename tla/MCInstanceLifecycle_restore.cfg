SPECIFICATION Spec
CONSTANTS
    Watcher = {w1}
    Kinds = {"create", "start", "reinstall", "backup_restore", "status"}
    MaxGuest = 3
    Attempts = 1
    Faults = {}
    LateEffects = FALSE
PROPERTIES GenerationGuardsReadiness
CHECK_DEADLOCK FALSE
