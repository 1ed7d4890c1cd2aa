SPECIFICATION FairSpec
CONSTANTS
    Watcher = {w1}
    Kinds = {"create", "start", "stop", "reinstall", "snapshot_restore", "backup_restore", "resize", "configure_network", "status", "network_status", "recycle", "trash_restore", "purge"}
    MaxGuest = 2
    Attempts = 1
    Faults = {"call", "store", "crash"}
    LateEffects = FALSE
INVARIANTS ReadinessIsCurrent NoOrphanGuest TrashedIsQuiet
PROPERTIES WatcherMarksItsGuest KeepsTheFence TrashEventuallyPurged
CHECK_DEADLOCK FALSE
