SPECIFICATION FairSpec
CONSTANTS
    Levels = {"info", "trace"}
    info = "info"
    Parts = {"config", "gdb", "io", "tasarch"}
    LoggerNames <- MCNames
    Files <- MCFiles
    Threads = {"io1", "io2"}
INVARIANTS TypeOK LoadedLevelsApply
PROPERTIES FailureKeepsDefaults MutexIsReleased ReloadEnds
