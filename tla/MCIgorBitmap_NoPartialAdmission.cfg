CONSTANTS
    MapSize = 8
    WordBytes = 4
    Traces <- MCHitTraces
    HitCounts = {1, 2, 3}
    UINT64_MAX = 7
    CrashMode = "FSRV_RUN_CRASH"
    KEEP_UNIQUE_HANG = 2
    KEEP_UNIQUE_CRASH = 2
    NonInstrumentedMode = FALSE
    HangRerun = TRUE
    FreqSchedule = TRUE
    N_FUZZ_SIZE = 2
    N_FUZZ_MAX = 2
    Hash <- MCHash
    MaxRuns = 3
    NULL = NULL
    NoFile = NoFile
SPECIFICATION Spec
PROPERTY NoPartialAdmission
CHECK_DEADLOCK FALSE
