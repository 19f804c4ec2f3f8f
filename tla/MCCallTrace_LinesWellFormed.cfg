CONSTANTS
    Threads = {"t1", "t2"}
    Prog <- MCProgTwo
    TraceRtn <- MCTraceRtn
    InsTail <- MCTail
    CallSites = {"a_main", "a_asan", "a_malloc", "a_foo"}
    InvalidRtns = {}
    RtnName <- MCRtnNameOf
    ImgName <- MCImgNameOf
    Match <- MCMatch
    Args <- MCArgs
    Argv <- MCArgv
    PinBinArgs = {"/opt/pin/intel64/bin/pinbin"}
    DASHDASH = "--"
    Basename <- MCBasename
    KnobBlockFunction <- MCBlockFunc
    KnobBlockModule <- MCBlockModule
    COMMA = ","
    EMPTY = ""
SPECIFICATION Spec
INVARIANT LinesWellFormed
CHECK_DEADLOCK FALSE
