------------------------------ MODULE CallTrace ------------------------------
(***************************************************************************)
(* The call-tracing Pin tool (src/smart_tracer/pintool/calltrace.cpp).     *)
(*                                                                         *)
(* main finds the program name on Pin's command line and registers Trace   *)
(* as the instrumentation callback.  Pin calls it once per trace, when it  *)
(* first compiles the trace into its code cache, which all application     *)
(* threads share; compilation is serialised by Pin, so instrumenting one   *)
(* trace is one atomic step.  call_trace then decides, from the trace's    *)
(* routine, whether the call at the tail of the trace gets an analysis     *)
(* call to do_call.  At run time every application thread that executes   *)
(* an instrumented call runs do_call, which writes the caller address and  *)
(* then endl to the one shared ofstream, with no lock.                     *)
(*                                                                         *)
(* Data abstraction.  A trace has one routine and one tail instruction     *)
(* (a call site or not).  Command-line arguments, routine names, image     *)
(* names and the items of the block lists are model values; substring     *)
(* search is the constant relation Match.  The output file is the          *)
(* sequence of chunks written to it: an address or a newline.              *)
(***************************************************************************)
EXTENDS Integers, Sequences, FiniteSets

CONSTANTS
    Threads,            \* application threads
    Prog,               \* Prog[t]: the traces thread t executes, in order
    TraceRtn(_),        \* TRACE_Rtn(trace)
    InsTail(_),            \* BBL_InsTail: the call site at the trace's tail
    CallSites,          \* tails for which INS_IsCall holds
    InvalidRtns,        \* routines for which RTN_Valid or IMG_Valid fails
    RtnName(_),         \* RTN_Name
    ImgName(_),         \* IMG_Name(SEC_Img(RTN_Sec(rtn)))
    Match(_, _),        \* upper(name).find(upper(item)) != npos, item # ""
    Args,               \* the argument values
    Argv,               \* Pin's argv
    PinBinArgs,         \* arguments whose last 8 characters hold "PINBIN"
    DASHDASH,           \* the argument "--"
    Basename(_),        \* the part after the last '/'
    KnobBlockFunction,  \* -blockFunc, a sequence of items and COMMAs
    KnobBlockModule,    \* -blockModule, likewise
    COMMA,
    EMPTY               \* the empty string, an item getline can produce

ASSUME CallTraceAssumption ==
    /\ Threads # {}
    /\ IsFiniteSet(Threads)
    /\ PinBinArgs \cup {DASHDASH} \subseteq Args
    /\ Argv \in Seq(Args)
    /\ \A k \in {KnobBlockFunction, KnobBlockModule} :
          \A i \in 1..(Len(k) - 1) : k[i] # COMMA => k[i + 1] = COMMA

VARIABLES
    phase,           \* "main" before main, "run" after it, "crashed"
    gProgramName,
    gStartRecord,
    jitted,          \* traces in Pin's code cache
    instrumented,    \* cached traces whose tail calls do_call
    pc,              \* pc[t]: index in Prog[t] of the next trace
    writing,         \* writing[t]: the address is written, endl is not
    TraceFile        \* the chunks written to calltrace_addr.out

vars == <<phase, gProgramName, gStartRecord, jitted, instrumented, pc,
          writing, TraceFile>>

NL == "endl"

(* A call site is an address: it is never written as a newline. *)
ASSUME CallSitesAssumption == NL \notin CallSites
AllTraces == UNION {{Prog[t][i] : i \in 1..Len(Prog[t])} : t \in Threads}

-----------------------------------------------------------------------------
(* split(s, sv, ','): the items getline returns.  A COMMA that opens the   *)
(* string or follows a COMMA closes an empty item; a trailing COMMA adds   *)
(* none.                                                                   *)
Split(k) ==
    {k[i] : i \in {j \in 1..Len(k) : k[j] # COMMA}} \cup
    (IF \E i \in 1..Len(k) : k[i] = COMMA /\ (i = 1 \/ k[i - 1] = COMMA)
     THEN {EMPTY} ELSE {})

(* find(upper(item)) on a name; the empty string is found everywhere. *)
Found(name, item) == item = EMPTY \/ Match(name, item)

isBlockedFunction(r) ==
    /\ Len(KnobBlockFunction) # 0
    /\ r \notin InvalidRtns
    /\ \E it \in Split(KnobBlockFunction) : Found(RtnName(r), it)

IsBlockedModule(r) ==
    /\ Len(KnobBlockModule) # 0
    /\ r \notin InvalidRtns
    /\ \E it \in Split(KnobBlockModule) : Found(ImgName(r), it)

(* Mutant: the index of "--" itself instead of the argument after it. *)
findProgramNameIndexAtDash(a) ==
    LET pins  == {i \in 0..(Len(a) - 1) : a[i + 1] \in PinBinArgs}
        dashes == {j \in 0..(Len(a) - 1) :
                     a[j + 1] = DASHDASH /\ \E i \in pins : i <= j}
    IN IF dashes = {} THEN -1
       ELSE CHOOSE j \in dashes : \A d \in dashes : j <= d

(* The C index of the first argument after the first "--" that follows   *)
(* an argument ending in PINBIN, or -1.                                   *)
findProgramNameIndex(a) ==
    LET pins  == {i \in 0..(Len(a) - 1) : a[i + 1] \in PinBinArgs}
        dashes == {j \in 0..(Len(a) - 1) :
                     a[j + 1] = DASHDASH /\ \E i \in pins : i <= j}
    IN IF dashes = {} THEN -1
       ELSE (CHOOSE j \in dashes : \A d \in dashes : j <= d) + 1

(* checkEntry: recording starts at the first trace of a valid routine     *)
(* whose image name contains the program name.                            *)
checkEntry(r) ==
    gStartRecord \/ (r \notin InvalidRtns /\ Found(ImgName(r), gProgramName))

-----------------------------------------------------------------------------
Init ==
    /\ phase = "main"
    /\ gProgramName = EMPTY
    /\ gStartRecord = FALSE
    /\ jitted = {}
    /\ instrumented = {}
    /\ pc = [t \in Threads |-> 1]
    /\ writing = [t \in Threads |-> FALSE]
    /\ TraceFile = <<>>

(* main: argv[programIndex], with -1 read as 0, reduced to its basename;  *)
(* index argc reads the NULL that ends argv.                               *)
Main ==
    /\ phase = "main"
    /\ LET i == findProgramNameIndex(Argv)
           idx == IF i = -1 THEN 0 ELSE i
       IN IF idx >= Len(Argv)
          THEN phase' = "crashed" /\ UNCHANGED gProgramName
          ELSE phase' = "run" /\ gProgramName' = Basename(Argv[idx + 1])
    /\ UNCHANGED <<gStartRecord, jitted, instrumented, pc, writing, TraceFile>>

Running(t) == phase = "run" /\ pc[t] <= Len(Prog[t])
Current(t) == Prog[t][pc[t]]

(* Mutant: call_trace without its isBlockedFunction test. *)
InstrumentNoFuncBlock(t) ==
    /\ Running(t)
    /\ Current(t) \notin jitted
    /\ LET tr == Current(t)
           r  == TraceRtn(tr)
           on == checkEntry(r)
       IN /\ gStartRecord' = on
          /\ jitted' = jitted \cup {tr}
          /\ instrumented' =
               IF on /\ ~IsBlockedModule(r) /\ InsTail(tr) \in CallSites
               THEN instrumented \cup {tr} ELSE instrumented
    /\ UNCHANGED <<phase, gProgramName, pc, writing, TraceFile>>

(* Pin compiles the trace thread t reaches and calls Trace on it:          *)
(* call_trace on its tail.                                                 *)
Instrument(t) ==
    /\ Running(t)
    /\ Current(t) \notin jitted
    /\ LET tr == Current(t)
           r  == TraceRtn(tr)
           on == checkEntry(r)
       IN /\ gStartRecord' = on
          /\ jitted' = jitted \cup {tr}
          /\ instrumented' =
               IF on /\ ~isBlockedFunction(r) /\ ~IsBlockedModule(r)
                     /\ InsTail(tr) \in CallSites
               THEN instrumented \cup {tr} ELSE instrumented
    /\ UNCHANGED <<phase, gProgramName, pc, writing, TraceFile>>

(* Mutant: do_call writing the address without endl. *)
ExecuteNoEndl(t) ==
    /\ Running(t)
    /\ Current(t) \in jitted
    /\ ~writing[t]
    /\ pc' = [pc EXCEPT ![t] = @ + 1]
    /\ IF Current(t) \in instrumented
       THEN TraceFile' = Append(TraceFile, InsTail(Current(t)))
       ELSE UNCHANGED TraceFile
    /\ UNCHANGED <<phase, gProgramName, gStartRecord, jitted, instrumented, writing>>

(* Thread t runs a compiled trace; at an instrumented call, do_call's     *)
(* first insertion: the address.                                          *)
Execute(t) ==
    /\ Running(t)
    /\ Current(t) \in jitted
    /\ ~writing[t]
    /\ IF Current(t) \in instrumented
       THEN /\ TraceFile' = Append(TraceFile, InsTail(Current(t)))
            /\ writing' = [writing EXCEPT ![t] = TRUE]
            /\ UNCHANGED pc
       ELSE /\ pc' = [pc EXCEPT ![t] = @ + 1]
            /\ UNCHANGED <<TraceFile, writing>>
    /\ UNCHANGED <<phase, gProgramName, gStartRecord, jitted, instrumented>>

(* do_call's second insertion, endl; the call then proceeds. *)
WriteEndl(t) ==
    /\ writing[t]
    /\ TraceFile' = Append(TraceFile, NL)
    /\ writing' = [writing EXCEPT ![t] = FALSE]
    /\ pc' = [pc EXCEPT ![t] = @ + 1]
    /\ UNCHANGED <<phase, gProgramName, gStartRecord, jitted, instrumented>>

Step(t) == Instrument(t) \/ Execute(t) \/ WriteEndl(t)

Next == Main \/ \E t \in Threads : Step(t)

(* The process runs main, and the OS keeps scheduling every thread that   *)
(* can run.                                                                *)
Fairness == WF_vars(Main) /\ \A t \in Threads : WF_vars(Step(t))

Spec == Init /\ [][Next]_vars /\ Fairness
-----------------------------------------------------------------------------
(***************************************************************************)
(* Properties                                                              *)
(***************************************************************************)

Chunks == {InsTail(tr) : tr \in AllTraces} \cup {NL}

TypeOK ==
    /\ phase \in {"main", "run", "crashed"}
    /\ gProgramName \in {EMPTY} \cup {Basename(a) : a \in Args}
    /\ gStartRecord \in BOOLEAN
    /\ instrumented \subseteq jitted
    /\ jitted \subseteq AllTraces
    /\ pc \in [Threads -> Nat \ {0}]
    /\ writing \in [Threads -> BOOLEAN]
    /\ TraceFile \in Seq(Chunks)

(* calltrace_addr.out holds one caller address per line (spec.md section  *)
(* 6): every newline ends a line that holds exactly one address, and      *)
(* every address starts a line.  do_call writes the address and endl as   *)
(* two insertions into the one ofstream all threads share.                *)
LinesWellFormed ==
    \A i \in 1..Len(TraceFile) :
        IF TraceFile[i] = NL THEN i > 1 /\ TraceFile[i - 1] # NL
        ELSE i = 1 \/ TraceFile[i - 1] = NL

(* Recording starts: when the program named after "--" runs code of its   *)
(* own image, some trace is compiled while checkEntry matches the program *)
(* name, and gStartRecord is set for good.                                *)
RecordingEventuallyStarts == <>gStartRecord

(* A call the pintool should record: its routine passes both block lists. *)
Recordable(tr) ==
    /\ InsTail(tr) \in CallSites
    /\ ~isBlockedFunction(TraceRtn(tr))
    /\ ~IsBlockedModule(TraceRtn(tr))

(* "Record traces from the user binary entry by default" (checkEntry):    *)
(* once recording has started, every call a thread executes in a routine  *)
(* the block lists let through is written to the file.  A thread may only *)
(* step past such a call by writing it.                                   *)
CallsAfterEntryRecorded ==
    [][\A t \in Threads :
         (pc'[t] # pc[t] /\ ~writing[t] /\ gStartRecord)
            => ~Recordable(Current(t))]_vars

(* -blockFunc blocks a routine only when one of the names it lists occurs *)
(* in the routine's name: a call compiled after recording started, in a   *)
(* routine of an unblocked module that no listed name matches, gets its   *)
(* do_call.                                                               *)
BlockOnlyNamed ==
    [][\A tr \in jitted' \ jitted :
         (/\ gStartRecord'
          /\ InsTail(tr) \in CallSites
          /\ ~IsBlockedModule(TraceRtn(tr))
          /\ ~\E it \in Split(KnobBlockFunction) \ {EMPTY} :
                 Match(RtnName(TraceRtn(tr)), it))
            => tr \in instrumented']_vars

(* The positions of the newlines and of the addresses in a file. *)
NLPos(f) == {i \in 1..Len(f) : f[i] = NL}
AddrPos(f) == {i \in 1..Len(f) : f[i] # NL}

(* The threads half-way through do_call: address written, endl not yet. *)
Writers == {t \in Threads : writing[t]}

(* The core takes the number of lines of calltrace_addr.out as the hit    *)
(* count of a call.  However the threads' do_call insertions interleave   *)
(* on the unlocked ofstream, every address written is matched by exactly  *)
(* one endl, written or still to come from the thread that wrote it: the  *)
(* line count equals the number of recorded calls once no thread is      *)
(* half-way, even when the lines themselves are garbled (finding 6).      *)
LinesCountCalls ==
    Cardinality(AddrPos(TraceFile)) = Cardinality(NLPos(TraceFile)) + Cardinality(Writers)

(* Every address in the file is the call site of a trace, compiled into   *)
(* Pin's shared code cache, whose routine passes -blockFunc and           *)
(* -blockModule: the decision call_trace takes once per trace, at compile *)
(* time, is never wrong for a thread that runs the cached trace later.   *)
RecordedOnlyRecordable ==
    \A i \in AddrPos(TraceFile) :
        \E tr \in jitted : Recordable(tr) /\ InsTail(tr) = TraceFile[i]
=============================================================================
