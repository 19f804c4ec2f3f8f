--------------------------- MODULE CallTraceProofs ---------------------------
(***************************************************************************)
(* Proofs about the call-tracing pintool, for any number of application    *)
(* threads, any programs, block lists and command line.                    *)
(*                                                                         *)
(* do_call's two insertions are not atomic, and calltrace_lines_race shows *)
(* two writers garbling lines.  What survives the race is proved here:     *)
(* the file holds one endl per address once no thread is half-way through  *)
(* do_call, so its line count is the number of recorded calls, and every   *)
(* address in it is the call site of a trace that passes the block lists.  *)
(* The inductive invariant adds that call_trace attaches do_call only to   *)
(* such traces, and the types of the file and of the writing flags.        *)
(***************************************************************************)
EXTENDS CallTrace, FiniteSetTheorems, TLAPS

(* The inductive invariant. *)
IInv ==
    /\ writing \in [Threads -> BOOLEAN]
    /\ TraceFile \in Seq(CallSites \cup {NL})
    /\ instrumented \subseteq jitted
    /\ \A tr \in instrumented : Recordable(tr)
    /\ LinesCountCalls
    /\ RecordedOnlyRecordable

-----------------------------------------------------------------------------
(* The newline and address positions of a file are finite, and appending  *)
(* a chunk adds its position to one of them.                              *)
LEMMA PosFinite ==
    ASSUME NEW f \in Seq(CallSites \cup {NL})
    PROVE  IsFiniteSet(NLPos(f)) /\ IsFiniteSet(AddrPos(f))
<1>1. IsFiniteSet(1..Len(f))
  BY FS_Interval
<1>. QED  BY <1>1, FS_Subset DEF NLPos, AddrPos

LEMMA AppendPos ==
    ASSUME NEW f \in Seq(CallSites \cup {NL}), NEW x \in CallSites \cup {NL}
    PROVE  /\ NLPos(Append(f, x)) =
                 IF x = NL THEN NLPos(f) \cup {Len(f) + 1} ELSE NLPos(f)
           /\ AddrPos(Append(f, x)) =
                 IF x = NL THEN AddrPos(f) ELSE AddrPos(f) \cup {Len(f) + 1}
           /\ Len(f) + 1 \notin NLPos(f) \cup AddrPos(f)
BY DEF NLPos, AddrPos

(* Appending an address, resp. a newline, adds one to its count. *)
LEMMA AppendCount ==
    ASSUME NEW f \in Seq(CallSites \cup {NL}), NEW x \in CallSites \cup {NL}
    PROVE  /\ x = NL => /\ Cardinality(NLPos(Append(f, x))) = Cardinality(NLPos(f)) + 1
                        /\ Cardinality(AddrPos(Append(f, x))) = Cardinality(AddrPos(f))
           /\ x # NL => /\ Cardinality(NLPos(Append(f, x))) = Cardinality(NLPos(f))
                        /\ Cardinality(AddrPos(Append(f, x))) = Cardinality(AddrPos(f)) + 1
<1>1. IsFiniteSet(NLPos(f)) /\ IsFiniteSet(AddrPos(f))
  BY PosFinite
<1>2. Len(f) + 1 \notin NLPos(f) /\ Len(f) + 1 \notin AddrPos(f)
  BY AppendPos
<1>3. Cardinality(NLPos(f) \cup {Len(f) + 1}) = Cardinality(NLPos(f)) + 1
  BY <1>1, <1>2, FS_AddElement
<1>4. Cardinality(AddrPos(f) \cup {Len(f) + 1}) = Cardinality(AddrPos(f)) + 1
  BY <1>1, <1>2, FS_AddElement
<1>. QED  BY <1>3, <1>4, AppendPos

(* Raising or clearing one thread's writing flag moves it in or out of   *)
(* Writers.                                                               *)
LEMMA WritersCount ==
    ASSUME NEW w \in [Threads -> BOOLEAN], NEW t \in Threads, NEW b \in BOOLEAN,
           w[t] = ~b
    PROVE  LET W(v) == {u \in Threads : v[u]} IN
           Cardinality(W([w EXCEPT ![t] = b])) =
              IF b THEN Cardinality(W(w)) + 1 ELSE Cardinality(W(w)) - 1
<1>. DEFINE W(v) == {u \in Threads : v[u]}
<1>1. IsFiniteSet(W(w))
  BY CallTraceAssumption, FS_Subset
<1>2. CASE b
  <2>1. W([w EXCEPT ![t] = b]) = W(w) \cup {t} /\ t \notin W(w)
    BY <1>2
  <2>. QED  BY <1>1, <1>2, <2>1, FS_AddElement
<1>3. CASE ~b
  <2>1. W([w EXCEPT ![t] = b]) = W(w) \ {t} /\ t \in W(w)
    BY <1>3
  <2>. QED  BY <1>1, <1>3, <2>1, FS_RemoveElement
<1>. QED  BY <1>2, <1>3

-----------------------------------------------------------------------------
(* Initially nothing is written, nothing is compiled, no thread writes. *)
LEMMA InitIInv == Init => IInv
<1> SUFFICES ASSUME Init PROVE IInv
  OBVIOUS
<1>1. Writers = {}
  BY DEF Init, Writers
<1>2. NLPos(TraceFile) = {} /\ AddrPos(TraceFile) = {}
  BY DEF Init, NLPos, AddrPos
<1>3. LinesCountCalls
  BY <1>1, <1>2, FS_EmptySet DEF LinesCountCalls
<1>. QED  BY <1>2, <1>3 DEF Init, IInv, RecordedOnlyRecordable

(* Every step keeps IInv.  Trace attaches do_call only to recordable      *)
(* calls; do_call's first insertion adds an address and a writer, its     *)
(* second a newline and removes the writer.                               *)
LEMMA NextIInv == IInv /\ [Next]_vars => IInv'
<1> SUFFICES ASSUME IInv, [Next]_vars PROVE IInv'
  OBVIOUS
<1>1. CASE Main
  BY <1>1 DEF Main, IInv, LinesCountCalls, RecordedOnlyRecordable, Writers
<1>2. ASSUME NEW t \in Threads, Instrument(t) PROVE IInv'
  <2>. DEFINE tr == Current(t)
  <2>1. /\ jitted' = jitted \cup {tr}
        /\ instrumented' \subseteq instrumented \cup {tr}
        /\ tr \in instrumented' \ instrumented => Recordable(tr)
        /\ UNCHANGED <<writing, TraceFile>>
    BY <1>2 DEF Instrument, Recordable
  <2>2. RecordedOnlyRecordable'
    BY <2>1 DEF IInv, RecordedOnlyRecordable
  <2>3. LinesCountCalls'
    BY <2>1 DEF IInv, LinesCountCalls, Writers
  <2>. QED  BY <2>1, <2>2, <2>3 DEF IInv
<1>3. ASSUME NEW t \in Threads, Execute(t) PROVE IInv'
  <2>1. ~writing[t] /\ Current(t) \in jitted
    BY <1>3 DEF Execute
  <2>2. CASE Current(t) \in instrumented
    <3>. DEFINE x == InsTail(Current(t))
    <3>1. Recordable(Current(t)) /\ x \in CallSites /\ x # NL
      BY <2>2, CallSitesAssumption DEF IInv, Recordable
    <3>2. /\ TraceFile' = Append(TraceFile, x)
          /\ writing' = [writing EXCEPT ![t] = TRUE]
          /\ UNCHANGED <<jitted, instrumented>>
      BY <1>3, <2>2 DEF Execute
    <3>3. TraceFile' \in Seq(CallSites \cup {NL})
      BY <3>1, <3>2 DEF IInv
    <3>4. LinesCountCalls'
      <4>1. /\ Cardinality(NLPos(TraceFile')) = Cardinality(NLPos(TraceFile))
            /\ Cardinality(AddrPos(TraceFile')) = Cardinality(AddrPos(TraceFile)) + 1
        BY <3>1, <3>2, AppendCount DEF IInv
      <4>2. Cardinality(Writers') = Cardinality(Writers) + 1
        BY <2>1, <3>2, WritersCount DEF IInv, Writers
      <4>3. Cardinality(Writers) \in Nat /\ Cardinality(NLPos(TraceFile)) \in Nat
        BY PosFinite, CallTraceAssumption, FS_Subset, FS_CardinalityType DEF IInv, Writers
      <4>. QED  BY <4>1, <4>2, <4>3 DEF IInv, LinesCountCalls
    <3>5. RecordedOnlyRecordable'
      <4>1. AddrPos(TraceFile') = AddrPos(TraceFile) \cup {Len(TraceFile) + 1}
        BY <3>1, <3>2, AppendPos DEF IInv
      <4>2. TraceFile'[Len(TraceFile) + 1] = x
        BY <3>2 DEF IInv
      <4>3. \A i \in AddrPos(TraceFile) : TraceFile'[i] = TraceFile[i]
        BY <3>2 DEF IInv, AddrPos
      <4>. QED  BY <2>1, <3>1, <3>2, <4>1, <4>2, <4>3 DEF IInv, RecordedOnlyRecordable
    <3>. QED  BY <2>1, <3>2, <3>3, <3>4, <3>5 DEF IInv
  <2>3. CASE Current(t) \notin instrumented
    <3>1. UNCHANGED <<TraceFile, writing, jitted, instrumented>>
      BY <1>3, <2>3 DEF Execute
    <3>. QED  BY <3>1 DEF IInv, LinesCountCalls, RecordedOnlyRecordable, Writers
  <2>. QED  BY <2>2, <2>3
<1>4. ASSUME NEW t \in Threads, WriteEndl(t) PROVE IInv'
  <2>1. /\ writing[t]
        /\ TraceFile' = Append(TraceFile, NL)
        /\ writing' = [writing EXCEPT ![t] = FALSE]
        /\ UNCHANGED <<jitted, instrumented>>
    BY <1>4 DEF WriteEndl
  <2>2. TraceFile' \in Seq(CallSites \cup {NL})
    BY <2>1 DEF IInv
  <2>3. LinesCountCalls'
    <3>1. /\ Cardinality(NLPos(TraceFile')) = Cardinality(NLPos(TraceFile)) + 1
          /\ Cardinality(AddrPos(TraceFile')) = Cardinality(AddrPos(TraceFile))
      BY <2>1, AppendCount DEF IInv
    <3>2. Cardinality(Writers') = Cardinality(Writers) - 1
      BY <2>1, WritersCount DEF IInv, Writers
    <3>3. Cardinality(Writers) \in Nat /\ Cardinality(NLPos(TraceFile)) \in Nat
      BY PosFinite, CallTraceAssumption, FS_Subset, FS_CardinalityType DEF IInv, Writers
    <3>. QED  BY <3>1, <3>2, <3>3 DEF IInv, LinesCountCalls
  <2>4. RecordedOnlyRecordable'
    <3>1. AddrPos(TraceFile') = AddrPos(TraceFile)
      BY <2>1, AppendPos DEF IInv
    <3>2. \A i \in AddrPos(TraceFile) : TraceFile'[i] = TraceFile[i]
      BY <2>1 DEF IInv, AddrPos
    <3>. QED  BY <2>1, <3>1, <3>2 DEF IInv, RecordedOnlyRecordable
  <2>. QED  BY <2>1, <2>2, <2>3, <2>4 DEF IInv
<1>5. CASE UNCHANGED vars
  BY <1>5 DEF vars, IInv, LinesCountCalls, RecordedOnlyRecordable, Writers
<1>. QED  BY <1>1, <1>2, <1>3, <1>4, <1>5 DEF Next, Step

-----------------------------------------------------------------------------
(* However many threads run do_call on the unlocked ofstream, the number  *)
(* of addresses in calltrace_addr.out is the number of newlines plus the  *)
(* number of threads half-way through do_call: the line count the core    *)
(* reads as the hit count is the number of recorded calls.                *)
THEOREM LinesCountCallsHolds == Spec => []LinesCountCalls
<1>1. IInv => LinesCountCalls
  BY DEF IInv
<1>. QED  BY <1>1, InitIInv, NextIInv, PTL DEF Spec

(* For every program, block list and command line, every address in       *)
(* calltrace_addr.out is the call site of a compiled trace whose routine  *)
(* passes -blockFunc and -blockModule.                                    *)
THEOREM RecordedOnlyRecordableHolds == Spec => []RecordedOnlyRecordable
<1>1. IInv => RecordedOnlyRecordable
  BY DEF IInv
<1>. QED  BY <1>1, InitIInv, NextIInv, PTL DEF Spec
=============================================================================
