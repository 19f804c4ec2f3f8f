-------------------------- MODULE IgorBitmapProofs --------------------------
(***************************************************************************)
(* Machine-checked proofs about IgorBitmap, for every value of the         *)
(* constants allowed by ConstantsAssumption.                               *)
(*                                                                         *)
(* The handler save_if_interesting is modelled as a function from a state  *)
(* record to a set of state records, built from phase operators (FewBits,  *)
(* MainBranch, HangBranch, CrashBranch, SwitchFault).  The type proof      *)
(* follows that structure: one lemma per phase operator, saying that it    *)
(* maps well-typed records to well-typed records.                          *)
(***************************************************************************)
EXTENDS IgorBitmap, FiniteSetTheorems, TLAPS

(* The record type of a state: TypeOK, field by field. *)
StateType ==
    [virgin : [VirginMaps -> VirginMap],
     total_min_bitmap_size : 0..MapSize,
     global_min_hit_count : HitCounts \cup {UINT64_MAX},
     bitmap_changed : BOOLEAN,
     fuzz_bitmap : VirginMap \cup {NoFile},
     trace_mini_ori : (SUBSET Edges) \cup {NULL},
     original_virgin_bits : {NULL, VIRGIN_BITS},
     queue : Seq(QueueEntry),
     n_fuzz : [0..(N_FUZZ_SIZE - 1) -> 0..N_FUZZ_MAX],
     total_tmouts : Nat, unique_tmouts : Nat, unique_hangs : Nat,
     total_crashes : Nat, unique_crashes : Nat,
     crash_readme : BOOLEAN,
     status : Statuses,
     stop_soon : BOOLEAN,
     runs : 0..MaxRuns]

(* The record type of a control record of the handler. *)
CtlType ==
    [st : StateType, done : BOOLEAN, trace : [Edges -> Bytes], classified : BOOLEAN]

USE ConstantsAssumption

-----------------------------------------------------------------------------
(* The trace conversions. *)

(* count_class_lookup8 maps every byte to 0 or a single bucket bit. *)
LEMMA LookupType ==
    ASSUME NEW b \in Bytes
    PROVE  /\ count_class_lookup8[b] \in {0} \cup BucketBits
           /\ simplify_lookup[b] \in BucketBits
BY DEF count_class_lookup8, simplify_lookup, Bytes, BucketBits

(* Bucketed and simplified traces are bucket traces. *)
LEMMA ConversionType ==
    ASSUME NEW t \in [Edges -> Bytes]
    PROVE  /\ ClassifyCounts(t) \in BucketTrace
           /\ SimplifyTrace(t) \in BucketTrace
BY LookupType DEF ClassifyCounts, SimplifyTrace, BucketTrace

(* Bucket traces are traces. *)
LEMMA BucketTraceIsTrace == BucketTrace \subseteq [Edges -> Bytes]
BY DEF BucketTrace, BucketBits, Bytes

(* count_bytes is at most the map size. *)
LEMMA CountBytesType ==
    ASSUME NEW t \in [Edges -> Bytes]
    PROVE  CountBytes(t) \in 0..MapSize
<1>1. IsFiniteSet(Edges) /\ Cardinality(Edges) = MapSize
  BY FS_Interval DEF Edges
<1>2. /\ IsFiniteSet({k \in Edges : t[k] # 0})
      /\ Cardinality({k \in Edges : t[k] # 0}) <= MapSize
  BY <1>1, FS_Subset
<1>3. Cardinality({k \in Edges : t[k] # 0}) \in Nat
  BY <1>2, FS_CardinalityType
<1>. QED  BY <1>2, <1>3 DEF CountBytes

-----------------------------------------------------------------------------
(* has_few_bits *)

(* The fields has_few_bits assigns, assigned values of their types. *)
LEMMA ClassifierUpdateType ==
    ASSUME NEW s \in StateType, NEW xa \in 0..MapSize,
           NEW xb \in HitCounts \cup {UINT64_MAX},
           NEW xc \in [VirginMaps -> VirginMap], NEW xd \in BOOLEAN
    PROVE  [s EXCEPT !.total_min_bitmap_size = xa, !.global_min_hit_count = xb,
                     !.virgin = xc, !.bitmap_changed = xd] \in StateType
BY ZenonT(60) DEF StateType

(* has_few_bits returns a code in 0..7 and leaves a well-typed state. *)
LEMMA FewBitsType ==
    ASSUME NEW s \in StateType, NEW m \in VirginMaps,
           NEW t \in BucketTrace, NEW h \in HitCounts
    PROVE  /\ FewBits(s, m, t, h).ret \in 0..7
           /\ FewBits(s, m, t, h).st \in StateType
<1>. DEFINE v == s.virgin[m]
<1>1. v \in VirginMap
  BY DEF StateType
<1>2. CountBytes(t) \in 0..MapSize
  BY CountBytesType, BucketTraceIsTrace
<1>3. CASE ReferenceUninitialized(s.total_min_bitmap_size, s.global_min_hit_count)
  <2>1. DiscoverCode(t, v) \in 0..7
    BY DEF DiscoverCode
  <2>2. DiscoverVirgin(t, v) \in VirginMap
    BY <1>1 DEF DiscoverVirgin, VirginMap, BucketTrace
  <2>3. MinimizeBits(t) \in SUBSET Edges
    BY DEF MinimizeBits, BucketTrace
  <2>. QED  BY <1>2, <1>3, <2>1, <2>2, <2>3, ZenonT(60) DEF FewBits, StateType
<1>4. CASE ~ReferenceUninitialized(s.total_min_bitmap_size, s.global_min_hit_count)
  <2>. DEFINE gone == Vanished(t, v)
  <2>1. [k \in Edges |-> IF k \in gone THEN {} ELSE v[k]] \in VirginMap
    BY <1>1 DEF VirginMap
  <2>2. 4 * Bit(BmsDecrease(CountBytes(t), s.total_min_bitmap_size))
          + 2 * Bit(gone # {})
          + Bit(HcnDecrease(t, v, h, s.global_min_hit_count)) \in 0..7
    BY DEF Bit
  <2>. DEFINE bms == BmsDecrease(CountBytes(t), s.total_min_bitmap_size)
               hcn == HcnDecrease(t, v, h, s.global_min_hit_count)
               x1  == IF bms THEN CountBytes(t) ELSE s.total_min_bitmap_size
               x2  == IF hcn THEN h ELSE s.global_min_hit_count
               x3  == [s.virgin EXCEPT ![m] = [k \in Edges |-> IF k \in gone THEN {} ELSE v[k]]]
               x4  == s.bitmap_changed \/ gone # {}
  <2>3. x1 \in 0..MapSize
    BY <1>2 DEF StateType
  <2>4. x2 \in HitCounts \cup {UINT64_MAX}
    BY DEF StateType
  <2>5. x3 \in [VirginMaps -> VirginMap]
    BY <2>1 DEF StateType
  <2>6. x4 \in BOOLEAN
    OBVIOUS
  <2>7. FewBits(s, m, t, h) =
          [ret |-> 4 * Bit(bms) + 2 * Bit(gone # {}) + Bit(hcn),
           st  |-> [s EXCEPT !.total_min_bitmap_size = x1, !.global_min_hit_count = x2,
                             !.virgin = x3, !.bitmap_changed = x4]]
    BY <1>4 DEF FewBits
  <2>8. [s EXCEPT !.total_min_bitmap_size = x1, !.global_min_hit_count = x2,
                  !.virgin = x3, !.bitmap_changed = x4] \in StateType
    BY <2>3, <2>4, <2>5, <2>6, ClassifierUpdateType
  <2>. QED  BY <2>2, <2>7, <2>8
<1>. QED  BY <1>3, <1>4

-----------------------------------------------------------------------------
(* save_if_interesting, phase by phase *)

(* The entry add_to_queue creates for a queued input is well typed. *)
LEMMA NewEntryType ==
    ASSUME NEW raw \in Traces, NEW h \in HitCounts, NEW ret \in 1..7, NEW cksum \in Nat
    PROVE  NewEntry(ClassifyCounts(raw), h, ret, cksum) \in QueueEntry
<1>1. ClassifyCounts(raw) \in BucketTrace
  BY ConversionType
<1>2. Hash(ClassifyCounts(raw)) \in Nat
  OBVIOUS
<1>. QED  BY <1>1, <1>2 DEF NewEntry, QueueEntry

(* Replacing one field of a well-typed state by a value of that field's   *)
(* type keeps it well typed: the queue, the n_fuzz array, a counter.       *)
LEMMA QueueFieldType ==
    ASSUME NEW s \in StateType, NEW q \in Seq(QueueEntry)
    PROVE  [s EXCEPT !.queue = q] \in StateType
BY ZenonT(60) DEF StateType

LEMMA NFuzzFieldType ==
    ASSUME NEW s \in StateType, NEW n \in [0..(N_FUZZ_SIZE - 1) -> 0..N_FUZZ_MAX]
    PROVE  [s EXCEPT !.n_fuzz = n] \in StateType
BY ZenonT(60) DEF StateType

LEMMA CounterFieldType ==
    ASSUME NEW s \in StateType, NEW x \in Nat
    PROVE  /\ [s EXCEPT !.total_tmouts = x] \in StateType
           /\ [s EXCEPT !.unique_tmouts = x] \in StateType
           /\ [s EXCEPT !.unique_hangs = x] \in StateType
           /\ [s EXCEPT !.total_crashes = x] \in StateType
           /\ [s EXCEPT !.unique_crashes = x] \in StateType
<1>1. [s EXCEPT !.total_tmouts = x] \in StateType    BY ZenonT(60) DEF StateType
<1>2. [s EXCEPT !.unique_tmouts = x] \in StateType   BY ZenonT(60) DEF StateType
<1>3. [s EXCEPT !.unique_hangs = x] \in StateType    BY ZenonT(60) DEF StateType
<1>4. [s EXCEPT !.total_crashes = x] \in StateType   BY ZenonT(60) DEF StateType
<1>5. [s EXCEPT !.unique_crashes = x] \in StateType  BY ZenonT(60) DEF StateType
<1>. QED  BY <1>1, <1>2, <1>3, <1>4, <1>5

(* add_to_queue keeps the state well typed. *)
LEMMA AddToQueueType ==
    ASSUME NEW s \in StateType, NEW e \in QueueEntry
    PROVE  AddToQueue(s, e) \in StateType
<1>. DEFINE Q == Append(s.queue, e)
            N == IF FreqSchedule THEN [s.n_fuzz EXCEPT ![e.n_fuzz_entry] = 1] ELSE s.n_fuzz
<1>1. Q \in Seq(QueueEntry)
  BY DEF StateType
<1>2. N \in [0..(N_FUZZ_SIZE - 1) -> 0..N_FUZZ_MAX]
  <2>1. s.n_fuzz \in [0..(N_FUZZ_SIZE - 1) -> 0..N_FUZZ_MAX]
    BY SMTT(30) DEF StateType
  <2>2. 1 \in 0..N_FUZZ_MAX
    BY ConstantsAssumption
  <2>3. [s.n_fuzz EXCEPT ![e.n_fuzz_entry] = 1] \in [0..(N_FUZZ_SIZE - 1) -> 0..N_FUZZ_MAX]
    <3>1. e.n_fuzz_entry \in 0..(N_FUZZ_SIZE - 1)
      BY DEF QueueEntry
    <3>. QED  BY <2>1, <2>2, <3>1, Zenon
  <2>. QED  BY <2>1, <2>3
<1>. HIDE DEF Q, N
<1>3. [s EXCEPT !.queue = Q] \in StateType
  BY <1>1, QueueFieldType
<1>4. [[s EXCEPT !.queue = Q] EXCEPT !.n_fuzz = N] \in StateType
  BY <1>2, <1>3, NFuzzFieldType
<1>5. AddToQueue(s, e) = [[s EXCEPT !.queue = Q] EXCEPT !.n_fuzz = N]
  BY DEF AddToQueue, Q, N
<1>. QED  BY <1>4, <1>5

(* A fatal or trapped end of the process keeps the state well typed. *)
LEMMA StatusType ==
    ASSUME NEW s \in StateType, NEW x \in Statuses
    PROVE  [s EXCEPT !.status = x] \in StateType
BY ZenonT(60) DEF StateType

(* The counters of save_if_interesting, incremented, keep the state well  *)
(* typed.                                                                  *)
LEMMA CounterType ==
    ASSUME NEW s \in StateType,
           NEW f \in {"total_tmouts", "unique_tmouts", "unique_hangs",
                      "total_crashes", "unique_crashes"}
    PROVE  [s EXCEPT ![f] = s[f] + 1] \in StateType
<1>1. s[f] + 1 \in Nat
  BY SMTT(30) DEF StateType
<1>2. CASE f = "total_tmouts"
  <2>1. [s EXCEPT ![f] = s[f] + 1] = [s EXCEPT !.total_tmouts = s[f] + 1]
    BY <1>2
  <2>. QED  BY <1>1, <2>1, CounterFieldType
<1>3. CASE f = "unique_tmouts"
  <2>1. [s EXCEPT ![f] = s[f] + 1] = [s EXCEPT !.unique_tmouts = s[f] + 1]
    BY <1>3
  <2>. QED  BY <1>1, <2>1, CounterFieldType
<1>4. CASE f = "unique_hangs"
  <2>1. [s EXCEPT ![f] = s[f] + 1] = [s EXCEPT !.unique_hangs = s[f] + 1]
    BY <1>4
  <2>. QED  BY <1>1, <2>1, CounterFieldType
<1>5. CASE f = "total_crashes"
  <2>1. [s EXCEPT ![f] = s[f] + 1] = [s EXCEPT !.total_crashes = s[f] + 1]
    BY <1>5
  <2>. QED  BY <1>1, <2>1, CounterFieldType
<1>6. CASE f = "unique_crashes"
  <2>1. [s EXCEPT ![f] = s[f] + 1] = [s EXCEPT !.unique_crashes = s[f] + 1]
    BY <1>6
  <2>. QED  BY <1>1, <2>1, CounterFieldType
<1>. QED  BY <1>2, <1>3, <1>4, <1>5, <1>6

(* Setting a flag of save_if_interesting keeps the state well typed. *)
LEMMA FlagType ==
    ASSUME NEW s \in StateType, NEW b \in BOOLEAN
    PROVE  /\ [s EXCEPT !.crash_readme = b] \in StateType
           /\ [s EXCEPT !.stop_soon = b] \in StateType
<1>1. [s EXCEPT !.crash_readme = b] \in StateType
  BY ZenonT(60) DEF StateType
<1>2. [s EXCEPT !.stop_soon = b] \in StateType
  BY ZenonT(60) DEF StateType
<1>. QED  BY <1>1, <1>2

(* The main branch ends in well-typed control records. *)
LEMMA MainBranchType ==
    ASSUME NEW s \in StateType, NEW raw \in Traces, NEW h \in HitCounts,
           NEW cksum \in Nat
    PROVE  MainBranch(s, raw, h, cksum) \subseteq CtlType
<1>. DEFINE t == ClassifyCounts(raw)
            c == FewBits(s, VIRGIN_BITS, t, h)
<1>1. t \in BucketTrace
  BY ConversionType
<1>2. c.ret \in 0..7 /\ c.st \in StateType
  BY <1>1, FewBitsType DEF VirginMaps
<1>3. \A x \in StateType : Return(x) \in CtlType
  BY DEF Return, CtlType, Bytes
<1>4. CASE c.ret = 0
  BY <1>2, <1>3, <1>4 DEF MainBranch
<1>5. CASE c.ret # 0
  <2>. DEFINE s1 == AddToQueue(c.st, NewEntry(t, h, c.ret, cksum))
  <2>0. NewEntry(t, h, c.ret, cksum) \in QueueEntry
    <3>1. c.ret \in 1..7
      BY <1>2, <1>5
    <3>. QED  BY <3>1, NewEntryType
  <2>1. s1 \in StateType
    BY <1>2, <2>0, AddToQueueType
  <2>2. [s1 EXCEPT !.status = "fatal"] \in StateType /\ [c.st EXCEPT !.status = "sigfpe"] \in StateType
    BY <1>2, <2>1, StatusType DEF Statuses
  <2>3. \A ct \in Traces : Continue(s1, ct, TRUE) \in CtlType
    BY <2>1, Zenon DEF Continue, CtlType
  <2>4. \A o \in {"keep", "drop", "sigfpe"} :
          (CASE o = "drop"   -> {Return(c.st)}
             [] o = "sigfpe" -> {Return([c.st EXCEPT !.status = "sigfpe"])}
             [] o = "keep"   -> {Return([s1 EXCEPT !.status = "fatal"])} \cup
                                {Continue(s1, ct, TRUE) : ct \in Traces})
          \subseteq CtlType
    BY <1>2, <1>3, <2>2, <2>3
  <2>5. NearMiss(c.ret, h, c.st.global_min_hit_count) \subseteq {"keep", "drop", "sigfpe"}
    BY DEF NearMiss
  <2>. QED  BY <1>5, <2>4, <2>5, ZenonT(60) DEF MainBranch
<1>. QED  BY <1>4, <1>5

(* The trace the hang and crash branches classify is a bucket trace. *)
LEMMA SimplifiedType ==
    ASSUME NEW cr \in CtlType
    PROVE  Simplified(cr) \in BucketTrace
<1>1. (IF cr.classified THEN cr.trace ELSE ClassifyCounts(cr.trace)) \in [Edges -> Bytes]
  BY ConversionType, BucketTraceIsTrace DEF CtlType
<1>. QED  BY <1>1, ConversionType DEF Simplified

(* The crash branch (keep_as_crash) ends in well-typed states. *)
LEMMA CrashBranchType ==
    ASSUME NEW cr \in CtlType, NEW h \in HitCounts
    PROVE  CrashBranch(cr, h) \subseteq StateType
<1>. DEFINE s1 == [cr.st EXCEPT !.total_crashes = @ + 1]
            c  == IF NonInstrumentedMode THEN [ret |-> 1, st |-> s1]
                  ELSE FewBits(s1, VIRGIN_CRASH, Simplified(cr), h)
<1>1. s1 \in StateType
  BY CounterType DEF CtlType
<1>2. c.st \in StateType
  BY <1>1, SimplifiedType, FewBitsType DEF VirginMaps
<1>3. [c.st EXCEPT !.crash_readme = TRUE, !.unique_crashes = @ + 1] \in StateType
  <2>. DEFINE r == [c.st EXCEPT !.crash_readme = TRUE]
  <2>1. r \in StateType
    BY <1>2, FlagType
  <2>2. [r EXCEPT !["unique_crashes"] = r["unique_crashes"] + 1] \in StateType
    BY <2>1, CounterType
  <2>3. [c.st EXCEPT !.crash_readme = TRUE, !.unique_crashes = @ + 1]
          = [r EXCEPT !["unique_crashes"] = r["unique_crashes"] + 1]
    BY Zenon
  <2>. QED  BY <2>2, <2>3
<1>. QED  BY <1>1, <1>2, <1>3 DEF CrashBranch

(* The hang re-run ends in well-typed states. *)
LEMMA RerunType ==
    ASSUME NEW s \in StateType, NEW h \in HitCounts, NEW nf \in Faults,
           NEW nt \in Traces, NEW stop \in BOOLEAN
    PROVE  Rerun(s, h, nf, nt, stop) \subseteq StateType
<1>. DEFINE s1 == [s EXCEPT !.stop_soon = stop]
<1>1. s1 \in StateType
  BY FlagType
<1>2. SaveHang(s1) \in StateType
  BY <1>1, CounterType DEF SaveHang
<1>3. Continue(s1, ClassifyCounts(nt), TRUE) \in CtlType
  BY <1>1, ConversionType, BucketTraceIsTrace, Zenon DEF Continue, CtlType
<1>4. CrashBranch(Continue(s1, ClassifyCounts(nt), TRUE), h) \subseteq StateType
  BY <1>3, CrashBranchType
<1>. QED  BY <1>1, <1>2, <1>4 DEF Rerun

(* The hang branch ends in well-typed states. *)
LEMMA HangBranchType ==
    ASSUME NEW cr \in CtlType, NEW h \in HitCounts
    PROVE  HangBranch(cr, h) \subseteq StateType
<1>. DEFINE s1 == [cr.st EXCEPT !.total_tmouts = @ + 1]
            c  == IF NonInstrumentedMode THEN [ret |-> 1, st |-> s1]
                  ELSE FewBits(s1, VIRGIN_TMOUT, Simplified(cr), h)
            s2 == [c.st EXCEPT !.unique_tmouts = @ + 1]
<1>1. s1 \in StateType
  BY CounterType DEF CtlType
<1>2. c.st \in StateType
  BY <1>1, SimplifiedType, FewBitsType DEF VirginMaps
<1>3. s2 \in StateType
  BY <1>2, CounterType
<1>4. SaveHang(s2) \in StateType
  BY <1>3, CounterType DEF SaveHang
<1>5. \A nf \in Faults, nt \in Traces, stop \in BOOLEAN :
        Rerun(s2, h, nf, nt, stop) \subseteq StateType
  BY <1>3, RerunType
<1>. QED  BY <1>1, <1>2, <1>4, <1>5 DEF HangBranch

(* The switch on the fault ends in well-typed states. *)
LEMMA SwitchFaultType ==
    ASSUME NEW cr \in CtlType, NEW fault \in Faults, NEW h \in HitCounts
    PROVE  SwitchFault(cr, fault, h) \subseteq StateType
<1>1. [cr.st EXCEPT !.status = "fatal"] \in StateType
  BY StatusType DEF CtlType, Statuses
<1>2. cr.st \in StateType
  BY DEF CtlType
<1>. QED  BY <1>1, <1>2, CrashBranchType, HangBranchType DEF SwitchFault

(* The saturating n_fuzz increment keeps the state well typed. *)
LEMMA PathFrequencyType ==
    ASSUME NEW s \in StateType, NEW cksum \in Nat
    PROVE  PathFrequency(s, cksum) \in StateType
<1>. DEFINE i == cksum % N_FUZZ_SIZE
<1>1. i \in 0..(N_FUZZ_SIZE - 1)
  OBVIOUS
<1>a. s.n_fuzz[i] \in 0..N_FUZZ_MAX
  BY <1>1, SMTT(30) DEF StateType
<1>2. (IF s.n_fuzz[i] < N_FUZZ_MAX THEN s.n_fuzz[i] + 1 ELSE s.n_fuzz[i]) \in 0..N_FUZZ_MAX
  BY <1>a
<1>3. [s.n_fuzz EXCEPT ![i] = IF @ < N_FUZZ_MAX THEN @ + 1 ELSE @]
        \in [0..(N_FUZZ_SIZE - 1) -> 0..N_FUZZ_MAX]
  BY <1>1, <1>2 DEF StateType
<1>. QED  BY <1>3, ZenonT(60) DEF PathFrequency, StateType

(* One call of save_if_interesting ends in well-typed states. *)
LEMMA HandleType ==
    ASSUME NEW s \in StateType, NEW len \in {0, 1}, NEW raw \in Traces,
           NEW h \in HitCounts, NEW fault \in Faults
    PROVE  Handle(s, len, raw, h, fault) \subseteq StateType
<1>. DEFINE cksum == IF FreqSchedule THEN Hash(raw) ELSE 0
            s1 == PathFrequency(s, cksum)
<1>0. Hash(raw) \in Nat
  BY ConstantsAssumption
<1>1. cksum \in Nat
  BY <1>0
<1>2. s1 \in StateType
  BY <1>1, PathFrequencyType
<1>3. Continue(s1, raw, FALSE) \in CtlType
  BY <1>2, Zenon DEF Continue, CtlType
<1>4. MainBranch(s1, raw, h, cksum) \subseteq CtlType
  BY <1>1, <1>2, MainBranchType
<1>5. \A cr \in CtlType :
        (IF cr.done THEN {cr.st} ELSE SwitchFault(cr, fault, h)) \subseteq StateType
  BY SwitchFaultType DEF CtlType
<1>. DEFINE main == IF fault = CrashMode THEN MainBranch(s1, raw, h, cksum)
                    ELSE {Continue(s1, raw, FALSE)}
<1>6. main \subseteq CtlType
  BY <1>3, <1>4
<1>7. UNION {IF cr.done THEN {cr.st} ELSE SwitchFault(cr, fault, h) : cr \in main}
        \subseteq StateType
  <2>. SUFFICES ASSUME NEW x \in UNION {IF cr.done THEN {cr.st}
                                       ELSE SwitchFault(cr, fault, h) : cr \in main}
                PROVE  x \in StateType
    OBVIOUS
  <2>1. PICK cr \in main : x \in IF cr.done THEN {cr.st} ELSE SwitchFault(cr, fault, h)
    BY ZenonT(60)
  <2>. QED  BY <2>1, <1>5, <1>6
<1>8. CASE len = 0
  BY <1>8 DEF Handle
<1>9. CASE len = 1
  BY <1>7, <1>9 DEF Handle
<1>. QED  BY <1>8, <1>9

-----------------------------------------------------------------------------
(* The type invariant *)

(* TypeOK says that the state record is well typed. *)
LEMMA TypeOKState == TypeOK <=> State \in StateType
<1>1. TypeOK => State \in StateType
  BY SMTT(30) DEF TypeOK, State, StateType
<1>2. State \in StateType => TypeOK
  BY SMTT(30) DEF TypeOK, State, StateType
<1>. QED  BY <1>1, <1>2

(* Storing a well-typed record gives a state satisfying TypeOK. *)
LEMMA StoreType ==
    ASSUME NEW s \in StateType, Store(s)
    PROVE  TypeOK'
BY DEF Store, StateType, TypeOK

(* Counting a call keeps the state well typed. *)
LEMMA RunsType ==
    ASSUME NEW s \in StateType, NEW x \in 0..MaxRuns
    PROVE  [s EXCEPT !.runs = x] \in StateType
BY Zenon DEF StateType

(* TypeOK holds initially. *)
LEMMA InitTypeOK == Init => TypeOK
<1> SUFFICES ASSUME Init PROVE TypeOK
  OBVIOUS
<1>1. virgin \in [VirginMaps -> VirginMap]
  BY DEF Init, FreshMap, VirginMap
<1>2. n_fuzz \in [0..(N_FUZZ_SIZE - 1) -> 0..N_FUZZ_MAX]
  BY DEF Init
<1>3. queue \in Seq(QueueEntry) /\ runs \in 0..MaxRuns /\ status \in Statuses
  BY DEF Init, Statuses
<1>4. /\ total_min_bitmap_size \in 0..MapSize
      /\ global_min_hit_count \in HitCounts \cup {UINT64_MAX}
      /\ fuzz_bitmap \in VirginMap \cup {NoFile}
      /\ trace_mini_ori \in (SUBSET Edges) \cup {NULL}
      /\ original_virgin_bits \in {NULL, VIRGIN_BITS}
  BY DEF Init
<1>5. {total_tmouts, unique_tmouts, unique_hangs, total_crashes, unique_crashes} \subseteq Nat
  BY DEF Init
<1>6. bitmap_changed \in BOOLEAN /\ crash_readme \in BOOLEAN /\ stop_soon \in BOOLEAN
  BY Zenon DEF Init
<1>. QED  BY <1>1, <1>2, <1>3, <1>4, <1>5, <1>6, SMTT(30) DEF TypeOK

(* Every step of the fuzzer keeps TypeOK: save_if_interesting by          *)
(* HandleType, write_bitmap copies a well-typed virgin_bits to the file,  *)
(* and the stop signal sets a flag.                                      *)
LEMMA NextTypeOK == TypeOK /\ [Next]_vars => TypeOK'
<1> SUFFICES ASSUME TypeOK, [Next]_vars PROVE TypeOK'
  OBVIOUS
<1>1. State \in StateType
  BY TypeOKState
<1>2. CASE SaveIfInteresting
  <2>1. PICK len \in {0, 1}, raw \in Traces, h \in HitCounts, fault \in Faults :
          \E s \in Handle(State, len, raw, h, fault) : Store([s EXCEPT !.runs = runs + 1])
    BY <1>2 DEF SaveIfInteresting
  <2>2. PICK s \in Handle(State, len, raw, h, fault) : Store([s EXCEPT !.runs = runs + 1])
    BY <2>1
  <2>3. s \in StateType
    BY <1>1, HandleType
  <2>4. runs + 1 \in 0..MaxRuns
    <3>1. runs < MaxRuns
      BY <1>2, Zenon DEF SaveIfInteresting
    <3>. QED  BY <3>1 DEF TypeOK
  <2>5. [s EXCEPT !.runs = runs + 1] \in StateType
    BY <2>3, <2>4, RunsType
  <2>. QED  BY <2>2, <2>5, StoreType
<1>3. CASE WriteBitmap
  BY <1>3 DEF WriteBitmap, TypeOK, VirginMaps
<1>4. CASE HandleStopSig
  BY <1>4 DEF HandleStopSig, TypeOK
<1>5. CASE UNCHANGED vars
  BY <1>5 DEF vars, TypeOK
<1>. QED  BY <1>2, <1>3, <1>4, <1>5 DEF Next

(* Type correctness of the fuzzer's coverage-reduction state: in every     *)
(* reachable state the virgin maps, the reference scalars, the queue and   *)
(* the counters that save_if_interesting, has_few_bits and write_bitmap    *)
(* maintain have the types TypeOK gives them.                              *)
THEOREM TypeCorrect == Spec => []TypeOK
BY InitTypeOK, NextTypeOK, PTL DEF Spec

-----------------------------------------------------------------------------
(***************************************************************************)
(* The -bms tag.  BmsTagTruthful is not inductive: that a new entry tagged *)
(* bms is smaller than every earlier one needs total_min_bitmap_size to be *)
(* a lower bound of the bitmap sizes in the queue, and that bound survives *)
(* the lazy initialisation (which raises total_min_bitmap_size) only       *)
(* because the initialisation happens before anything is queued.          *)
(***************************************************************************)

(* The strengthening, on a state record. *)
MinBelowQueue(s) ==
    \A i \in 1..Len(s.queue) : s.total_min_bitmap_size <= CountBytes(s.queue[i].trace)
UninitializedMeansEmpty(s) ==
    s.global_min_hit_count = UINT64_MAX => s.queue = << >> /\ s.total_min_bitmap_size = 0
BmsTagTruthfulRec(s) ==
    \A j \in 1..Len(s.queue) : HasBms(s.queue[j].code) =>
        \A i \in 1..(j - 1) :
            CountBytes(s.queue[j].trace) < CountBytes(s.queue[i].trace)
RefOK(s) ==
    /\ s \in StateType
    /\ MinBelowQueue(s)
    /\ UninitializedMeansEmpty(s)
    /\ BmsTagTruthfulRec(s)

(* The inductive invariant. *)
IInv == TypeOK /\ RefOK(State)

(* A record that agrees with a RefOK record on the queue and on both      *)
(* reference scalars, and is well typed, is RefOK.                        *)
LEMMA FrameRefOK ==
    ASSUME NEW s, NEW r, RefOK(s), r \in StateType,
           r.queue = s.queue,
           r.total_min_bitmap_size = s.total_min_bitmap_size,
           r.global_min_hit_count = s.global_min_hit_count
    PROVE  RefOK(r)
BY DEF RefOK, MinBelowQueue, UninitializedMeansEmpty, BmsTagTruthfulRec

(* has_few_bits on a RefOK state: the state stays RefOK, the queue is not *)
(* touched, the reference is initialised afterwards, total_min_bitmap_size *)
(* is at most the size of the trace, and a bms code means the trace is    *)
(* smaller than every queued one.                                         *)
LEMMA FewBitsRef ==
    ASSUME NEW s, RefOK(s), NEW m \in VirginMaps,
           NEW t \in BucketTrace, NEW h \in HitCounts
    PROVE  LET c == FewBits(s, m, t, h) IN
           /\ RefOK(c.st)
           /\ c.st.queue = s.queue
           /\ c.st.global_min_hit_count # UINT64_MAX
           /\ c.st.total_min_bitmap_size <= CountBytes(t)
           /\ HasBms(c.ret) =>
                 \A i \in 1..Len(s.queue) : CountBytes(t) < CountBytes(s.queue[i].trace)
<1>. DEFINE c == FewBits(s, m, t, h)
            v == s.virgin[m]
<1>1. s \in StateType
  BY DEF RefOK
<1>2. c.st \in StateType /\ c.ret \in 0..7
  BY <1>1, FewBitsType
<1>3. CountBytes(t) \in 0..MapSize
  BY CountBytesType, BucketTraceIsTrace
<1>4. h # UINT64_MAX
  OBVIOUS
<1>7. \A i \in 1..Len(s.queue) : CountBytes(s.queue[i].trace) \in Nat
  <2>0. s.queue \in Seq(QueueEntry)
    BY <1>1 DEF StateType
  <2>1. \A i \in 1..Len(s.queue) : s.queue[i].trace \in [Edges -> Bytes]
    <3>. TAKE i \in 1..Len(s.queue)
    <3>1. s.queue[i] \in QueueEntry
      BY <2>0
    <3>. QED  BY <3>1, BucketTraceIsTrace DEF QueueEntry
  <2>. QED  BY <2>1, CountBytesType
<1>5. CASE ReferenceUninitialized(s.total_min_bitmap_size, s.global_min_hit_count)
  <2>1. s.queue = << >>
    BY <1>5 DEF RefOK, UninitializedMeansEmpty, ReferenceUninitialized
  <2>2. /\ c.st.queue = s.queue
        /\ c.st.total_min_bitmap_size = CountBytes(t)
        /\ c.st.global_min_hit_count = h
        /\ c.ret = DiscoverCode(t, v)
    BY <1>1, <1>5 DEF FewBits, StateType
  <2>3. ~HasBms(c.ret)
    BY <2>2 DEF DiscoverCode, HasBms
  <2>4. RefOK(c.st)
    BY <1>2, <1>4, <2>1, <2>2
       DEF RefOK, MinBelowQueue, UninitializedMeansEmpty, BmsTagTruthfulRec
  <2>. QED  BY <1>3, <1>4, <2>1, <2>2, <2>3, <2>4
<1>6. CASE ~ReferenceUninitialized(s.total_min_bitmap_size, s.global_min_hit_count)
  <2>. DEFINE bms  == BmsDecrease(CountBytes(t), s.total_min_bitmap_size)
              gone == Vanished(t, v)
              hcn  == HcnDecrease(t, v, h, s.global_min_hit_count)
  <2>1. s.global_min_hit_count # UINT64_MAX
    BY <1>6 DEF RefOK, UninitializedMeansEmpty, ReferenceUninitialized
  <2>2. /\ c.st.queue = s.queue
        /\ c.st.total_min_bitmap_size = IF bms THEN CountBytes(t) ELSE s.total_min_bitmap_size
        /\ c.st.global_min_hit_count = IF hcn THEN h ELSE s.global_min_hit_count
        /\ c.ret = 4 * Bit(bms) + 2 * Bit(gone # {}) + Bit(hcn)
    BY <1>1, <1>6 DEF FewBits, StateType
  <2>3. HasBms(c.ret) <=> bms
    BY <2>2 DEF HasBms, Bit
  <2>4. c.st.total_min_bitmap_size <= s.total_min_bitmap_size
    <3>1. CASE bms   BY <3>1, <2>2, <1>1, <1>3, SMTT(30) DEF BmsDecrease, StateType
    <3>2. CASE ~bms  BY <3>2, <2>2, <1>1 DEF StateType
    <3>. QED  BY <3>1, <3>2
  <2>5. c.st.total_min_bitmap_size <= CountBytes(t)
    <3>1. CASE bms   BY <3>1, <2>2, <1>3
    <3>2. CASE ~bms
      <4>1. c.st.total_min_bitmap_size = s.total_min_bitmap_size
        BY <3>2, <2>2
      <4>2. s.total_min_bitmap_size \in Nat
        BY <1>1 DEF StateType
      <4>. QED  BY <3>2, <4>1, <4>2, <1>3 DEF BmsDecrease
    <3>. QED  BY <3>1, <3>2
  <2>6. bms => \A i \in 1..Len(s.queue) : CountBytes(t) < CountBytes(s.queue[i].trace)
    <3>1. SUFFICES ASSUME bms, NEW i \in 1..Len(s.queue)
                   PROVE  CountBytes(t) < CountBytes(s.queue[i].trace)
      OBVIOUS
    <3>2. CountBytes(t) < s.total_min_bitmap_size
      BY <3>1 DEF BmsDecrease
    <3>3. s.total_min_bitmap_size <= CountBytes(s.queue[i].trace)
      BY <3>1 DEF RefOK, MinBelowQueue
    <3>4. s.total_min_bitmap_size \in Nat
      BY <1>1 DEF StateType
    <3>. QED  BY <3>2, <3>3, <3>4, <1>3, <1>7
  <2>7. RefOK(c.st)
    <3>1. MinBelowQueue(c.st)
      <4>1. c.st.total_min_bitmap_size \in Nat /\ s.total_min_bitmap_size \in Nat
        <5>1. c.st.total_min_bitmap_size \in Nat
          BY <1>2 DEF StateType
        <5>2. s.total_min_bitmap_size \in Nat
          BY <1>1 DEF StateType
        <5>. QED  BY <5>1, <5>2
      <4>2. \A i \in 1..Len(s.queue) : s.total_min_bitmap_size <= CountBytes(s.queue[i].trace)
        BY DEF RefOK, MinBelowQueue
      <4>. QED  BY <2>2, <2>4, <1>7, <4>1, <4>2 DEF MinBelowQueue
    <3>2. UninitializedMeansEmpty(c.st)
      BY <1>4, <2>1, <2>2 DEF UninitializedMeansEmpty
    <3>3. BmsTagTruthfulRec(c.st)
      BY <2>2 DEF RefOK, BmsTagTruthfulRec
    <3>. QED  BY <1>2, <3>1, <3>2, <3>3 DEF RefOK
  <2>. QED  BY <1>4, <2>1, <2>2, <2>3, <2>5, <2>6, <2>7
<1>. QED  BY <1>5, <1>6

(* Updates of save_if_interesting that touch neither the queue nor the     *)
(* reference scalars keep a state RefOK.                                   *)
LEMMA StatusRef ==
    ASSUME NEW s, RefOK(s), NEW x \in Statuses
    PROVE  RefOK([s EXCEPT !.status = x])
<1>1. s \in StateType
  BY DEF RefOK
<1>2. [s EXCEPT !.status = x] \in StateType
  BY <1>1, StatusType
<1>. QED  BY <1>1, <1>2, FrameRefOK DEF StateType

LEMMA CounterRef ==
    ASSUME NEW s, RefOK(s),
           NEW f \in {"total_tmouts", "unique_tmouts", "unique_hangs",
                      "total_crashes", "unique_crashes"}
    PROVE  RefOK([s EXCEPT ![f] = s[f] + 1])
<1>. DEFINE r == [s EXCEPT ![f] = s[f] + 1]
<1>1. s \in StateType
  BY DEF RefOK
<1>2. r \in StateType
  BY <1>1, CounterType
<1>3. /\ r.queue = s.queue
      /\ r.total_min_bitmap_size = s.total_min_bitmap_size
      /\ r.global_min_hit_count = s.global_min_hit_count
  <2>1. DOMAIN r = DOMAIN s
    OBVIOUS
  <2>2. /\ "queue" \in DOMAIN s /\ "total_min_bitmap_size" \in DOMAIN s
        /\ "global_min_hit_count" \in DOMAIN s
    BY <1>1 DEF StateType
  <2>3. f # "queue" /\ f # "total_min_bitmap_size" /\ f # "global_min_hit_count"
    OBVIOUS
  <2>. QED  BY <2>2, <2>3
<1>4. RefOK(r)
  <2>. HIDE DEF r
  <2>. QED  BY <1>2, <1>3, FrameRefOK
<1>. QED  BY <1>4

LEMMA FlagRef ==
    ASSUME NEW s, RefOK(s), NEW b \in BOOLEAN
    PROVE  /\ RefOK([s EXCEPT !.crash_readme = b])
           /\ RefOK([s EXCEPT !.stop_soon = b])
<1>1. s \in StateType
  BY DEF RefOK
<1>2. [s EXCEPT !.crash_readme = b] \in StateType /\ [s EXCEPT !.stop_soon = b] \in StateType
  BY <1>1, FlagType
<1>. QED  BY <1>1, <1>2, FrameRefOK DEF StateType

LEMMA RunsRef ==
    ASSUME NEW s, RefOK(s), NEW x \in 0..MaxRuns
    PROVE  RefOK([s EXCEPT !.runs = x])
<1>1. s \in StateType
  BY DEF RefOK
<1>2. [s EXCEPT !.runs = x] \in StateType
  BY <1>1, RunsType
<1>. QED  BY <1>1, <1>2, FrameRefOK DEF StateType

LEMMA PathFrequencyRef ==
    ASSUME NEW s, RefOK(s), NEW cksum \in Nat
    PROVE  RefOK(PathFrequency(s, cksum))
<1>1. s \in StateType
  BY DEF RefOK
<1>2. PathFrequency(s, cksum) \in StateType
  BY <1>1, PathFrequencyType
<1>3. /\ PathFrequency(s, cksum).queue = s.queue
      /\ PathFrequency(s, cksum).total_min_bitmap_size = s.total_min_bitmap_size
      /\ PathFrequency(s, cksum).global_min_hit_count = s.global_min_hit_count
  <2>1. CASE FreqSchedule
    BY <1>1, <2>1, Zenon DEF StateType, PathFrequency
  <2>2. CASE ~FreqSchedule
    BY <2>2 DEF PathFrequency
  <2>. QED  BY <2>1, <2>2
<1>. QED  BY <1>2, <1>3, FrameRefOK

(* Appending an entry keeps a state RefOK when the reference is           *)
(* initialised, the entry is no smaller than total_min_bitmap_size, and   *)
(* the entry is tagged bms only if it is smaller than every queued one.   *)
LEMMA AddEntryRef ==
    ASSUME NEW s, RefOK(s), NEW e \in QueueEntry,
           s.total_min_bitmap_size <= CountBytes(e.trace),
           s.global_min_hit_count # UINT64_MAX,
           HasBms(e.code) =>
              \A i \in 1..Len(s.queue) : CountBytes(e.trace) < CountBytes(s.queue[i].trace)
    PROVE  RefOK(AddToQueue(s, e))
<1>. DEFINE r == AddToQueue(s, e)
<1>1. s \in StateType
  BY DEF RefOK
<1>2. r \in StateType
  BY <1>1, AddToQueueType
<1>3. /\ r.queue = Append(s.queue, e)
      /\ r.total_min_bitmap_size = s.total_min_bitmap_size
      /\ r.global_min_hit_count = s.global_min_hit_count
  BY <1>1 DEF AddToQueue, StateType
<1>4. s.queue \in Seq(QueueEntry)
  BY <1>1 DEF StateType
<1>5. /\ Len(r.queue) = Len(s.queue) + 1
      /\ r.queue[Len(s.queue) + 1] = e
      /\ \A i \in 1..Len(s.queue) : r.queue[i] = s.queue[i]
  BY <1>3, <1>4
<1>6. MinBelowQueue(r)
  BY <1>3, <1>5 DEF RefOK, MinBelowQueue
<1>7. UninitializedMeansEmpty(r)
  BY <1>3 DEF UninitializedMeansEmpty
<1>8. BmsTagTruthfulRec(r)
  BY <1>3, <1>5 DEF RefOK, BmsTagTruthfulRec
<1>. QED  BY <1>2, <1>6, <1>7, <1>8 DEF RefOK

(* A control record whose state is RefOK. *)
CtlRef(cr) == cr \in CtlType /\ RefOK(cr.st)

(* The main branch keeps the state RefOK: the entry it queues is the      *)
(* classified trace has_few_bits just judged against virgin_bits.         *)
LEMMA MainBranchRef ==
    ASSUME NEW s, RefOK(s), NEW raw \in Traces, NEW h \in HitCounts,
           NEW cksum \in Nat
    PROVE  \A cr \in MainBranch(s, raw, h, cksum) : CtlRef(cr)
<1>. DEFINE t  == ClassifyCounts(raw)
            c  == FewBits(s, VIRGIN_BITS, t, h)
            e  == NewEntry(t, h, c.ret, cksum)
            s1 == AddToQueue(c.st, e)
<1>1. s \in StateType
  BY DEF RefOK
<1>2. t \in BucketTrace
  BY ConversionType
<1>3. /\ RefOK(c.st)
      /\ c.st.queue = s.queue
      /\ c.st.global_min_hit_count # UINT64_MAX
      /\ c.st.total_min_bitmap_size <= CountBytes(t)
      /\ HasBms(c.ret) =>
            \A i \in 1..Len(s.queue) : CountBytes(t) < CountBytes(s.queue[i].trace)
  BY <1>2, FewBitsRef DEF VirginMaps
<1>4. MainBranch(s, raw, h, cksum) \subseteq CtlType
  BY <1>1, MainBranchType
<1>5. \A x : RefOK(x) => RefOK(Return(x).st)
  BY DEF Return
<1>6. CASE c.ret = 0
  BY <1>3, <1>4, <1>5, <1>6 DEF MainBranch, CtlRef
<1>7. CASE c.ret # 0
  <2>1. e \in QueueEntry /\ e.trace = t /\ e.code = c.ret
    <3>1. c.ret \in 1..7
      BY <1>1, <1>2, <1>7, FewBitsType DEF VirginMaps
    <3>2. e \in QueueEntry
      BY <3>1, NewEntryType
    <3>. QED  BY <3>2 DEF NewEntry
  <2>2. RefOK(s1)
    <3>. HIDE DEF c, e
    <3>. QED  BY <1>3, <2>1, AddEntryRef
  <2>3. RefOK([s1 EXCEPT !.status = "fatal"]) /\ RefOK([c.st EXCEPT !.status = "sigfpe"])
    <3>. HIDE DEF s1, c
    <3>. QED  BY <1>3, <2>2, StatusRef DEF Statuses
  <2>4. \A ct \in Traces : RefOK(Continue(s1, ct, TRUE).st)
    BY <2>2 DEF Continue
  <2>. DEFINE Out(o) ==
              CASE o = "drop"   -> {Return(c.st)}
                [] o = "sigfpe" -> {Return([c.st EXCEPT !.status = "sigfpe"])}
                [] o = "keep"   -> {Return([s1 EXCEPT !.status = "fatal"])} \cup
                                   {Continue(s1, ct, TRUE) : ct \in Traces}
  <2>5. \A o \in {"keep", "drop", "sigfpe"} : \A cr \in Out(o) : RefOK(cr.st)
    BY <1>3, <1>5, <2>3, <2>4
  <2>6. NearMiss(c.ret, h, c.st.global_min_hit_count) \subseteq {"keep", "drop", "sigfpe"}
    BY DEF NearMiss
  <2>7. MainBranch(s, raw, h, cksum) = UNION {Out(o) : o \in NearMiss(c.ret, h, c.st.global_min_hit_count)}
    BY <1>7 DEF MainBranch
  <2>8. \A cr \in MainBranch(s, raw, h, cksum) : RefOK(cr.st)
    <3>. HIDE DEF Out, c, s1
    <3>. QED  BY <2>5, <2>6, <2>7
  <2>. QED  BY <1>4, <2>8 DEF CtlRef
<1>. QED  BY <1>6, <1>7

(* The crash branch keeps the state RefOK. *)
LEMMA CrashBranchRef ==
    ASSUME NEW cr, CtlRef(cr), NEW h \in HitCounts
    PROVE  \A x \in CrashBranch(cr, h) : RefOK(x)
<1>. DEFINE s1 == [cr.st EXCEPT !.total_crashes = @ + 1]
            c  == IF NonInstrumentedMode THEN [ret |-> 1, st |-> s1]
                  ELSE FewBits(s1, VIRGIN_CRASH, Simplified(cr), h)
            r  == [c.st EXCEPT !.crash_readme = TRUE]
<1>1. RefOK(s1)
  <2>1. RefOK(cr.st)
    BY DEF CtlRef
  <2>. QED  BY <2>1, CounterRef
<1>2. RefOK(c.st)
  <2>1. Simplified(cr) \in BucketTrace
    BY SimplifiedType DEF CtlRef
  <2>. HIDE DEF s1
  <2>. QED  BY <1>1, <2>1, FewBitsRef DEF VirginMaps
<1>3. RefOK(r)
  <2>. HIDE DEF c
  <2>. QED  BY <1>2, FlagRef
<1>4. RefOK([r EXCEPT !["unique_crashes"] = r["unique_crashes"] + 1])
  <2>. HIDE DEF r
  <2>. QED  BY <1>3, CounterRef
<1>5. [c.st EXCEPT !.crash_readme = TRUE, !.unique_crashes = @ + 1]
        = [r EXCEPT !["unique_crashes"] = r["unique_crashes"] + 1]
  BY Zenon
<1>. QED  BY <1>1, <1>2, <1>4, <1>5 DEF CrashBranch

(* The hang re-run keeps the state RefOK. *)
LEMMA RerunRef ==
    ASSUME NEW s, RefOK(s), NEW h \in HitCounts, NEW nf \in Faults,
           NEW nt \in Traces, NEW stop \in BOOLEAN
    PROVE  \A x \in Rerun(s, h, nf, nt, stop) : RefOK(x)
<1>. DEFINE s1 == [s EXCEPT !.stop_soon = stop]
<1>1. RefOK(s1)
  BY FlagRef
<1>2. RefOK(SaveHang(s1))
  <2>. HIDE DEF s1
  <2>. QED  BY <1>1, CounterRef DEF SaveHang
<1>3. CtlRef(Continue(s1, ClassifyCounts(nt), TRUE))
  <2>1. s1 \in StateType
    BY <1>1 DEF RefOK
  <2>2. Continue(s1, ClassifyCounts(nt), TRUE) \in CtlType
    BY <2>1, ConversionType, BucketTraceIsTrace, Zenon DEF Continue, CtlType
  <2>. QED  BY <1>1, <2>2 DEF CtlRef, Continue
<1>4. \A x \in CrashBranch(Continue(s1, ClassifyCounts(nt), TRUE), h) : RefOK(x)
  <2>. HIDE DEF s1
  <2>. QED  BY <1>3, CrashBranchRef
<1>. QED  BY <1>1, <1>2, <1>4 DEF Rerun

(* The hang branch keeps the state RefOK. *)
LEMMA HangBranchRef ==
    ASSUME NEW cr, CtlRef(cr), NEW h \in HitCounts
    PROVE  \A x \in HangBranch(cr, h) : RefOK(x)
<1>. DEFINE s1 == [cr.st EXCEPT !.total_tmouts = @ + 1]
            c  == IF NonInstrumentedMode THEN [ret |-> 1, st |-> s1]
                  ELSE FewBits(s1, VIRGIN_TMOUT, Simplified(cr), h)
            s2 == [c.st EXCEPT !.unique_tmouts = @ + 1]
<1>1. RefOK(s1)
  <2>1. RefOK(cr.st)
    BY DEF CtlRef
  <2>. QED  BY <2>1, CounterRef
<1>2. RefOK(c.st)
  <2>1. Simplified(cr) \in BucketTrace
    BY SimplifiedType DEF CtlRef
  <2>. HIDE DEF s1
  <2>. QED  BY <1>1, <2>1, FewBitsRef DEF VirginMaps
<1>3. RefOK(s2)
  <2>. HIDE DEF c
  <2>. QED  BY <1>2, CounterRef
<1>4. RefOK(SaveHang(s2))
  <2>. HIDE DEF s2
  <2>. QED  BY <1>3, CounterRef DEF SaveHang
<1>5. \A nf \in Faults, nt \in Traces, stop \in BOOLEAN :
        \A x \in Rerun(s2, h, nf, nt, stop) : RefOK(x)
  <2>. HIDE DEF s2
  <2>. QED  BY <1>3, RerunRef
<1>. QED  BY <1>1, <1>2, <1>4, <1>5 DEF HangBranch

(* The switch on the fault keeps the state RefOK. *)
LEMMA SwitchFaultRef ==
    ASSUME NEW cr, CtlRef(cr), NEW fault \in Faults, NEW h \in HitCounts
    PROVE  \A x \in SwitchFault(cr, fault, h) : RefOK(x)
<1>1. RefOK(cr.st)
  BY DEF CtlRef
<1>2. RefOK([cr.st EXCEPT !.status = "fatal"])
  BY <1>1, StatusRef DEF Statuses
<1>. QED  BY <1>1, <1>2, CrashBranchRef, HangBranchRef DEF SwitchFault

(* One call of save_if_interesting keeps the state RefOK. *)
LEMMA HandleRef ==
    ASSUME NEW s, RefOK(s), NEW len \in {0, 1}, NEW raw \in Traces,
           NEW h \in HitCounts, NEW fault \in Faults
    PROVE  \A x \in Handle(s, len, raw, h, fault) : RefOK(x)
<1>. DEFINE cksum == IF FreqSchedule THEN Hash(raw) ELSE 0
            s1 == PathFrequency(s, cksum)
<1>1. cksum \in Nat
  OBVIOUS
<1>2. RefOK(s1)
  BY <1>1, PathFrequencyRef
<1>3. CtlRef(Continue(s1, raw, FALSE))
  BY <1>2, Zenon DEF Continue, CtlType, RefOK, CtlRef
<1>4. \A cr \in MainBranch(s1, raw, h, cksum) : CtlRef(cr)
  <2>. HIDE DEF s1
  <2>. QED  BY <1>1, <1>2, MainBranchRef
<1>5. \A cr : CtlRef(cr) =>
        \A x \in (IF cr.done THEN {cr.st} ELSE SwitchFault(cr, fault, h)) : RefOK(x)
  BY SwitchFaultRef DEF CtlRef
<1>. DEFINE main == IF fault = CrashMode THEN MainBranch(s1, raw, h, cksum)
                    ELSE {Continue(s1, raw, FALSE)}
<1>6. \A cr \in main : CtlRef(cr)
  BY <1>3, <1>4
<1>7. CASE len = 0
  BY <1>7 DEF Handle
<1>8. CASE len = 1
  <2>1. Handle(s, len, raw, h, fault) =
          UNION {IF cr.done THEN {cr.st} ELSE SwitchFault(cr, fault, h) : cr \in main}
    BY <1>8 DEF Handle
  <2>. HIDE DEF main
  <2>. QED  BY <1>5, <1>6, <2>1
<1>. QED  BY <1>7, <1>8

(* IInv holds initially: the queue is empty and the reference is unset.   *)
LEMMA InitIInv == Init => IInv
<1> SUFFICES ASSUME Init PROVE IInv
  OBVIOUS
<1>1. TypeOK
  BY InitTypeOK
<1>2. State \in StateType
  BY <1>1, TypeOKState, SMTT(30)
<1>3. State.queue = << >> /\ State.total_min_bitmap_size = 0
  BY DEF Init, State
<1>. QED  BY <1>1, <1>2, <1>3
          DEF IInv, RefOK, MinBelowQueue, UninitializedMeansEmpty, BmsTagTruthfulRec

(* Every step keeps IInv.  save_if_interesting by HandleRef; write_bitmap *)
(* and the stop signal touch neither the queue nor the reference.         *)
LEMMA NextIInv == IInv /\ [Next]_vars => IInv'
<1> SUFFICES ASSUME IInv, [Next]_vars PROVE IInv'
  OBVIOUS
<1>1. TypeOK'
  BY NextTypeOK DEF IInv
<1>2. RefOK(State)
  BY SMTT(30) DEF IInv
<1>3. State' \in StateType
  BY <1>1 DEF TypeOK, State, StateType
<1>4. CASE SaveIfInteresting
  <2>1. PICK len \in {0, 1}, raw \in Traces, h \in HitCounts, fault \in Faults :
          \E s \in Handle(State, len, raw, h, fault) : Store([s EXCEPT !.runs = runs + 1])
    BY <1>4 DEF SaveIfInteresting
  <2>2. PICK s \in Handle(State, len, raw, h, fault) : Store([s EXCEPT !.runs = runs + 1])
    BY <2>1
  <2>3. RefOK(s)
    BY <1>2, HandleRef
  <2>4. runs + 1 \in 0..MaxRuns
    <3>1. runs < MaxRuns
      BY <1>4, Zenon DEF SaveIfInteresting
    <3>. QED  BY <3>1 DEF IInv, TypeOK
  <2>5. RefOK([s EXCEPT !.runs = runs + 1])
    BY <2>3, <2>4, RunsRef
  <2>6. RefOK(State')
    <3>. DEFINE r == [s EXCEPT !.runs = runs + 1]
    <3>0. RefOK(r)
      BY <2>5
    <3>1. Store(r)
      BY <2>2, SMTT(30)
    <3>2. /\ State'.queue = r.queue
          /\ State'.total_min_bitmap_size = r.total_min_bitmap_size
          /\ State'.global_min_hit_count = r.global_min_hit_count
      <4>. HIDE DEF r
      <4>. QED  BY <3>1 DEF Store, State
    <3>. HIDE DEF r
    <3>. QED  BY <1>3, <3>0, <3>2, FrameRefOK
  <2>. QED  BY <1>1, <2>6 DEF IInv
<1>5. CASE WriteBitmap \/ HandleStopSig \/ UNCHANGED vars
  <2>1. /\ State'.queue = State.queue
        /\ State'.total_min_bitmap_size = State.total_min_bitmap_size
        /\ State'.global_min_hit_count = State.global_min_hit_count
    BY <1>5 DEF WriteBitmap, HandleStopSig, vars, State
  <2>. QED  BY <1>1, <1>2, <1>3, <2>1, FrameRefOK, SMTT(30) DEF IInv
<1>. QED  BY <1>4, <1>5 DEF Next

(* IInv implies the -bms tag property on the variables. *)
LEMMA IInvBms == IInv => BmsTagTruthful
BY DEF IInv, RefOK, BmsTagTruthfulRec, BmsTagTruthful, State

(* The -bms tag of a queue entry's file name is truthful: every entry      *)
(* save_if_interesting queues with a bms code (describe_op's ",-bms..."     *)
(* suffixes) hit strictly fewer edges than every entry queued before it,   *)
(* although total_min_bitmap_size is shared by the classifications         *)
(* against virgin_bits, virgin_tmout and virgin_crash.                     *)
THEOREM BmsTagTruthfulHolds == Spec => []BmsTagTruthful
<1>1. Init => IInv
  BY InitIInv
<1>2. IInv /\ [Next]_vars => IInv'
  BY NextIInv
<1>3. IInv => BmsTagTruthful
  BY IInvBms
<1>. QED  BY <1>1, <1>2, <1>3, PTL DEF Spec
=============================================================================
