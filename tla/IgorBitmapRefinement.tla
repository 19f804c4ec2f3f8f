------------------------ MODULE IgorBitmapRefinement ------------------------
(***************************************************************************)
(* Proof that IgorBitmap implements AbstractReference under the mapping   *)
(* tmin <- total_min_bitmap_size, gmin <- global_min_hit_count.           *)
(*                                                                         *)
(* One call of save_if_interesting may run has_few_bits twice (against    *)
(* virgin_bits in the main branch, then against virgin_tmout or           *)
(* virgin_crash), so a step of the handler is a composition of reference  *)
(* updates.  Adv(a, g, s) says that the scalars of the record s are       *)
(* reached from the values (a, g) they had when the call began by a       *)
(* stutter, a seeding or a lowering; every phase lemma below shows that   *)
(* Adv(a, g, .) is kept, and that a seeding followed by a lowering is a    *)
(* seeding.  The argument needs the invariant of IgorBitmapProofs:        *)
(* global_min_hit_count is UINT64_MAX only while total_min_bitmap_size is *)
(* 0 (UninitializedMeansEmpty), so a call never lowers an unseeded        *)
(* reference.                                                             *)
(***************************************************************************)
EXTENDS IgorBitmapProofs

USE ConstantsAssumption

(* (x, y) is a stutter, a seeding or a lowering of (a, g). *)
AdvVals(a, g, x, y) ==
    \/ x = a /\ y = g
    \/ a = 0 /\ g = UINT64_MAX /\ x \in 0..MapSize /\ y \in HitCounts
    \/ g # UINT64_MAX /\ x \in 0..a /\ y \in HitCounts /\ y <= g

(* The scalars of the record o are a stutter, a seeding or a lowering of *)
(* (a, g).                                                                *)
Adv(a, g, o) == AdvVals(a, g, o.total_min_bitmap_size, o.global_min_hit_count)

(* Seeding after a composition that left the reference unseeded is a     *)
(* seeding.                                                               *)
LEMMA AdvSeed ==
    ASSUME NEW a \in Nat, NEW g \in Nat, AdvVals(a, g, 0, UINT64_MAX),
           NEW x \in 0..MapSize, NEW y \in HitCounts
    PROVE  AdvVals(a, g, x, y)
BY DEF AdvVals

(* Lowering a seeded reference after a stutter, a seeding or a lowering   *)
(* is, in all, a seeding or a lowering.                                   *)
LEMMA AdvLower ==
    ASSUME NEW a \in Nat, NEW g \in Nat, NEW x0 \in 0..MapSize, NEW y0 \in HitCounts,
           AdvVals(a, g, x0, y0),
           NEW x \in 0..x0, NEW y \in HitCounts, y <= y0
    PROVE  AdvVals(a, g, x, y)
<1>1. y0 # UINT64_MAX /\ y0 \in Nat /\ y \in Nat
  OBVIOUS
<1>2. CASE x0 = a /\ y0 = g
  BY <1>1, <1>2 DEF AdvVals
<1>3. CASE a = 0 /\ g = UINT64_MAX
  BY <1>3 DEF AdvVals
<1>4. CASE g # UINT64_MAX /\ x0 \in 0..a /\ y0 <= g
  BY <1>1, <1>4 DEF AdvVals
<1>. QED  BY <1>2, <1>3, <1>4, Zenon DEF AdvVals

(* The fields of the state record other than the two reference scalars. *)
OtherFields ==
    {"virgin", "bitmap_changed", "fuzz_bitmap", "trace_mini_ori",
     "original_virgin_bits", "queue", "n_fuzz", "total_tmouts",
     "unique_tmouts", "unique_hangs", "total_crashes", "unique_crashes",
     "crash_readme", "status", "stop_soon", "runs"}

(* An update of any other field keeps Adv. *)
LEMMA FrameAdv ==
    ASSUME NEW a \in Nat, NEW g \in Nat, NEW s \in StateType, Adv(a, g, s),
           NEW f \in OtherFields, NEW x
    PROVE  Adv(a, g, [s EXCEPT ![f] = x])
<1>1. /\ "total_min_bitmap_size" \in DOMAIN s
      /\ "global_min_hit_count" \in DOMAIN s
  BY DEF StateType
<1>2. /\ [s EXCEPT ![f] = x].total_min_bitmap_size = s.total_min_bitmap_size
      /\ [s EXCEPT ![f] = x].global_min_hit_count = s.global_min_hit_count
  BY <1>1 DEF OtherFields
<1>. QED  BY <1>2 DEF Adv

(* has_few_bits keeps Adv: it seeds an unseeded reference, and otherwise  *)
(* replaces each scalar only by a strictly smaller value.                 *)
LEMMA FewBitsAdv ==
    ASSUME NEW a \in Nat, NEW g \in Nat, NEW s, RefOK(s), Adv(a, g, s),
           NEW m \in VirginMaps, NEW t \in BucketTrace, NEW h \in HitCounts
    PROVE  Adv(a, g, FewBits(s, m, t, h).st)
<1>. DEFINE c  == FewBits(s, m, t, h)
            x  == c.st.total_min_bitmap_size
            y  == c.st.global_min_hit_count
            x0 == s.total_min_bitmap_size
            y0 == s.global_min_hit_count
<1>1. s \in StateType
  BY DEF RefOK
<1>2. CountBytes(t) \in 0..MapSize
  BY CountBytesType, BucketTraceIsTrace
<1>3. AdvVals(a, g, x0, y0)
  BY DEF Adv
<1>4. Adv(a, g, c.st) <=> AdvVals(a, g, x, y)
  BY DEF Adv
<1>5. CASE ReferenceUninitialized(x0, y0)
  <2>1. x = CountBytes(t) /\ y = h
    BY <1>1, <1>5 DEF FewBits, StateType
  <2>2. x0 = 0 /\ y0 = UINT64_MAX
    BY <1>5 DEF ReferenceUninitialized
  <2>3. AdvVals(a, g, 0, UINT64_MAX)
    BY <1>3, <2>2
  <2>. HIDE DEF c, x, y, x0, y0
  <2>4. AdvVals(a, g, x, y)
    BY <1>2, <2>1, <2>3, AdvSeed
  <2>. QED  BY <1>4, <2>4 DEF c
<1>6. CASE ~ReferenceUninitialized(x0, y0)
  <2>. DEFINE bms == BmsDecrease(CountBytes(t), x0)
              hcn == HcnDecrease(t, s.virgin[m], h, y0)
  <2>1. y0 # UINT64_MAX
    BY <1>6 DEF RefOK, UninitializedMeansEmpty, ReferenceUninitialized
  <2>2. y0 \in HitCounts /\ x0 \in 0..MapSize
    BY <1>1, <2>1 DEF StateType
  <2>3. /\ x = IF bms THEN CountBytes(t) ELSE x0
        /\ y = IF hcn THEN h ELSE y0
    BY <1>1, <1>6 DEF FewBits, StateType
  <2>4. hcn => h < y0
    BY Zenon DEF HcnDecrease
  <2>. HIDE DEF c, x, y, x0, y0, hcn
  <2>5. x \in 0..x0
    BY <1>2, <2>2, <2>3 DEF BmsDecrease
  <2>6. y \in HitCounts /\ y <= y0
    BY <2>2, <2>3, <2>4
  <2>7. AdvVals(a, g, x, y)
    BY <1>3, <2>2, <2>5, <2>6, AdvLower
  <2>. QED  BY <1>4, <2>7 DEF c
<1>. QED  BY <1>5, <1>6

(* The path-frequency update keeps Adv. *)
LEMMA PathFrequencyAdv ==
    ASSUME NEW a \in Nat, NEW g \in Nat, NEW s \in StateType, Adv(a, g, s), NEW cksum \in Nat
    PROVE  Adv(a, g, PathFrequency(s, cksum))
<1>1. CASE FreqSchedule
  <2>. DEFINE i == cksum % N_FUZZ_SIZE
              nf == [s.n_fuzz EXCEPT ![i] = IF @ < N_FUZZ_MAX THEN @ + 1 ELSE @]
  <2>1. PathFrequency(s, cksum) = [s EXCEPT !["n_fuzz"] = nf]
    BY <1>1 DEF PathFrequency
  <2>2. "n_fuzz" \in OtherFields
    BY DEF OtherFields
  <2>. HIDE DEF nf
  <2>3. Adv(a, g, [s EXCEPT !["n_fuzz"] = nf])
    BY <2>2, FrameAdv
  <2>. QED  BY <2>1, <2>3
<1>2. CASE ~FreqSchedule
  BY <1>2 DEF PathFrequency
<1>. QED  BY <1>1, <1>2

(* add_to_queue keeps Adv. *)
LEMMA AddToQueueAdv ==
    ASSUME NEW a \in Nat, NEW g \in Nat, NEW s \in StateType, Adv(a, g, s), NEW e \in QueueEntry
    PROVE  Adv(a, g, AddToQueue(s, e))
<1>1. /\ AddToQueue(s, e).total_min_bitmap_size = s.total_min_bitmap_size
      /\ AddToQueue(s, e).global_min_hit_count = s.global_min_hit_count
  BY DEF AddToQueue, StateType
<1>. QED  BY <1>1 DEF Adv

(* The status a fatal or trapped end leaves, and the flags and counters   *)
(* of the hang and crash branches, keep Adv.                              *)
LEMMA UpdateAdv ==
    ASSUME NEW a \in Nat, NEW g \in Nat, NEW s \in StateType, Adv(a, g, s)
    PROVE  /\ \A x : Adv(a, g, [s EXCEPT !.status = x])
           /\ \A x : Adv(a, g, [s EXCEPT !.crash_readme = x])
           /\ \A x : Adv(a, g, [s EXCEPT !.stop_soon = x])
           /\ \A x : Adv(a, g, [s EXCEPT !.runs = x])
           /\ \A f \in {"total_tmouts", "unique_tmouts", "unique_hangs",
                        "total_crashes", "unique_crashes"} :
                 Adv(a, g, [s EXCEPT ![f] = s[f] + 1])
BY FrameAdv DEF OtherFields

(* The main branch keeps Adv: has_few_bits against virgin_bits, then      *)
(* add_to_queue and the status of a failed calibration.                   *)
LEMMA MainBranchAdv ==
    ASSUME NEW a \in Nat, NEW g \in Nat, NEW s, RefOK(s), Adv(a, g, s),
           NEW raw \in Traces, NEW h \in HitCounts, NEW cksum \in Nat
    PROVE  \A cr \in MainBranch(s, raw, h, cksum) : Adv(a, g, cr.st)
<1>. DEFINE t  == ClassifyCounts(raw)
            c  == FewBits(s, VIRGIN_BITS, t, h)
            e  == NewEntry(t, h, c.ret, cksum)
            s1 == AddToQueue(c.st, e)
<1>1. s \in StateType
  BY DEF RefOK
<1>2. t \in BucketTrace
  BY ConversionType
<1>3. c.st \in StateType /\ c.ret \in 0..7
  BY <1>1, <1>2, FewBitsType DEF VirginMaps
<1>4. Adv(a, g, c.st)
  BY <1>2, FewBitsAdv DEF VirginMaps
<1>5. \A x : Adv(a, g, x) => Adv(a, g, Return(x).st)
  BY DEF Return
<1>6. CASE c.ret = 0
  BY <1>4, <1>5, <1>6 DEF MainBranch
<1>7. CASE c.ret # 0
  <2>1. e \in QueueEntry
    BY <1>3, <1>7, NewEntryType
  <2>2. s1 \in StateType /\ Adv(a, g, s1)
    <3>. HIDE DEF c, e
    <3>. QED  BY <1>3, <1>4, <2>1, AddToQueueAdv, AddToQueueType
  <2>3. Adv(a, g, [s1 EXCEPT !.status = "fatal"]) /\ Adv(a, g, [c.st EXCEPT !.status = "sigfpe"])
    <3>. HIDE DEF s1, c
    <3>. QED  BY <1>3, <1>4, <2>2, UpdateAdv
  <2>4. \A ct \in Traces : Adv(a, g, Continue(s1, ct, TRUE).st)
    BY <2>2 DEF Continue
  <2>. DEFINE Out(o) ==
              CASE o = "drop"   -> {Return(c.st)}
                [] o = "sigfpe" -> {Return([c.st EXCEPT !.status = "sigfpe"])}
                [] o = "keep"   -> {Return([s1 EXCEPT !.status = "fatal"])} \cup
                                   {Continue(s1, ct, TRUE) : ct \in Traces}
  <2>5. \A o \in {"keep", "drop", "sigfpe"} : \A cr \in Out(o) : Adv(a, g, cr.st)
    BY <1>4, <1>5, <2>3, <2>4
  <2>6. NearMiss(c.ret, h, c.st.global_min_hit_count) \subseteq {"keep", "drop", "sigfpe"}
    BY DEF NearMiss
  <2>7. MainBranch(s, raw, h, cksum) = UNION {Out(o) : o \in NearMiss(c.ret, h, c.st.global_min_hit_count)}
    BY <1>7 DEF MainBranch
  <2>. HIDE DEF Out, c, s1
  <2>. QED  BY <2>5, <2>6, <2>7
<1>. QED  BY <1>6, <1>7

(* The crash branch keeps Adv: has_few_bits against virgin_crash. *)
LEMMA CrashBranchAdv ==
    ASSUME NEW a \in Nat, NEW g \in Nat, NEW cr, CtlRef(cr), Adv(a, g, cr.st),
           NEW h \in HitCounts
    PROVE  \A x \in CrashBranch(cr, h) : Adv(a, g, x)
<1>. DEFINE s1 == [cr.st EXCEPT !.total_crashes = @ + 1]
            c  == IF NonInstrumentedMode THEN [ret |-> 1, st |-> s1]
                  ELSE FewBits(s1, VIRGIN_CRASH, Simplified(cr), h)
            r  == [c.st EXCEPT !.crash_readme = TRUE]
<1>1. cr.st \in StateType /\ RefOK(cr.st)
  BY DEF CtlRef, RefOK
<1>2. RefOK(s1) /\ Adv(a, g, s1)
  BY <1>1, CounterRef, UpdateAdv
<1>3. RefOK(c.st) /\ Adv(a, g, c.st)
  <2>1. Simplified(cr) \in BucketTrace
    BY SimplifiedType DEF CtlRef
  <2>. HIDE DEF s1
  <2>. QED  BY <1>2, <2>1, FewBitsRef, FewBitsAdv, SMTT(30) DEF VirginMaps
<1>4. c.st \in StateType
  BY <1>3 DEF RefOK
<1>5. r \in StateType /\ Adv(a, g, r)
  <2>. HIDE DEF c
  <2>. QED  BY <1>3, <1>4, FlagType, UpdateAdv
<1>6. Adv(a, g, [r EXCEPT !["unique_crashes"] = r["unique_crashes"] + 1])
  <2>. HIDE DEF r
  <2>. QED  BY <1>5, UpdateAdv
<1>7. [c.st EXCEPT !.crash_readme = TRUE, !.unique_crashes = @ + 1]
        = [r EXCEPT !["unique_crashes"] = r["unique_crashes"] + 1]
  BY Zenon
<1>. QED  BY <1>2, <1>3, <1>6, <1>7 DEF CrashBranch


(* The hang re-run keeps Adv. *)
LEMMA RerunAdv ==
    ASSUME NEW a \in Nat, NEW g \in Nat, NEW s, RefOK(s), Adv(a, g, s),
           NEW h \in HitCounts, NEW nf \in Faults, NEW nt \in Traces,
           NEW stop \in BOOLEAN
    PROVE  \A x \in Rerun(s, h, nf, nt, stop) : Adv(a, g, x)
<1>. DEFINE s1 == [s EXCEPT !.stop_soon = stop]
<1>1. s \in StateType
  BY DEF RefOK
<1>2. RefOK(s1) /\ Adv(a, g, s1) /\ s1 \in StateType
  BY <1>1, FlagRef, FlagType, UpdateAdv
<1>3. Adv(a, g, SaveHang(s1))
  <2>. HIDE DEF s1
  <2>. QED  BY <1>2, UpdateAdv DEF SaveHang
<1>4. CtlRef(Continue(s1, ClassifyCounts(nt), TRUE))
  <2>1. Continue(s1, ClassifyCounts(nt), TRUE) \in CtlType
    BY <1>2, ConversionType, BucketTraceIsTrace, Zenon DEF Continue, CtlType
  <2>. QED  BY <1>2, <2>1 DEF CtlRef, Continue
<1>5. \A x \in CrashBranch(Continue(s1, ClassifyCounts(nt), TRUE), h) : Adv(a, g, x)
  <2>1. Adv(a, g, Continue(s1, ClassifyCounts(nt), TRUE).st)
    BY <1>2 DEF Continue
  <2>. HIDE DEF s1
  <2>. QED  BY <1>4, <2>1, CrashBranchAdv
<1>. QED  BY <1>2, <1>3, <1>5 DEF Rerun

(* The hang branch keeps Adv: has_few_bits against virgin_tmout, then     *)
(* possibly the re-run and its crash branch: up to two classifications   *)
(* after the main branch's.                                              *)
LEMMA HangBranchAdv ==
    ASSUME NEW a \in Nat, NEW g \in Nat, NEW cr, CtlRef(cr), Adv(a, g, cr.st),
           NEW h \in HitCounts
    PROVE  \A x \in HangBranch(cr, h) : Adv(a, g, x)
<1>. DEFINE s1 == [cr.st EXCEPT !.total_tmouts = @ + 1]
            c  == IF NonInstrumentedMode THEN [ret |-> 1, st |-> s1]
                  ELSE FewBits(s1, VIRGIN_TMOUT, Simplified(cr), h)
            s2 == [c.st EXCEPT !.unique_tmouts = @ + 1]
<1>1. cr.st \in StateType /\ RefOK(cr.st)
  BY DEF CtlRef, RefOK
<1>2. RefOK(s1) /\ Adv(a, g, s1)
  BY <1>1, CounterRef, UpdateAdv
<1>3. RefOK(c.st) /\ Adv(a, g, c.st)
  <2>1. Simplified(cr) \in BucketTrace
    BY SimplifiedType DEF CtlRef
  <2>. HIDE DEF s1
  <2>. QED  BY <1>2, <2>1, FewBitsRef, FewBitsAdv, SMTT(30) DEF VirginMaps
<1>4. RefOK(s2) /\ Adv(a, g, s2)
  <2>1. c.st \in StateType
    BY <1>3 DEF RefOK
  <2>. HIDE DEF c
  <2>. QED  BY <1>3, <2>1, CounterRef, UpdateAdv
<1>5. Adv(a, g, SaveHang(s2))
  <2>1. s2 \in StateType
    BY <1>4 DEF RefOK
  <2>. HIDE DEF s2
  <2>. QED  BY <1>4, <2>1, UpdateAdv DEF SaveHang
<1>6. \A nf \in Faults, nt \in Traces, stop \in BOOLEAN :
        \A x \in Rerun(s2, h, nf, nt, stop) : Adv(a, g, x)
  <2>. HIDE DEF s2
  <2>. QED  BY <1>4, RerunAdv
<1>. QED  BY <1>2, <1>3, <1>5, <1>6 DEF HangBranch

(* The switch on the fault keeps Adv. *)
LEMMA SwitchFaultAdv ==
    ASSUME NEW a \in Nat, NEW g \in Nat, NEW cr, CtlRef(cr), Adv(a, g, cr.st),
           NEW fault \in Faults, NEW h \in HitCounts
    PROVE  \A x \in SwitchFault(cr, fault, h) : Adv(a, g, x)
<1>1. cr.st \in StateType
  BY DEF CtlRef, RefOK
<1>2. Adv(a, g, [cr.st EXCEPT !.status = "fatal"])
  BY <1>1, UpdateAdv
<1>. QED  BY <1>2, CrashBranchAdv, HangBranchAdv DEF SwitchFault

(* One call of save_if_interesting keeps Adv: whatever state it ends in,  *)
(* its scalars are a stutter, a seeding or a lowering of the scalars the  *)
(* call started from.                                                    *)
LEMMA HandleAdv ==
    ASSUME NEW s, RefOK(s), NEW len \in {0, 1}, NEW raw \in Traces,
           NEW h \in HitCounts, NEW fault \in Faults
    PROVE  \A x \in Handle(s, len, raw, h, fault) :
              Adv(s.total_min_bitmap_size, s.global_min_hit_count, x)
<1>. DEFINE a == s.total_min_bitmap_size
            g == s.global_min_hit_count
            cksum == IF FreqSchedule THEN Hash(raw) ELSE 0
            s1 == PathFrequency(s, cksum)
<1>1. s \in StateType /\ a \in Nat /\ g \in Nat
  <2>1. s \in StateType
    BY DEF RefOK
  <2>2. a \in 0..MapSize /\ g \in HitCounts \cup {UINT64_MAX}
    BY <2>1 DEF StateType
  <2>. HIDE DEF a, g
  <2>. QED  BY <2>1, <2>2
<1>2. Adv(a, g, s)
  BY DEF Adv, AdvVals
<1>3. cksum \in Nat
  OBVIOUS
<1>4. RefOK(s1) /\ Adv(a, g, s1)
  <2>. HIDE DEF a, g
  <2>. QED  BY <1>1, <1>2, <1>3, PathFrequencyRef, PathFrequencyAdv
<1>5. CtlRef(Continue(s1, raw, FALSE)) /\ Adv(a, g, Continue(s1, raw, FALSE).st)
  BY <1>4, Zenon DEF Continue, CtlType, RefOK, CtlRef
<1>6. \A cr \in MainBranch(s1, raw, h, cksum) : CtlRef(cr) /\ Adv(a, g, cr.st)
  <2>. HIDE DEF s1, a, g
  <2>. QED  BY <1>1, <1>3, <1>4, MainBranchRef, MainBranchAdv
<1>7. \A cr : CtlRef(cr) /\ Adv(a, g, cr.st) =>
        \A x \in (IF cr.done THEN {cr.st} ELSE SwitchFault(cr, fault, h)) : Adv(a, g, x)
  <2>. HIDE DEF a, g
  <2>. QED  BY <1>1, SwitchFaultAdv
<1>. DEFINE main == IF fault = CrashMode THEN MainBranch(s1, raw, h, cksum)
                    ELSE {Continue(s1, raw, FALSE)}
<1>8. \A cr \in main : CtlRef(cr) /\ Adv(a, g, cr.st)
  BY <1>5, <1>6
<1>9. CASE len = 0
  BY <1>2, <1>9 DEF Handle
<1>10. CASE len = 1
  <2>1. Handle(s, len, raw, h, fault) =
          UNION {IF cr.done THEN {cr.st} ELSE SwitchFault(cr, fault, h) : cr \in main}
    BY <1>10 DEF Handle
  <2>. HIDE DEF main
  <2>. QED  BY <1>7, <1>8, <2>1
<1>. QED  BY <1>9, <1>10


-----------------------------------------------------------------------------
(* The refinement *)

(* Initially both scalars are at their sentinels. *)
LEMMA InitRefines == Init => Reference!Init
BY DEF Init, Reference!Init

(* Scalars related by AdvVals are a step of the abstract reference or a   *)
(* stutter.                                                               *)
LEMMA AdvValsStep ==
    ASSUME total_min_bitmap_size \in Nat, global_min_hit_count \in Nat,
           AdvVals(total_min_bitmap_size, global_min_hit_count,
                   total_min_bitmap_size', global_min_hit_count')
    PROVE  [Reference!Next]_<<total_min_bitmap_size, global_min_hit_count>>
<1>. DEFINE x == total_min_bitmap_size
            y == global_min_hit_count
<1>1. CASE x' = x /\ y' = y
  BY <1>1
<1>2. CASE x = 0 /\ y = UINT64_MAX /\ x' \in 0..MapSize /\ y' \in HitCounts
  BY <1>2 DEF Reference!Next, Reference!Seed, Reference!Uninitialised
<1>3. CASE y # UINT64_MAX /\ x' \in 0..x /\ y' \in HitCounts /\ y' <= y
  <2>1. y' \in HitCounts \cap 0..y
    BY <1>3
  <2>. QED  BY <1>3, <2>1 DEF Reference!Next, Reference!Lower
<1>. QED  BY <1>1, <1>2, <1>3 DEF AdvVals

(* Every step of the fuzzer is a step of the abstract reference or leaves *)
(* both scalars alone: save_if_interesting by HandleAdv, write_bitmap and *)
(* the stop signal do not touch them.                                     *)
LEMMA NextRefines ==
    IInv /\ [Next]_vars =>
        [Reference!Next]_<<total_min_bitmap_size, global_min_hit_count>>
<1> SUFFICES ASSUME IInv, [Next]_vars
             PROVE  [Reference!Next]_<<total_min_bitmap_size, global_min_hit_count>>
  OBVIOUS
<1>1. RefOK(State) /\ State \in StateType
  BY DEF IInv, RefOK
<1>2. total_min_bitmap_size \in Nat /\ global_min_hit_count \in Nat
  BY DEF IInv, TypeOK
<1>3. CASE SaveIfInteresting
  <2>1. PICK len \in {0, 1}, raw \in Traces, h \in HitCounts, fault \in Faults :
          \E s \in Handle(State, len, raw, h, fault) : Store([s EXCEPT !.runs = runs + 1])
    BY <1>3 DEF SaveIfInteresting
  <2>2. PICK s \in Handle(State, len, raw, h, fault) : Store([s EXCEPT !.runs = runs + 1])
    BY <2>1
  <2>3. s \in StateType
    BY <1>1, HandleType
  <2>4. Adv(total_min_bitmap_size, global_min_hit_count, s)
    <3>1. Adv(State.total_min_bitmap_size, State.global_min_hit_count, s)
      BY <1>1, HandleAdv
    <3>. QED  BY <3>1 DEF State
  <2>5. Adv(total_min_bitmap_size, global_min_hit_count, [s EXCEPT !.runs = runs + 1])
    BY <1>2, <2>3, <2>4, UpdateAdv
  <2>6. AdvVals(total_min_bitmap_size, global_min_hit_count,
                total_min_bitmap_size', global_min_hit_count')
    BY <2>2, <2>5 DEF Adv, Store
  <2>. QED  BY <1>2, <2>6, AdvValsStep
<1>4. CASE WriteBitmap \/ HandleStopSig \/ UNCHANGED vars
  BY <1>4 DEF WriteBitmap, HandleStopSig, vars
<1>. QED  BY <1>3, <1>4 DEF Next

(* The reference scalars of has_few_bits behave as AbstractReference says: *)
(* total_min_bitmap_size and global_min_hit_count start at 0 and          *)
(* UINT64_MAX, are seeded by the first classification of                 *)
(* save_if_interesting, and afterwards no call, however many times it     *)
(* runs has_few_bits against the three virgin maps, raises either one or  *)
(* seeds them again.                                                      *)
THEOREM RefinementHolds == Spec => RefinesReference
<1>1. Init => IInv
  BY InitIInv
<1>2. IInv /\ [Next]_vars => IInv'
  BY NextIInv
<1>3. Init => Reference!Init
  BY InitRefines
<1>4. IInv /\ [Next]_vars =>
        [Reference!Next]_<<total_min_bitmap_size, global_min_hit_count>>
  BY NextRefines
<1>. QED  BY <1>1, <1>2, <1>3, <1>4, PTL DEF Spec, RefinesReference, Reference!Spec

=============================================================================
