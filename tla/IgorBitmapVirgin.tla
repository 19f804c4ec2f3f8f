-------------------------- MODULE IgorBitmapVirgin --------------------------
(***************************************************************************)
(* Proofs about the three virgin maps and the persisted fuzz_bitmap:       *)
(* PersistedUnlessChanged (write_bitmap never leaves a stale file behind   *)
(* a clear bitmap_changed) and SingleReference (the reference is seeded    *)
(* into one virgin map, one bucket bit per byte).                          *)
(*                                                                         *)
(* Neither is inductive.  Both rest on a fact about the lazy               *)
(* initialisation of has_few_bits: while global_min_hit_count is still at  *)
(* its sentinel, all three maps are fresh (all 0xff).  Then the seeding    *)
(* path writes into a fresh map, which gives one bit per byte and one      *)
(* seeded map, and when it returns 0 the trace hit no edge at all, so it   *)
(* did not change virgin_bits although it did not raise bitmap_changed.    *)
(* After seeding, has_few_bits only resets bytes to 0xff, and raises       *)
(* bitmap_changed whenever it does.  The sentinel fact itself needs the    *)
(* invariant RefOK of IgorBitmapProofs (global_min_hit_count at its        *)
(* sentinel means total_min_bitmap_size is 0, so every call that finds the *)
(* sentinel takes the seeding path, which leaves it).                     *)
(***************************************************************************)
EXTENDS IgorBitmapProofs, FiniteSetTheorems

(* The three conjuncts of the strengthening, on a state record. *)
PersistedRec(s) ==
    ~s.bitmap_changed => s.fuzz_bitmap = s.virgin[VIRGIN_BITS]
FreshWhileUnseeded(s) ==
    s.global_min_hit_count = UINT64_MAX => s.virgin = [m \in VirginMaps |-> FreshMap]
SingleReferenceRec(s) ==
    /\ \A m1, m2 \in VirginMaps :
          (\E k \in Edges : Touched(s.virgin[m1], k)) /\
          (\E k \in Edges : Touched(s.virgin[m2], k)) => m1 = m2
    /\ \A m \in VirginMaps, k \in Edges : Cardinality(s.virgin[m][k]) <= 1

VirginOK(s) == PersistedRec(s) /\ FreshWhileUnseeded(s) /\ SingleReferenceRec(s)

(* The inductive invariant: that of IgorBitmapProofs and VirginOK. *)
VInv == IInv /\ VirginOK(State)

-----------------------------------------------------------------------------
(* A record that agrees with a VirginOK record on the virgin maps, the     *)
(* bitmap flag, the persisted file and global_min_hit_count is VirginOK.   *)
LEMMA FrameVirgin ==
    ASSUME NEW s, NEW r, VirginOK(s),
           r.virgin = s.virgin, r.bitmap_changed = s.bitmap_changed,
           r.fuzz_bitmap = s.fuzz_bitmap,
           r.global_min_hit_count = s.global_min_hit_count
    PROVE  VirginOK(r)
BY DEF VirginOK, PersistedRec, FreshWhileUnseeded, SingleReferenceRec

(* A virgin byte that is 0xff or has one cleared bit has at most one. *)
LEMMA AtMostOneBit ==
    ASSUME NEW S, S = {} \/ \E a : S = {a}
    PROVE  Cardinality(S) <= 1
<1>1. CASE S = {}
  BY <1>1, FS_EmptySet
<1>2. CASE \E a : S = {a}
  <2>1. PICK a : S = {a}
    BY <1>2
  <2>. QED  BY <2>1, FS_Singleton
<1>. QED  BY <1>1, <1>2

(* The seeding path of has_few_bits, on fresh maps: the seeded map has one *)
(* cleared bit per hit edge, the others stay fresh, and a return code of 0 *)
(* means that the trace hit no edge, so that the map did not change.       *)
LEMMA SeedFresh ==
    ASSUME NEW t \in BucketTrace
    PROVE  /\ \A k \in Edges : DiscoverVirgin(t, FreshMap)[k] = {}
                                 \/ \E a : DiscoverVirgin(t, FreshMap)[k] = {a}
           /\ DiscoverCode(t, FreshMap) = 0 => DiscoverVirgin(t, FreshMap) = FreshMap
<1>1. \A k \in Edges : DiscoverVirgin(t, FreshMap)[k] = IF t[k] = 0 THEN {} ELSE {t[k]}
  BY DEF DiscoverVirgin, FreshMap
<1>2. DiscoverCode(t, FreshMap) = 0 => \A k \in Edges : t[k] = 0
  BY DEF DiscoverCode, FreshMap
<1>. QED  BY <1>1, <1>2 DEF DiscoverVirgin, FreshMap

(* has_few_bits keeps VirginOK: on the seeding path it finds all maps     *)
(* fresh; afterwards it only resets bytes of the map it was given, and     *)
(* raises bitmap_changed whenever it resets one.                           *)
LEMMA FewBitsVirgin ==
    ASSUME NEW s, RefOK(s), VirginOK(s), NEW m \in VirginMaps,
           NEW t \in BucketTrace, NEW h \in HitCounts
    PROVE  VirginOK(FewBits(s, m, t, h).st)
<1>. DEFINE c == FewBits(s, m, t, h)
            v == s.virgin[m]
<1>1. s \in StateType
  BY DEF RefOK
<1>2. FreshWhileUnseeded(c.st)
  BY FewBitsRef DEF FreshWhileUnseeded
<1>3. v \in [Edges -> SUBSET BucketBits]
  BY <1>1 DEF StateType, VirginMap
<1>4. CASE ReferenceUninitialized(s.total_min_bitmap_size, s.global_min_hit_count)
  <2>. DEFINE nv == DiscoverVirgin(t, v)
              ret == DiscoverCode(t, v)
  <2>1. s.virgin = [m2 \in VirginMaps |-> FreshMap]
    BY <1>4 DEF VirginOK, FreshWhileUnseeded, ReferenceUninitialized
  <2>2. /\ c.st.virgin = [s.virgin EXCEPT ![m] = nv]
        /\ c.st.fuzz_bitmap = s.fuzz_bitmap
        /\ c.st.bitmap_changed = (s.bitmap_changed \/ InitBitmapChanged(ret, m))
    BY <1>1, <1>4 DEF FewBits, StateType
  <2>3. v = FreshMap
    BY <2>1
  <2>4. /\ \A k \in Edges : nv[k] = {} \/ \E a : nv[k] = {a}
        /\ ret = 0 => nv = v
    BY <2>3, SeedFresh
  <2>5. \A m2 \in VirginMaps : m2 # m => c.st.virgin[m2] = FreshMap
    BY <2>1, <2>2
  <2>6. c.st.virgin[m] = nv
    BY <2>2, <1>1 DEF StateType
  <2>7. SingleReferenceRec(c.st)
    <3>1. \A m2 \in VirginMaps, k \in Edges :
            c.st.virgin[m2][k] = {} \/ \E a : c.st.virgin[m2][k] = {a}
      BY <2>4, <2>5, <2>6 DEF FreshMap
    <3>2. \A m2 \in VirginMaps, k \in Edges : Cardinality(c.st.virgin[m2][k]) <= 1
      BY <3>1, AtMostOneBit
    <3>3. \A m1, m2 \in VirginMaps :
            (\E k \in Edges : Touched(c.st.virgin[m1], k)) /\
            (\E k \in Edges : Touched(c.st.virgin[m2], k)) => m1 = m2
      BY <2>5 DEF Touched, FreshMap
    <3>. QED  BY <3>2, <3>3 DEF SingleReferenceRec
  <2>8. PersistedRec(c.st)
    <3>1. CASE m = VIRGIN_BITS /\ ret # 0
      BY <3>1, <2>2 DEF PersistedRec, InitBitmapChanged
    <3>2. CASE m # VIRGIN_BITS
      <4>1. c.st.virgin[VIRGIN_BITS] = s.virgin[VIRGIN_BITS]
        BY <3>2, <2>2, <1>1 DEF StateType, VirginMaps
      <4>. QED  BY <3>2, <4>1, <2>2 DEF PersistedRec, InitBitmapChanged, VirginOK
    <3>3. CASE m = VIRGIN_BITS /\ ret = 0
      <4>1. c.st.virgin[VIRGIN_BITS] = s.virgin[VIRGIN_BITS]
        BY <3>3, <2>4, <2>6
      <4>. QED  BY <3>3, <4>1, <2>2 DEF PersistedRec, InitBitmapChanged, VirginOK
    <3>. QED  BY <3>1, <3>2, <3>3
  <2>. QED  BY <1>2, <2>7, <2>8 DEF VirginOK
<1>5. CASE ~ReferenceUninitialized(s.total_min_bitmap_size, s.global_min_hit_count)
  <2>. DEFINE gone == Vanished(t, v)
              nv   == [k \in Edges |-> IF k \in gone THEN {} ELSE v[k]]
  <2>1. /\ c.st.virgin = [s.virgin EXCEPT ![m] = nv]
        /\ c.st.fuzz_bitmap = s.fuzz_bitmap
        /\ c.st.bitmap_changed = (s.bitmap_changed \/ gone # {})
    BY <1>1, <1>5 DEF FewBits, StateType
  <2>2. \A m2 \in VirginMaps : m2 # m => c.st.virgin[m2] = s.virgin[m2]
    BY <2>1
  <2>3. c.st.virgin[m] = nv
    BY <2>1, <1>1 DEF StateType
  <2>4. \A m2 \in VirginMaps, k \in Edges :
          c.st.virgin[m2][k] = {} \/ c.st.virgin[m2][k] = s.virgin[m2][k]
    BY <2>2, <2>3
  <2>5. SingleReferenceRec(c.st)
    <3>1. \A m2 \in VirginMaps, k \in Edges : Cardinality(c.st.virgin[m2][k]) <= 1
      <4>. TAKE m2 \in VirginMaps, k \in Edges
      <4>1. CASE c.st.virgin[m2][k] = {}
        BY <4>1, AtMostOneBit
      <4>2. CASE c.st.virgin[m2][k] = s.virgin[m2][k]
        BY <4>2 DEF VirginOK, SingleReferenceRec
      <4>. QED  BY <4>1, <4>2, <2>4
    <3>2. \A m2 \in VirginMaps, k \in Edges :
            Touched(c.st.virgin[m2], k) => Touched(s.virgin[m2], k)
      BY <2>4 DEF Touched
    <3>3. \A m1, m2 \in VirginMaps :
            (\E k \in Edges : Touched(c.st.virgin[m1], k)) /\
            (\E k \in Edges : Touched(c.st.virgin[m2], k)) => m1 = m2
      BY <3>2 DEF VirginOK, SingleReferenceRec
    <3>. QED  BY <3>1, <3>3 DEF SingleReferenceRec
  <2>6. PersistedRec(c.st)
    <3>1. CASE gone # {}
      BY <3>1, <2>1 DEF PersistedRec
    <3>2. CASE gone = {}
      <4>1. nv = v
        BY <3>2, <1>3
      <4>2. c.st.virgin[VIRGIN_BITS] = s.virgin[VIRGIN_BITS]
        BY <4>1, <2>2, <2>3 DEF VirginMaps
      <4>. QED  BY <3>2, <4>2, <2>1 DEF PersistedRec, VirginOK
    <3>. QED  BY <3>1, <3>2
  <2>. QED  BY <1>2, <2>5, <2>6 DEF VirginOK
<1>. QED  BY <1>4, <1>5

(* The other updates of save_if_interesting leave the virgin maps, the     *)
(* bitmap flag, the file and global_min_hit_count alone.                   *)
LEMMA UpdateVirgin ==
    ASSUME NEW s, VirginOK(s), s \in StateType,
           NEW x, NEW cksum \in Nat, NEW e
    PROVE  /\ VirginOK([s EXCEPT !.status = x])
           /\ VirginOK([s EXCEPT !.total_tmouts = x])
           /\ VirginOK([s EXCEPT !.unique_tmouts = x])
           /\ VirginOK([s EXCEPT !.unique_hangs = x])
           /\ VirginOK([s EXCEPT !.total_crashes = x])
           /\ VirginOK([s EXCEPT !.unique_crashes = x])
           /\ VirginOK([s EXCEPT !.crash_readme = x])
           /\ VirginOK([s EXCEPT !.stop_soon = x])
           /\ VirginOK([s EXCEPT !.runs = x])
           /\ VirginOK(PathFrequency(s, cksum))
           /\ VirginOK(AddToQueue(s, e))
<1>1. /\ VirginOK([s EXCEPT !.status = x])
      /\ VirginOK([s EXCEPT !.total_tmouts = x])
      /\ VirginOK([s EXCEPT !.unique_tmouts = x])
      /\ VirginOK([s EXCEPT !.unique_hangs = x])
      /\ VirginOK([s EXCEPT !.total_crashes = x])
      /\ VirginOK([s EXCEPT !.unique_crashes = x])
      /\ VirginOK([s EXCEPT !.crash_readme = x])
      /\ VirginOK([s EXCEPT !.stop_soon = x])
      /\ VirginOK([s EXCEPT !.runs = x])
  BY FrameVirgin DEF StateType
<1>2. VirginOK(PathFrequency(s, cksum))
  <2>1. CASE FreqSchedule
    BY <2>1, FrameVirgin DEF StateType, PathFrequency
  <2>2. CASE ~FreqSchedule
    BY <2>2 DEF PathFrequency
  <2>. QED  BY <2>1, <2>2
<1>3. VirginOK(AddToQueue(s, e))
  BY FrameVirgin DEF StateType, AddToQueue
<1>. QED  BY <1>1, <1>2, <1>3

(* The main branch keeps VirginOK. *)
LEMMA MainBranchVirgin ==
    ASSUME NEW s, RefOK(s), VirginOK(s), NEW raw \in Traces, NEW h \in HitCounts,
           NEW cksum \in Nat
    PROVE  \A cr \in MainBranch(s, raw, h, cksum) : VirginOK(cr.st)
<1>. DEFINE t  == ClassifyCounts(raw)
            c  == FewBits(s, VIRGIN_BITS, t, h)
            e  == NewEntry(t, h, c.ret, cksum)
            s1 == AddToQueue(c.st, e)
<1>1. s \in StateType
  BY DEF RefOK
<1>2. t \in BucketTrace
  BY ConstantsAssumption, ConversionType
<1>3. VirginOK(c.st) /\ c.st \in StateType
  BY <1>2, FewBitsVirgin, FewBitsRef DEF VirginMaps, RefOK
<1>4. \A x : VirginOK(x) => VirginOK(Return(x).st)
  BY DEF Return
<1>5. CASE c.ret = 0
  BY <1>3, <1>4, <1>5 DEF MainBranch
<1>6. CASE c.ret # 0
  <2>1. e \in QueueEntry
    <3>1. c.ret \in 1..7
      BY <1>1, <1>2, <1>6, FewBitsType, SMTT(30) DEF VirginMaps
    <3>. QED  BY <3>1, NewEntryType
  <2>2. VirginOK(s1) /\ s1 \in StateType
    <3>. HIDE DEF c, e
    <3>. QED  BY <1>3, <2>1, UpdateVirgin, AddToQueueType
  <2>3. VirginOK([s1 EXCEPT !.status = "fatal"]) /\ VirginOK([c.st EXCEPT !.status = "sigfpe"])
    <3>. HIDE DEF s1, c
    <3>. QED  BY <1>3, <2>2, UpdateVirgin
  <2>4. \A ct \in Traces : VirginOK(Continue(s1, ct, TRUE).st)
    BY <2>2 DEF Continue
  <2>. DEFINE Out(o) ==
              CASE o = "drop"   -> {Return(c.st)}
                [] o = "sigfpe" -> {Return([c.st EXCEPT !.status = "sigfpe"])}
                [] o = "keep"   -> {Return([s1 EXCEPT !.status = "fatal"])} \cup
                                   {Continue(s1, ct, TRUE) : ct \in Traces}
  <2>5. \A o \in {"keep", "drop", "sigfpe"} : \A cr \in Out(o) : VirginOK(cr.st)
    BY <1>3, <1>4, <2>3, <2>4
  <2>6. NearMiss(c.ret, h, c.st.global_min_hit_count) \subseteq {"keep", "drop", "sigfpe"}
    BY DEF NearMiss
  <2>7. MainBranch(s, raw, h, cksum) = UNION {Out(o) : o \in NearMiss(c.ret, h, c.st.global_min_hit_count)}
    BY <1>6 DEF MainBranch
  <2>. HIDE DEF Out, c, s1
  <2>. QED  BY <2>5, <2>6, <2>7
<1>. QED  BY <1>5, <1>6

(* A control record whose state satisfies both invariants. *)
CtlVirgin(cr) == CtlRef(cr) /\ VirginOK(cr.st)

(* The crash branch keeps VirginOK. *)
LEMMA CrashBranchVirgin ==
    ASSUME NEW cr, CtlVirgin(cr), NEW h \in HitCounts
    PROVE  \A x \in CrashBranch(cr, h) : VirginOK(x)
<1>. DEFINE s1 == [cr.st EXCEPT !.total_crashes = @ + 1]
            c  == IF NonInstrumentedMode THEN [ret |-> 1, st |-> s1]
                  ELSE FewBits(s1, VIRGIN_CRASH, Simplified(cr), h)
            r  == [c.st EXCEPT !.crash_readme = TRUE]
<1>1. RefOK(s1) /\ VirginOK(s1)
  <2>1. RefOK(cr.st) /\ VirginOK(cr.st) /\ cr.st \in StateType
    BY DEF CtlVirgin, CtlRef, RefOK
  <2>. QED  BY <2>1, CounterRef, UpdateVirgin
<1>2. VirginOK(c.st) /\ c.st \in StateType
  <2>1. Simplified(cr) \in BucketTrace
    BY SimplifiedType DEF CtlVirgin, CtlRef
  <2>. HIDE DEF s1
  <2>. QED  BY <1>1, <2>1, FewBitsVirgin, FewBitsRef DEF VirginMaps, RefOK
<1>3. VirginOK(r) /\ r \in StateType
  <2>. HIDE DEF c
  <2>. QED  BY <1>2, UpdateVirgin, FlagType
<1>4. VirginOK([r EXCEPT !.unique_crashes = r.unique_crashes + 1])
  <2>. HIDE DEF r
  <2>. QED  BY <1>3, UpdateVirgin
<1>5. [c.st EXCEPT !.crash_readme = TRUE, !.unique_crashes = @ + 1]
        = [r EXCEPT !.unique_crashes = r.unique_crashes + 1]
  BY Zenon
<1>. QED  BY <1>1, <1>2, <1>4, <1>5 DEF CrashBranch

(* The hang re-run keeps VirginOK. *)
LEMMA RerunVirgin ==
    ASSUME NEW s, RefOK(s), VirginOK(s), NEW h \in HitCounts, NEW nf \in Faults,
           NEW nt \in Traces, NEW stop \in BOOLEAN
    PROVE  \A x \in Rerun(s, h, nf, nt, stop) : VirginOK(x)
<1>. DEFINE s1 == [s EXCEPT !.stop_soon = stop]
<1>1. RefOK(s1) /\ VirginOK(s1) /\ s1 \in StateType
  BY FlagRef, UpdateVirgin DEF RefOK
<1>2. VirginOK(SaveHang(s1))
  <2>. HIDE DEF s1
  <2>. QED  BY <1>1, UpdateVirgin DEF SaveHang
<1>3. CtlVirgin(Continue(s1, ClassifyCounts(nt), TRUE))
  <2>1. Continue(s1, ClassifyCounts(nt), TRUE) \in CtlType
    BY <1>1, ConstantsAssumption, ConversionType, BucketTraceIsTrace, Zenon
       DEF Continue, CtlType
  <2>. QED  BY <1>1, <2>1 DEF CtlVirgin, CtlRef, Continue
<1>4. \A x \in CrashBranch(Continue(s1, ClassifyCounts(nt), TRUE), h) : VirginOK(x)
  <2>. HIDE DEF s1
  <2>. QED  BY <1>3, CrashBranchVirgin
<1>. QED  BY <1>1, <1>2, <1>4 DEF Rerun

(* The hang branch keeps VirginOK. *)
LEMMA HangBranchVirgin ==
    ASSUME NEW cr, CtlVirgin(cr), NEW h \in HitCounts
    PROVE  \A x \in HangBranch(cr, h) : VirginOK(x)
<1>. DEFINE s1 == [cr.st EXCEPT !.total_tmouts = @ + 1]
            c  == IF NonInstrumentedMode THEN [ret |-> 1, st |-> s1]
                  ELSE FewBits(s1, VIRGIN_TMOUT, Simplified(cr), h)
            s2 == [c.st EXCEPT !.unique_tmouts = @ + 1]
<1>1. RefOK(s1) /\ VirginOK(s1)
  <2>1. RefOK(cr.st) /\ VirginOK(cr.st) /\ cr.st \in StateType
    BY DEF CtlVirgin, CtlRef, RefOK
  <2>. QED  BY <2>1, CounterRef, UpdateVirgin
<1>2. RefOK(c.st) /\ VirginOK(c.st)
  <2>1. Simplified(cr) \in BucketTrace
    BY SimplifiedType DEF CtlVirgin, CtlRef
  <2>. HIDE DEF s1
  <2>. QED  BY <1>1, <2>1, FewBitsVirgin, FewBitsRef DEF VirginMaps
<1>3. RefOK(s2) /\ VirginOK(s2)
  <2>. HIDE DEF c
  <2>. QED  BY <1>2, CounterRef, UpdateVirgin DEF RefOK
<1>4. VirginOK(SaveHang(s2))
  <2>. HIDE DEF s2
  <2>. QED  BY <1>3, UpdateVirgin DEF SaveHang, RefOK
<1>5. \A nf \in Faults, nt \in Traces, stop \in BOOLEAN :
        \A x \in Rerun(s2, h, nf, nt, stop) : VirginOK(x)
  <2>. HIDE DEF s2
  <2>. QED  BY <1>3, RerunVirgin
<1>. QED  BY <1>1, <1>2, <1>4, <1>5 DEF HangBranch

(* The switch on the fault keeps VirginOK. *)
LEMMA SwitchFaultVirgin ==
    ASSUME NEW cr, CtlVirgin(cr), NEW fault \in Faults, NEW h \in HitCounts
    PROVE  \A x \in SwitchFault(cr, fault, h) : VirginOK(x)
<1>1. VirginOK(cr.st) /\ cr.st \in StateType
  BY DEF CtlVirgin, CtlRef, RefOK
<1>2. VirginOK([cr.st EXCEPT !.status = "fatal"])
  BY <1>1, UpdateVirgin
<1>. QED  BY <1>1, <1>2, CrashBranchVirgin, HangBranchVirgin DEF SwitchFault

(* One call of save_if_interesting keeps VirginOK. *)
LEMMA HandleVirgin ==
    ASSUME NEW s, RefOK(s), VirginOK(s), NEW len \in {0, 1}, NEW raw \in Traces,
           NEW h \in HitCounts, NEW fault \in Faults
    PROVE  \A x \in Handle(s, len, raw, h, fault) : VirginOK(x)
<1>. DEFINE cksum == IF FreqSchedule THEN Hash(raw) ELSE 0
            s1 == PathFrequency(s, cksum)
<1>1. cksum \in Nat
  BY ConstantsAssumption
<1>2. RefOK(s1) /\ VirginOK(s1)
  BY <1>1, PathFrequencyRef, UpdateVirgin DEF RefOK
<1>3. CtlVirgin(Continue(s1, raw, FALSE))
  <2>1. Continue(s1, raw, FALSE) \in CtlType
    BY <1>2, ConstantsAssumption, Zenon DEF Continue, CtlType, RefOK
  <2>. QED  BY <1>2, <2>1 DEF CtlVirgin, CtlRef, Continue
<1>4. \A cr \in MainBranch(s1, raw, h, cksum) : CtlVirgin(cr)
  <2>. HIDE DEF s1
  <2>. QED  BY <1>1, <1>2, MainBranchRef, MainBranchVirgin DEF CtlVirgin
<1>5. \A cr : CtlVirgin(cr) =>
        \A x \in (IF cr.done THEN {cr.st} ELSE SwitchFault(cr, fault, h)) : VirginOK(x)
  BY SwitchFaultVirgin DEF CtlVirgin
<1>. DEFINE main == IF fault = CrashMode THEN MainBranch(s1, raw, h, cksum)
                    ELSE {Continue(s1, raw, FALSE)}
<1>6. \A cr \in main : CtlVirgin(cr)
  BY <1>3, <1>4
<1>7. CASE len = 0
  BY <1>7 DEF Handle
<1>8. CASE len = 1
  <2>1. Handle(s, len, raw, h, fault) =
          UNION {IF cr.done THEN {cr.st} ELSE SwitchFault(cr, fault, h) : cr \in main}
    BY <1>8 DEF Handle
  <2>. HIDE DEF main
  <2>. QED  BY <1>5, <1>6, <2>1
<1>. QED  BY <1>7, <1>8

-----------------------------------------------------------------------------
(* VInv holds initially: bitmap_changed is set and every map is fresh. *)
LEMMA InitVInv == Init => VInv
<1> SUFFICES ASSUME Init PROVE VInv
  OBVIOUS
<1>1. IInv
  BY InitIInv
<1>2. State.virgin = [m \in VirginMaps |-> FreshMap] /\ State.bitmap_changed
  BY DEF Init, State
<1>3. \A m \in VirginMaps, k \in Edges : Cardinality(State.virgin[m][k]) <= 1
  BY <1>2, AtMostOneBit DEF FreshMap
<1>4. SingleReferenceRec(State)
  BY <1>2, <1>3 DEF SingleReferenceRec, Touched, FreshMap
<1>. QED  BY <1>1, <1>2, <1>4 DEF VInv, VirginOK, PersistedRec, FreshWhileUnseeded

(* Every step keeps VInv.  save_if_interesting by HandleVirgin; write_bitmap *)
(* makes the file equal to virgin_bits as it clears the flag.              *)
LEMMA NextVInv == VInv /\ [Next]_vars => VInv'
<1> SUFFICES ASSUME VInv, [Next]_vars PROVE VInv'
  OBVIOUS
<1>1. IInv'
  BY NextIInv DEF VInv
<1>2. RefOK(State) /\ VirginOK(State)
  BY DEF VInv, IInv
<1>3. CASE SaveIfInteresting
  <2>1. PICK len \in {0, 1}, raw \in Traces, h \in HitCounts, fault \in Faults :
          \E s \in Handle(State, len, raw, h, fault) : Store([s EXCEPT !.runs = runs + 1])
    BY <1>3 DEF SaveIfInteresting
  <2>2. PICK s \in Handle(State, len, raw, h, fault) : Store([s EXCEPT !.runs = runs + 1])
    BY <2>1
  <2>3. VirginOK(s) /\ s \in StateType
    BY <1>2, HandleVirgin, HandleRef DEF RefOK
  <2>. DEFINE r == [s EXCEPT !.runs = runs + 1]
  <2>4. VirginOK(r)
    BY <2>3, UpdateVirgin
  <2>5. /\ State'.virgin = r.virgin
        /\ State'.bitmap_changed = r.bitmap_changed
        /\ State'.fuzz_bitmap = r.fuzz_bitmap
        /\ State'.global_min_hit_count = r.global_min_hit_count
    <3>1. Store(r)
      BY <2>2
    <3>. HIDE DEF r
    <3>. QED  BY <3>1 DEF Store, State
  <2>. HIDE DEF r
  <2>. QED  BY <1>1, <2>4, <2>5, FrameVirgin DEF VInv
<1>4. CASE WriteBitmap
  <2>1. /\ State'.virgin = State.virgin
        /\ State'.global_min_hit_count = State.global_min_hit_count
        /\ State'.fuzz_bitmap = State.virgin[VIRGIN_BITS]
    BY <1>4 DEF WriteBitmap, State
  <2>. QED  BY <1>1, <1>2, <2>1
            DEF VInv, VirginOK, PersistedRec, FreshWhileUnseeded, SingleReferenceRec
<1>5. CASE HandleStopSig \/ UNCHANGED vars
  <2>1. /\ State'.virgin = State.virgin
        /\ State'.bitmap_changed = State.bitmap_changed
        /\ State'.fuzz_bitmap = State.fuzz_bitmap
        /\ State'.global_min_hit_count = State.global_min_hit_count
    BY <1>5 DEF HandleStopSig, vars, State
  <2>. QED  BY <1>1, <1>2, <2>1, FrameVirgin DEF VInv
<1>. QED  BY <1>3, <1>4, <1>5 DEF Next

(* write_bitmap never leaves <out_dir>/fuzz_bitmap stale behind a clear    *)
(* bitmap_changed: every change has_few_bits makes to virgin_bits, on the  *)
(* seeding path or by forgetting a vanished edge, raises the flag, for     *)
(* every map size, word size, set of traces and mode of the fuzzer.        *)
THEOREM PersistedUnlessChangedHolds == Spec => []PersistedUnlessChanged
<1>1. VInv => PersistedUnlessChanged
  BY DEF VInv, VirginOK, PersistedRec, PersistedUnlessChanged, State
<1>. QED  BY <1>1, InitVInv, NextVInv, PTL DEF Spec

(* has_few_bits seeds the reference once, into one virgin map, with one   *)
(* cleared bucket bit per byte: whichever of virgin_bits, virgin_tmout and *)
(* virgin_crash the first classification used, the other two stay all      *)
(* 0xff, for every instance of the constants.                              *)
THEOREM SingleReferenceHolds == Spec => []SingleReference
<1>1. VInv => SingleReference
  BY DEF VInv, VirginOK, SingleReferenceRec, SingleReference, State
<1>. QED  BY <1>1, InitVInv, NextVInv, PTL DEF Spec
=============================================================================
