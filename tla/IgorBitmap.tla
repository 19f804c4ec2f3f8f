----------------------------- MODULE IgorBitmap -----------------------------
(***************************************************************************)
(* The coverage-reduction core of IgorFuzz (src/IgorFuzz/src/             *)
(* afl-fuzz-bitmap.c): the reduction classifier has_few_bits, run against  *)
(* one of the three virgin maps, and the admission controller              *)
(* save_if_interesting that calls it once per target execution, together  *)
(* with write_bitmap, which persists virgin_bits.                          *)
(*                                                                         *)
(* Data abstraction.  A virgin byte is represented by the set of its       *)
(* CLEARED bits: the byte value is 255 minus the sum of the set, {} is     *)
(* 0xff ("never touched").  Every bucketed or simplified trace byte is 0   *)
(* or a single bit (checked in MCBucketizer), so the byte tests of the     *)
(* code become set tests: vir[k] != 0xff is v[k] # {}, and                 *)
(* (vir[k] & cur[k]) != 0 is cur[k] # 0 /\ cur[k] \notin v[k].             *)
(*                                                                         *)
(* Control abstraction.  The fuzzer is single-threaded: one call of        *)
(* save_if_interesting, with the calibration run and the hang re-run it    *)
(* makes, is one atomic step.  The handler is written as a function from   *)
(* the current state (a record of all variables) to the set of states it  *)
(* can end in; the environment's answers (calibration, re-run, random      *)
(* draw) are the nondeterminism of that set.                               *)
(***************************************************************************)
EXTENDS Naturals, Sequences, FiniteSets, Bucketizer

CONSTANTS
    MapSize,             \* afl->fsrv.map_size
    WordBytes,           \* 8 bytes per word with WORD_SIZE_64, 4 without
    Traces,              \* raw trace_bits a target execution can leave
    HitCounts,           \* values the caller leaves in cur_hit_count
    UINT64_MAX,          \* the "uninitialised" value of global_min_hit_count
    CrashMode,           \* afl->crash_mode (FSRV_RUN_CRASH under -C)
    KEEP_UNIQUE_HANG,
    KEEP_UNIQUE_CRASH,
    NonInstrumentedMode, \* afl->non_instrumented_mode
    HangRerun,           \* afl->fsrv.exec_tmout < afl->hang_tmout
    FreqSchedule,        \* FAST <= afl->schedule <= RARE
    N_FUZZ_SIZE,
    N_FUZZ_MAX,          \* the saturation value 0xFFFFFFFF of an n_fuzz slot
    Hash(_),             \* hash64(trace, map_size, HASH_CONST)
    MaxRuns,             \* bound: calls of save_if_interesting explored
    NULL,                \* model value: a pointer not yet set
    NoFile               \* model value: fuzz_bitmap not yet written

(* fsrv_run_result_t *)
FSRV_RUN_OK    == "FSRV_RUN_OK"
FSRV_RUN_TMOUT == "FSRV_RUN_TMOUT"
FSRV_RUN_CRASH == "FSRV_RUN_CRASH"
FSRV_RUN_ERROR == "FSRV_RUN_ERROR"
Faults == {FSRV_RUN_OK, FSRV_RUN_TMOUT, FSRV_RUN_CRASH, FSRV_RUN_ERROR}

(* The three virgin maps of afl_state_t. *)
VIRGIN_BITS  == "virgin_bits"
VIRGIN_TMOUT == "virgin_tmout"
VIRGIN_CRASH == "virgin_crash"
VirginMaps == {VIRGIN_BITS, VIRGIN_TMOUT, VIRGIN_CRASH}

(* How the process ends: still running, FATAL/PFATAL, or SIGFPE. *)
Statuses == {"running", "fatal", "sigfpe"}

Edges == 0..(MapSize - 1)
Words == 0..((MapSize \div WordBytes) - 1)
WordOf(k) == k \div WordBytes

ASSUME ConstantsAssumption ==
    /\ WordBytes \in {4, 8}
    /\ MapSize \in Nat \ {0}
    /\ MapSize % WordBytes = 0
    /\ Traces \subseteq [Edges -> Bytes]
    /\ Traces # {}
    /\ UINT64_MAX \in Nat \ {0}
    /\ HitCounts \subseteq 0..(UINT64_MAX - 1)
    /\ HitCounts # {}
    /\ CrashMode \in {FSRV_RUN_OK, FSRV_RUN_CRASH}
    /\ KEEP_UNIQUE_HANG \in Nat
    /\ KEEP_UNIQUE_CRASH \in Nat
    /\ NonInstrumentedMode \in BOOLEAN
    /\ HangRerun \in BOOLEAN
    /\ FreqSchedule \in BOOLEAN
    /\ N_FUZZ_SIZE \in Nat \ {0}
    /\ N_FUZZ_MAX \in Nat \ {0}
    /\ \A t \in Traces : Hash(t) \in Nat /\ Hash(ClassifyCounts(t)) \in Nat
    /\ MaxRuns \in Nat

VirginMap == [Edges -> SUBSET BucketBits]
FreshMap == [k \in Edges |-> {}]
BucketTrace == [Edges -> {0} \cup BucketBits]

QueueEntry ==
    [trace : BucketTrace, hits : HitCounts, code : 1..7,
     has_new_cov : BOOLEAN, exec_cksum : Nat, n_fuzz_entry : 0..(N_FUZZ_SIZE - 1)]

Bit(b) == IF b THEN 1 ELSE 0

VARIABLES
    virgin,                 \* afl->virgin_bits, virgin_tmout, virgin_crash
    total_min_bitmap_size,  \* afl->total_min_bitmap_size
    global_min_hit_count,
    bitmap_changed,         \* afl->bitmap_changed
    fuzz_bitmap,            \* contents of <out_dir>/fuzz_bitmap
    trace_mini_ori,
    original_virgin_bits,
    queue,                  \* entries add_to_queue received from here
    n_fuzz,                 \* afl->n_fuzz
    total_tmouts, unique_tmouts, unique_hangs,
    total_crashes, unique_crashes,
    crash_readme,           \* crashes/README.txt written
    status,
    stop_soon,              \* afl->stop_soon
    runs                    \* calls of save_if_interesting so far

vars == <<virgin, total_min_bitmap_size, global_min_hit_count, bitmap_changed,
          fuzz_bitmap, trace_mini_ori, original_virgin_bits, queue, n_fuzz,
          total_tmouts, unique_tmouts, unique_hangs, total_crashes,
          unique_crashes, crash_readme, status, stop_soon, runs>>

State ==
    [virgin |-> virgin, total_min_bitmap_size |-> total_min_bitmap_size,
     global_min_hit_count |-> global_min_hit_count,
     bitmap_changed |-> bitmap_changed, fuzz_bitmap |-> fuzz_bitmap,
     trace_mini_ori |-> trace_mini_ori,
     original_virgin_bits |-> original_virgin_bits, queue |-> queue,
     n_fuzz |-> n_fuzz, total_tmouts |-> total_tmouts,
     unique_tmouts |-> unique_tmouts, unique_hangs |-> unique_hangs,
     total_crashes |-> total_crashes, unique_crashes |-> unique_crashes,
     crash_readme |-> crash_readme, status |-> status,
     stop_soon |-> stop_soon, runs |-> runs]

Store(s) ==
    /\ virgin' = s.virgin
    /\ total_min_bitmap_size' = s.total_min_bitmap_size
    /\ global_min_hit_count' = s.global_min_hit_count
    /\ bitmap_changed' = s.bitmap_changed
    /\ fuzz_bitmap' = s.fuzz_bitmap
    /\ trace_mini_ori' = s.trace_mini_ori
    /\ original_virgin_bits' = s.original_virgin_bits
    /\ queue' = s.queue
    /\ n_fuzz' = s.n_fuzz
    /\ total_tmouts' = s.total_tmouts
    /\ unique_tmouts' = s.unique_tmouts
    /\ unique_hangs' = s.unique_hangs
    /\ total_crashes' = s.total_crashes
    /\ unique_crashes' = s.unique_crashes
    /\ crash_readme' = s.crash_readme
    /\ status' = s.status
    /\ stop_soon' = s.stop_soon
    /\ runs' = s.runs

-----------------------------------------------------------------------------
(***************************************************************************)
(* has_few_bits                                                            *)
(***************************************************************************)

(* vir[k] != 0xff: the edge is touched in the virgin map. *)
Touched(v, k) == v[k] # {}

(* Byte k of ( *virgin & *current) is non-zero. *)
Disagrees(t, v, k) == t[k] # 0 /\ t[k] \notin v[k]

(* Mutant: the test with || for && (re-initialises while either holds). *)
ReferenceUninitializedEither(tmin, gmin) == tmin = 0 \/ gmin = UINT64_MAX

(* The lazy-initialisation test: both scalars still hold their sentinels. *)
ReferenceUninitialized(tmin, gmin) == tmin = 0 /\ gmin = UINT64_MAX

(* The code the discover_word walk leaves in ret: 2 if a hit byte is still *)
(* 0xff in the virgin map, 1 if only a bucket is new, 0 otherwise.         *)
DiscoverCode(t, v) ==
    IF \E k \in Edges : t[k] # 0 /\ v[k] = {} THEN 2
    ELSE IF \E k \in Edges : Disagrees(t, v, k) THEN 1
    ELSE 0

(* *virgin &= ~*current on every word. *)
DiscoverVirgin(t, v) == [k \in Edges |-> IF t[k] = 0 THEN v[k] ELSE v[k] \cup {t[k]}]

(* Mutant: the initialisation path never raises bitmap_changed. *)
InitBitmapChangedNever(ret, m) == FALSE

(* The initialisation path marks the bitmap changed only for virgin_bits. *)
InitBitmapChanged(ret, m) == ret # 0 /\ m = VIRGIN_BITS

(* Mutant: an equal bitmap size counts as a decrease. *)
BmsDecreaseLe(size, tmin) == tmin # 0 /\ size <= tmin

(* STEP 1: a strictly smaller bitmap, once total_min_bitmap_size is set. *)
BmsDecrease(size, tmin) == tmin # 0 /\ size < tmin

(* The words the STEP 2 loop looks into: *virgin + 1 != 0 (some byte      *)
(* touched) and ( *virgin & *current) != 0 (some byte disagrees).  The     *)
(* iterations are independent, so the loop is the set of its words.       *)
InspectedWords(t, v) ==
    {w \in Words :
        /\ \E k \in Edges : WordOf(k) = w /\ Touched(v, k)
        /\ \E k \in Edges : WordOf(k) = w /\ Disagrees(t, v, k)}

(* Touched bytes of inspected words that the trace no longer hits; each   *)
(* is reset to 0xff and sets cov_decrease.                                *)
Vanished(t, v) ==
    {k \in Edges : /\ WordOf(k) \in InspectedWords(t, v)
                   /\ Touched(v, k)
                   /\ t[k] = 0}

(* The hit-count test, reached only inside an inspected word. *)
HcnDecrease(t, v, h, gmin) == InspectedWords(t, v) # {} /\ h < gmin

(* has_few_bits(afl, virgin[m]) on trace t with cur_hit_count h, from      *)
(* state s: the returned code and the state after the call.               *)
FewBits(s, m, t, h) ==
    LET v == s.virgin[m] IN
    IF ReferenceUninitialized(s.total_min_bitmap_size, s.global_min_hit_count)
    THEN LET ret == DiscoverCode(t, v) IN
         [ret |-> ret,
          st  |-> [s EXCEPT !.total_min_bitmap_size = CountBytes(t),
                            !.global_min_hit_count = h,
                            !.virgin[m] = DiscoverVirgin(t, v),
                            !.bitmap_changed = @ \/ InitBitmapChanged(ret, m),
                            !.original_virgin_bits = VIRGIN_BITS,
                            !.trace_mini_ori = MinimizeBits(t)]]
    ELSE LET bms  == BmsDecrease(CountBytes(t), s.total_min_bitmap_size)
             gone == Vanished(t, v)
             hcn  == HcnDecrease(t, v, h, s.global_min_hit_count)
         IN [ret |-> 4 * Bit(bms) + 2 * Bit(gone # {}) + Bit(hcn),
             st  |-> [s EXCEPT
                        !.total_min_bitmap_size = IF bms THEN CountBytes(t) ELSE @,
                        !.global_min_hit_count = IF hcn THEN h ELSE @,
                        !.virgin[m] = [k \in Edges |-> IF k \in gone THEN {} ELSE v[k]],
                        !.bitmap_changed = @ \/ gone # {}]]

-----------------------------------------------------------------------------
(***************************************************************************)
(* save_if_interesting                                                     *)
(*                                                                         *)
(* A control record cr carries the state cr.st, whether the handler has   *)
(* returned (cr.done), the current contents of trace_bits (cr.trace) and  *)
(* the local flag classified.                                             *)
(***************************************************************************)

Continue(s, t, cl) == [st |-> s, done |-> FALSE, trace |-> t, classified |-> cl]
Return(s) == [st |-> s, done |-> TRUE, trace |-> [k \in Edges |-> 0], classified |-> FALSE]

(* The near-miss rule for code 1: keep when cur_hit_count is below the    *)
(* minimum, else drop when cur - min > R(min / 2).  R(x) is random() % x; *)
(* for x = 0 the build either traps (SIGFPE) or yields some value.        *)
NearMiss(ret, h, g) ==
    IF ret # 1 \/ h < g THEN {"keep"}
    ELSE IF g \div 2 = 0
         THEN {"sigfpe"} \cup {IF h - g > r THEN "drop" ELSE "keep" : r \in 0..h}
         ELSE {IF h - g > r THEN "drop" ELSE "keep" : r \in 0..((g \div 2) - 1)}

(* The queue entry add_to_queue creates, with the checksum stored on it.  *)
NewEntry(t, h, ret, cksum) ==
    LET ck == IF cksum # 0 THEN cksum ELSE Hash(t) IN
    [trace |-> t, hits |-> h, code |-> ret, has_new_cov |-> ret = 2,
     exec_cksum |-> ck,
     n_fuzz_entry |-> IF FreqSchedule THEN ck % N_FUZZ_SIZE ELSE 0]

(* Appending the entry, and resetting its n_fuzz slot under FAST..RARE.   *)
AddToQueue(s, e) ==
    [s EXCEPT !.queue = Append(@, e),
              !.n_fuzz = IF FreqSchedule THEN [@ EXCEPT ![e.n_fuzz_entry] = 1] ELSE @]

(* Mutant: the main branch without its early return on a zero code. *)
MainBranchNoEarlyReturn(s, raw, h, cksum) ==
    LET t == ClassifyCounts(raw)
        c == FewBits(s, VIRGIN_BITS, t, h)
    IN UNION {
         CASE o = "drop"   -> {Return(c.st)}
           [] o = "sigfpe" -> {Return([c.st EXCEPT !.status = "sigfpe"])}
           [] o = "keep"   ->
              LET s1 == AddToQueue(c.st, NewEntry(t, h, c.ret, cksum)) IN
              {Return([s1 EXCEPT !.status = "fatal"])} \cup
              {Continue(s1, ct, TRUE) : ct \in Traces}
         : o \in NearMiss(c.ret, h, c.st.global_min_hit_count)}

(* The fault == crash_mode branch: classify, classify against virgin_bits, *)
(* apply the near-miss rule, queue the input and calibrate it inline.     *)
MainBranch(s, raw, h, cksum) ==
    LET t == ClassifyCounts(raw)
        c == FewBits(s, VIRGIN_BITS, t, h)
    IN IF c.ret = 0 THEN {Return(c.st)}
       ELSE UNION {
         CASE o = "drop"   -> {Return(c.st)}
           [] o = "sigfpe" -> {Return([c.st EXCEPT !.status = "sigfpe"])}
           [] o = "keep"   ->
              LET s1 == AddToQueue(c.st, NewEntry(t, h, c.ret, cksum)) IN
              \* calibrate_case re-runs the target: it fails, or leaves
              \* its own trace in trace_bits.
              {Return([s1 EXCEPT !.status = "fatal"])} \cup
              {Continue(s1, ct, TRUE) : ct \in Traces}
         : o \in NearMiss(c.ret, h, c.st.global_min_hit_count)}

(* The trace the hang and crash branches classify: trace_bits, classified *)
(* first unless the caller already did, then simplified.                  *)
Simplified(cr) ==
    SimplifyTrace(IF cr.classified THEN cr.trace ELSE ClassifyCounts(cr.trace))

(* The FSRV_RUN_CRASH case (label keep_as_crash). *)
CrashBranch(cr, h) ==
    LET s1 == [cr.st EXCEPT !.total_crashes = @ + 1] IN
    IF s1.unique_crashes >= KEEP_UNIQUE_CRASH THEN {s1}
    ELSE LET c == IF NonInstrumentedMode THEN [ret |-> 1, st |-> s1]
                  ELSE FewBits(s1, VIRGIN_CRASH, Simplified(cr), h)
         IN IF c.ret = 0 THEN {c.st}
            ELSE {[c.st EXCEPT !.crash_readme = TRUE,
                               !.unique_crashes = @ + 1]}

(* Saving under hangs/. *)
SaveHang(s) == [s EXCEPT !.unique_hangs = @ + 1]

(* The re-run with hang_tmout: its fault, its trace, and whether the stop *)
(* signal arrived during it.                                              *)
Rerun(s, h, nf, nt, stop) ==
    LET s1 == [s EXCEPT !.stop_soon = stop] IN
    IF ~stop /\ nf = FSRV_RUN_CRASH
    THEN CrashBranch(Continue(s1, ClassifyCounts(nt), TRUE), h)
    ELSE IF stop \/ nf # FSRV_RUN_TMOUT THEN {s1}
    ELSE {SaveHang(s1)}

(* The FSRV_RUN_TMOUT case. *)
HangBranch(cr, h) ==
    LET s1 == [cr.st EXCEPT !.total_tmouts = @ + 1] IN
    IF s1.unique_hangs >= KEEP_UNIQUE_HANG THEN {s1}
    ELSE LET c == IF NonInstrumentedMode THEN [ret |-> 1, st |-> s1]
                  ELSE FewBits(s1, VIRGIN_TMOUT, Simplified(cr), h)
             s2 == [c.st EXCEPT !.unique_tmouts = @ + 1]
         IN IF c.ret = 0 THEN {c.st}
            ELSE IF ~HangRerun THEN {SaveHang(s2)}
            ELSE UNION {Rerun(s2, h, nf, nt, stop) :
                          nf \in Faults, nt \in Traces, stop \in BOOLEAN}

(* The switch on fault. *)
SwitchFault(cr, fault, h) ==
    CASE fault = FSRV_RUN_TMOUT -> HangBranch(cr, h)
      [] fault = FSRV_RUN_CRASH -> CrashBranch(cr, h)
      [] fault = FSRV_RUN_ERROR -> {[cr.st EXCEPT !.status = "fatal"]}
      [] OTHER                  -> {cr.st}

(* Mutant: the n_fuzz increment without its saturation test. *)
PathFrequencyNoSat(s, cksum) ==
    IF FreqSchedule THEN [s EXCEPT !.n_fuzz[cksum % N_FUZZ_SIZE] = @ + 1] ELSE s

(* The path-frequency update under FAST..RARE: a saturating increment of   *)
(* the n_fuzz slot of the raw trace's hash.                                *)
PathFrequency(s, cksum) ==
    IF FreqSchedule
    THEN [s EXCEPT !.n_fuzz[cksum % N_FUZZ_SIZE] = IF @ < N_FUZZ_MAX THEN @ + 1 ELSE @]
    ELSE s

(* save_if_interesting(afl, mem, len, fault) with trace_bits = raw and     *)
(* cur_hit_count = h: the set of states it can end in.                     *)
Handle(s, len, raw, h, fault) ==
    IF len = 0 THEN {s}
    ELSE LET cksum == IF FreqSchedule THEN Hash(raw) ELSE 0
             s1 == PathFrequency(s, cksum)
             main == IF fault = CrashMode THEN MainBranch(s1, raw, h, cksum)
                     ELSE {Continue(s1, raw, FALSE)}
         IN UNION {IF cr.done THEN {cr.st} ELSE SwitchFault(cr, fault, h) : cr \in main}

-----------------------------------------------------------------------------
(***************************************************************************)
(* The actions                                                             *)
(***************************************************************************)

Init ==
    /\ virgin = [m \in VirginMaps |-> FreshMap]
    /\ total_min_bitmap_size = 0
    /\ global_min_hit_count = UINT64_MAX
    /\ bitmap_changed = TRUE
    /\ fuzz_bitmap = NoFile
    /\ trace_mini_ori = NULL
    /\ original_virgin_bits = NULL
    /\ queue = <<>>
    /\ n_fuzz = [i \in 0..(N_FUZZ_SIZE - 1) |-> 0]
    /\ total_tmouts = 0
    /\ unique_tmouts = 0
    /\ unique_hangs = 0
    /\ total_crashes = 0
    /\ unique_crashes = 0
    /\ crash_readme = FALSE
    /\ status = "running"
    /\ stop_soon = FALSE
    /\ runs = 0

(* One target execution handed to save_if_interesting; only whether the   *)
(* input is empty matters to the handler, hence len \in {0, 1}.           *)
SaveIfInteresting ==
    /\ status = "running"
    /\ ~stop_soon
    /\ runs < MaxRuns
    /\ \E len \in {0, 1}, raw \in Traces, h \in HitCounts, fault \in Faults :
         \E s \in Handle(State, len, raw, h, fault) :
            Store([s EXCEPT !.runs = runs + 1])

(* write_bitmap: nothing to do unless the bitmap changed. *)
WriteBitmap ==
    /\ status = "running"
    /\ bitmap_changed
    /\ bitmap_changed' = FALSE
    /\ fuzz_bitmap' = virgin[VIRGIN_BITS]
    /\ UNCHANGED <<virgin, total_min_bitmap_size, global_min_hit_count,
                   trace_mini_ori, original_virgin_bits, queue, n_fuzz,
                   total_tmouts, unique_tmouts, unique_hangs, total_crashes,
                   unique_crashes, crash_readme, status, stop_soon, runs>>

(* The SIGINT/SIGTERM handler sets stop_soon; the fuzzing loop then stops  *)
(* handing executions to save_if_interesting.                              *)
HandleStopSig ==
    /\ status = "running"
    /\ ~stop_soon
    /\ stop_soon' = TRUE
    /\ UNCHANGED <<virgin, total_min_bitmap_size, global_min_hit_count,
                   bitmap_changed, fuzz_bitmap, trace_mini_ori,
                   original_virgin_bits, queue, n_fuzz, total_tmouts,
                   unique_tmouts, unique_hangs, total_crashes,
                   unique_crashes, crash_readme, status, runs>>

Next == SaveIfInteresting \/ WriteBitmap \/ HandleStopSig

Spec == Init /\ [][Next]_vars

-----------------------------------------------------------------------------
(***************************************************************************)
(* Properties                                                              *)
(***************************************************************************)

HasBms(code) == code \in {4, 5, 6, 7}
HasCov(code) == code \in {2, 3, 6, 7}
HasHcn(code) == code \in {1, 3, 5, 7}

TypeOK ==
    /\ virgin \in [VirginMaps -> VirginMap]
    /\ total_min_bitmap_size \in 0..MapSize
    /\ global_min_hit_count \in HitCounts \cup {UINT64_MAX}
    /\ bitmap_changed \in BOOLEAN
    /\ fuzz_bitmap \in VirginMap \cup {NoFile}
    /\ trace_mini_ori \in (SUBSET Edges) \cup {NULL}
    /\ original_virgin_bits \in {NULL, VIRGIN_BITS}
    /\ queue \in Seq(QueueEntry)
    /\ n_fuzz \in [0..(N_FUZZ_SIZE - 1) -> 0..N_FUZZ_MAX]
    /\ {total_tmouts, unique_tmouts, unique_hangs,
        total_crashes, unique_crashes} \subseteq Nat
    /\ crash_readme \in BOOLEAN
    /\ status \in Statuses
    /\ stop_soon \in BOOLEAN
    /\ runs \in 0..MaxRuns

(* The -bms tag is truthful: every queue entry tagged bms hit strictly     *)
(* fewer edges than every entry queued before it.  total_min_bitmap_size   *)
(* is shared by the classifications against all three virgin maps and is   *)
(* set by whichever call initialises the reference.                        *)
BmsTagTruthful ==
    \A j \in 1..Len(queue) : HasBms(queue[j].code) =>
        \A i \in 1..(j - 1) :
            CountBytes(queue[j].trace) < CountBytes(queue[i].trace)

(* <out_dir>/fuzz_bitmap is never stale while bitmap_changed is clear:     *)
(* every change to virgin_bits by has_few_bits (seeding it, forgetting an  *)
(* edge) raises the flag that write_bitmap clears.                         *)
PersistedUnlessChanged ==
    ~bitmap_changed => fuzz_bitmap = virgin[VIRGIN_BITS]

(* The reference is seeded once: at most one virgin map has a touched      *)
(* byte, and each touched byte has exactly one cleared bucket bit, the     *)
(* bucket of the trace that initialised the reference.  has_few_bits never *)
(* clears bits after its lazy initialisation, it only resets bytes.        *)
SingleReference ==
    /\ \A m1, m2 \in VirginMaps :
          (\E k \in Edges : Touched(virgin[m1], k)) /\
          (\E k \in Edges : Touched(virgin[m2], k)) => m1 = m2
    /\ \A m \in VirginMaps, k \in Edges : Cardinality(virgin[m][k]) <= 1

(* spec.md section 8, property 6: when has_few_bits reports a coverage    *)
(* decrease against virgin_bits, every touched virgin byte whose edge the *)
(* queued trace does not hit has been reset to 0xff.                      *)
ForgetsEveryVanishedEdge ==
    [][Len(queue') = Len(queue) + 1 /\ HasCov(queue'[Len(queue')].code) =>
         \A k \in Edges :
            Touched(virgin[VIRGIN_BITS], k) /\ queue'[Len(queue')].trace[k] = 0
               => ~Touched(virgin'[VIRGIN_BITS], k)]_vars

(* spec.md sections 4.5 and 7: a crash is discarded only as a duplicate of *)
(* a crash already kept, so once a crash has reached the crash branch of   *)
(* save_if_interesting, crashes/ holds at least one input.                 *)
FirstCrashKept ==
    total_crashes > 0 => unique_crashes > 0

(* The near-miss draw R(global_min_hit_count / 2) of save_if_interesting   *)
(* is never made on an empty range (random() % 0).                         *)
NoModuloByZero == status # "sigfpe"

(* spec.md section 5: no partial admission state persists.  A step of     *)
(* save_if_interesting that lowers or initialises the shared reference     *)
(* scalars saves the input that did it (queue, hangs/ or crashes/).        *)
NoPartialAdmission ==
    [][(\/ total_min_bitmap_size' # total_min_bitmap_size
        \/ global_min_hit_count' # global_min_hit_count)
       => \/ Len(queue') > Len(queue)
          \/ unique_hangs' > unique_hangs
          \/ unique_crashes' > unique_crashes]_vars

-----------------------------------------------------------------------------
(***************************************************************************)
(* Refinement: the two reference scalars of has_few_bits behave as the    *)
(* abstract reference of AbstractReference -- seeded from their sentinels  *)
(* by the first classification, never re-seeded, and only lowered after.  *)
(***************************************************************************)
Reference == INSTANCE AbstractReference
                 WITH tmin <- total_min_bitmap_size,
                      gmin <- global_min_hit_count

(* total_min_bitmap_size and global_min_hit_count, as updated by           *)
(* has_few_bits in every call of save_if_interesting (the main branch and  *)
(* the crash/hang branch of one call included), implement the abstract     *)
(* reference: no call raises either scalar once the reference is seeded.   *)
RefinesReference == Reference!Spec

=============================================================================
