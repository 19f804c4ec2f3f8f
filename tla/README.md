# TLA+ models of the Igor reduction core

This directory holds TLA+ specifications of the crash-reduction core of
IgorFuzz (`src/IgorFuzz/src/afl-fuzz-bitmap.c`). It also holds the TLC
configurations that model-check them, and TLAPS proofs of the type
invariant, the `-bms` tag invariant, and a refinement of the reference
scalars to an abstract specification. The call-tracing Pin tool
(`src/smart_tracer/pintool/calltrace.cpp`), a separate process that records
caller addresses, is modelled too, with TLAPS proofs that, for any number of
threads, its line count equals the number of recorded calls and only calls
that pass the block lists are recorded.

## The system

IgorFuzz is AFL++ turned around. It starts from a crashing input and keeps
mutants that make the execution *smaller*. After each target execution, the
fuzzer's main loop calls `save_if_interesting(afl, mem, len, fault)` once.
Everything below runs single-threaded and synchronously inside that call.

| part | code | role |
|---|---|---|
| Bucketizer | `count_class_lookup8`, `init_count_class16`, `simplify_lookup` (lines 150–209); `classify_counts` and `simplify_trace` are in `coverage-64.h`, which is not under src/ | Folds raw per-edge hit counts into buckets. Crash and hang traces are also *simplified* to 1 (not hit) or 128 (hit). |
| Bitmap statistics | `count_bytes`, `minimize_bits` (99–119, 481–492) | Bitmap size (hit edges) and the one-bit-per-edge copy. |
| Virgin reference | globals (32–37), lazy-init path of `has_few_bits` (329–361) | The three virgin maps `virgin_bits`, `virgin_tmout` and `virgin_crash`, plus the shared scalars `total_min_bitmap_size` and `global_min_hit_count`. |
| Reduction classifier | `has_few_bits` (306–474) | Returns `4*bms + 2*cov + hcn`. It resets virgin bytes of vanished edges to 0xff, and lowers the two scalars. |
| Admission controller | `save_if_interesting` (663–1013) | Path frequency, then the main branch when `fault == crash_mode`, then the switch on `fault` (timeout, crash, error). |
| Persistence | `write_bitmap` (43–60) | Writes `virgin_bits` to `fuzz_bitmap` when `bitmap_changed` is set. |
| Description | `describe_op` (499–600) | The queue file name. Its `-bms/-cov/-hcn` suffix encodes the code. |
| Call tracer | `calltrace.cpp` | An Intel Pin tool, in a separate process, that writes caller addresses to `calltrace_addr.out`. |

How the parts interact:

- `save_if_interesting` classifies `trace_bits` and calls `has_few_bits`.
  In the main branch it calls it against `virgin_bits`. In the timeout and
  crash branches it first simplifies the trace, then calls it against
  `virgin_tmout` or `virgin_crash`.
- All three calls share the two scalars. The first call to find them at
  their sentinels (`0` and `UINT64_MAX`) seeds *its own* virgin map only.
- An admitted input is queued and calibrated (`calibrate_case` re-runs the
  target and overwrites `trace_bits`).
- A timeout may be re-run with the longer hang timeout, and promoted to the
  crash branch (`goto keep_as_crash`).
- `write_bitmap` is called from the main loop, which is outside src/.

## Modules

**`Bucketizer.tla`** holds the constant tables and pure functions over a
trace, which is a function `Edges -> 0..255`:

- `count_class_lookup8`: the table the designated initialisers really
  produce (see finding 1);
- `simplify_lookup`;
- `ClassifyCounts`: the byte view of the 16-bit table that
  `init_count_class16` builds from the 8-bit one;
- `SimplifyTrace`, `CountBytes`, `MinimizeBits`;
- `DescribeTag`: the suffix part of `describe_op`.

**`MCBucketizer.tla`** walks a variable `x` over 0..255, so that each
property of the tables is checked on every byte value.

**`IgorBitmap.tla`** is the core. Its state is:

- `virgin`: the three maps, indexed by `VIRGIN_BITS`, `VIRGIN_TMOUT` and
  `VIRGIN_CRASH`;
- the two shared scalars;
- `trace_mini_ori`, `original_virgin_bits`, `bitmap_changed`;
- `fuzz_bitmap` (the file contents);
- `queue`: the entries `add_to_queue` received, with trace, hit count,
  code, `has_new_cov`, `exec_cksum` and `n_fuzz_entry`;
- `n_fuzz`;
- the hang and crash counters, and `crash_readme`;
- `stop_soon`;
- `status`: running, FATAL, or SIGFPE;
- `runs`: a bound.

*Data abstraction.* A virgin byte is the **set of its cleared bucket bits**:
`{}` is 0xff. `MCBucketizer` checks that every bucketed and simplified byte
is 0 or a single bit, so the code's byte tests become set tests:

- `vir != 0xff` becomes `Touched`;
- `(vir & cur) != 0` becomes `Disagrees`.

The word grouping of the STEP 2 loop is kept (`WordBytes`, with 4 or 8),
because it decides which edges are looked at.

*Control.* One call of `save_if_interesting` is one atomic step
(`SaveIfInteresting`). The fuzzer is single-threaded, and spec §5 says that
classify→admit→persist→calibrate is atomic with respect to the reference.
`Handle(s, len, raw, h, fault)` is the handler as a function from the state
record to the set of states it can end in. Each branch of the code is an
operator:

- `PathFrequency` is lines 676–688.
- `MainBranch` is lines 690–802. It covers the early return on code 0,
  `NearMiss` (704–712), `AddToQueue`/`NewEntry` (714–781), and calibration
  (786–792), which either FATALs or leaves a new trace in `trace_bits`.
- `SwitchFault` is lines 804–1001. `HangBranch` is 806–860, `Rerun` is
  862–885, `SaveHang` is 887–904 and `CrashBranch` is 906–993. The error
  case FATALs.
- Inside them, `FewBits(s, m, t, h)` is the whole of `has_few_bits`.

Three things are nondeterministic, because the code takes them from the
environment:

- the answers of calibration and of the hang re-run (fault, trace, and
  whether SIGINT arrived meanwhile);
- the random draw `R(x)`;
- `cur_hit_count`, which the caller sets (spec §6).

`R(0)` is `random() % 0`. On x86 it traps, but the C standard leaves it
undefined, so `NearMiss` allows both SIGFPE and any value.

The other actions:

- `WriteBitmap` (43–60).
- `HandleStopSig` sets `stop_soon`. Its handler is outside src/, so it is
  modelled from spec §5.

**`MCIgorBitmap.tla`** fixes the test traces. T1–T3 are the scenarios of
spec §8, T4 is a disjoint edge, and T5 is the empty trace. It also fixes a
small `Hash`.

**`AbstractReference.tla`** is what the core promises about its two
reference scalars (spec §3, §8 properties 1–2). They start at the sentinels
(0, `UINT64_MAX`). `Seed` may set them to any size and hit count, but only
while they are at the sentinels. `Lower` may only lower them after that. In
`IgorBitmap`, `Reference == INSTANCE AbstractReference WITH tmin <-
total_min_bitmap_size, gmin <- global_min_hit_count`, and the property
`RefinesReference == Reference!Spec` says that the detailed core implements
it. One call of `save_if_interesting` may run has_few_bits two or three
times (main branch, then the hang branch and its promotion to a crash), so
one detailed step can be a seeding followed by a lowering. It still maps to
one abstract `Seed`.

**`CallTrace.tla`** models the Pin tool. Its state is:

- `phase`: before `main`, running, or crashed in `main`;
- `gProgramName` and `gStartRecord`;
- `jitted`: the traces in Pin's code cache;
- `instrumented`: the cached traces whose tail call got a `do_call`;
- per thread, `pc` (the next trace it executes) and `writing` (the address
  is written but `endl` is not);
- `TraceFile`: the chunks written to `calltrace_addr.out`, each an address
  or a newline.

Its actions:

- `Main` (259–292): `findProgramNameIndex`, the index −1 read as 0, and the
  basename of `argv[programIndex]`. Index `argc` reads the NULL that ends
  argv, and the model moves to `crashed`.
- `Instrument(t)` (213–248): Pin compiles the trace thread `t` reached and
  calls `Trace`. Compilation is serialised by Pin, so the step is atomic.
  `checkEntry` may switch `gStartRecord` on. `do_call` is attached when
  recording is on, neither block list matches (`isBlockedFunction`,
  `IsBlockedModule`, with `split` as `Split`), and the tail is a call.
- `Execute(t)` and `WriteEndl(t)` (199–210) run a compiled trace. At an
  instrumented call, `do_call`'s two insertions `<< hexstr(addr)` and
  `<< endl` are two steps, because the ofstream is shared with no lock.

A trace is abstracted to one routine and one tail instruction. Names are
model values, and substring search (`upper(name).find(upper(item))`) is a
constant relation `Match`, except that the empty item is found in every
name, as `find("")` is.

**`MCCallTrace.tla`** sets up an instance. The target `/tmp/target` has
`main` and an ASan report routine. There are also a helper library, libc,
and the loader. The command line is `pinbin -t calltrace.so -- /tmp/target`
with `-blockFunc asan -blockModule libc`. The pass run's programs (`MCProgMany`) let two threads call from main;
plus the variants the violation runs need.

**`IgorBitmapProofs.tla`**, **`IgorBitmapRefinement.tla`**,
**`IgorBitmapVirgin.tla`**, **`BucketizerProofs.tla`** and
**`CallTraceProofs.tla`** hold the TLAPS proofs.

## Runs

Every IgorBitmap run uses the same instance:

- 8 edges, in two 4-byte words;
- traces T1–T5;
- `cur_hit_count` in {1, 2, 3}, and `UINT64_MAX` = 7;
- 2 `n_fuzz` slots, saturating at 2;
- `KEEP_UNIQUE_*` = 2;
- 3 calls of `save_if_interesting` (`MaxRuns`).

With three calls, the reference can be seeded, then lowered, then tested
against a third input, from any branch. With two words, a vanished edge can
sit in a word that the STEP 2 predicate skips. The hit counts reach the
sentinel boundary and both near-miss outcomes. Non-instrumented mode
(`-n`), in which has_few_bits is skipped and every input is admitted, is
not given a run of its own. The TLAPS theorems below cover it, because
they hold for both values of `NonInstrumentedMode`. Deadlock is not checked
(`CHECK_DEADLOCK FALSE`), because the model stops at `MaxRuns`, after a
FATAL, or after SIGINT, as the fuzzer really does.

| run | cfg | checks | result |
|---|---|---|---|
| bitmap_crash_mode | MCIgorBitmap.cfg (`-C`, hang re-run, FAST..RARE schedule) | TypeOK, BmsTagTruthful, PersistedUnlessChanged, SingleReference, RefinesReference | pass, 77,379 states |
| bitmap_default | MCIgorBitmapDefault.cfg (crash_mode OK, no re-run) | same | pass, 31,896 states |
| bucketizer | MCBucketizer.cfg | BucketIsSingleBit | pass, 256 states |
| bucket_hit_stays_hit | MCBucketizer_HitStaysHit.cfg | HitStaysHit | violation at 64 |
| forgets_vanished_edges | MCIgorBitmap_ForgetsEveryVanishedEdge.cfg | ForgetsEveryVanishedEdge | violation |
| first_crash_kept | MCIgorBitmap_FirstCrashKept.cfg | FirstCrashKept | violation |
| near_miss_modulo | MCIgorBitmap_NoModuloByZero.cfg | NoModuloByZero | violation |
| partial_admission | MCIgorBitmap_NoPartialAdmission.cfg | NoPartialAdmission | violation |
| calltrace | MCCallTrace.cfg (3 threads, two of them call from main) | LinesCountCalls, RecordedOnlyRecordable, RecordingEventuallyStarts | pass, 460 states |
| calltrace_lines_race | MCCallTrace_LinesWellFormed.cfg (2 threads calling from main) | LinesWellFormed | violation |
| calltrace_late_entry | MCCallTrace_CallsAfterEntryRecorded.cfg (a library constructor before and after main) | CallsAfterEntryRecorded | violation |
| calltrace_stray_comma | MCCallTrace_BlockOnlyNamed.cfg (`-blockFunc ,asan`) | BlockOnlyNamed | violation |

The CallTrace instance is small because each question needs only a few
traces. It has one trace per kind of routine: the target's own code, a
blocked function, a routine in a blocked module, a call-free loader
routine, and a helper library. Every filter decision of `call_trace`
happens in it, and the longest program (five traces) reaches entry,
blocked calls and a recorded call after them.

What the passing properties say:

- **BmsTagTruthful.** An entry tagged `-bms` hit strictly fewer edges than
  every earlier entry. This is not obvious, because the scalar is shared by
  all three virgin maps.
- **PersistedUnlessChanged.** While `bitmap_changed` is clear,
  `fuzz_bitmap` equals `virgin_bits`. Every change has_few_bits makes to
  `virgin_bits` raises the flag.
- **SingleReference.** At most one virgin map is ever seeded, and each
  seeded byte has one cleared bit, because has_few_bits never clears bits
  after initialisation.
- **RefinesReference.** The two scalars implement `AbstractReference`. No
  call, whichever branches it takes, raises them or re-seeds them once they
  are seeded. Finding 5 (a timeout seeding the size to the whole map) is a
  first seeding, so it is consistent with this property.
- **LinesCountCalls** (CallTrace). Two threads run do_call on the
  unlocked ofstream. However their insertions interleave, the number of
  addresses in `calltrace_addr.out` is the number of newlines plus the
  number of threads half-way through do_call. The line count the core
  reads as the hit count is therefore the number of recorded calls, even
  when the lines themselves are garbled (finding 6).
- **RecordedOnlyRecordable** (CallTrace). Every address in the file is the
  call site of a compiled trace whose routine passes both block lists.
  call_trace decides this once per trace, at compile time, and every
  thread then runs the cached decision.
- **RecordingEventuallyStarts** (CallTrace). Under the fairness below,
  `gStartRecord` is eventually set.

Each passing property has a mutant in PROJECT.json that TLC catches. The
mutants are: `<=` for `<` in STEP 1, the dropped `bitmap_changed` on the
init path, `||` for `&&` in the sentinel test, a dropped `n_fuzz`
saturation or code-0 early return, an off-by-one in the bucket table, a
reference test that treats either scalar at its sentinel as uninitialised,
a `do_call` that drops its `endl`, a `call_trace` without its
`isBlockedFunction` test, and
`findProgramNameIndex` returning the index of `--` itself.

### Findings (violation runs)

1. **The bucket table has gaps** (lines 171–183). `[32] = TIMES32(64)` fills
   only 32..63, and `[128] = TIMES64(128)` fills only 128..191, so counts
   64..127 and 192..255 bucket to 0. Spec §4.1 says they bucket to 64 and
   128. An edge hit 64 times is therefore "not hit", and has_few_bits counts
   it as a vanished edge.
2. **Vanished edges can be missed** (line 381). An edge is only forgotten in
   a word where some byte also disagrees with the virgin map, unlike §8
   property 6. This is spec open question 1 generalised to the vanish test.
3. **Crashes are never kept** after the reference was seeded from
   `virgin_bits` (line 928). `virgin_crash` stays all-0xff, so no word passes
   the STEP 2 predicate and every crash returns 0.
4. **`R(0)`** (line 707). For code 1, has_few_bits has just set the minimum
   to `cur_hit_count`. When that is 1, the rule computes `random() % 0`.
5. **Partial admission** (line 828). A first timeout seeds the reference
   scalars from the *simplified* trace, which has no zero byte, so
   `total_min_bitmap_size` becomes the map size. The input is then dropped
   by the re-run or by `stop_soon`.
6. **Interleaved trace lines** (calltrace.cpp:200). `do_call` writes the
   address and `endl` to the shared `TraceFile` as two insertions, with no
   lock. Two threads produce `addr addr endl endl`: a line with two
   addresses, then an empty line. Spec §6 says the file has one address per
   line, and the core reads its line count as the hit count.
7. **Calls after entry go unrecorded** (calltrace.cpp:218).
   `gStartRecord` is tested when Pin *compiles* a trace, not when the call
   runs. A library routine whose trace was compiled before the target image
   was reached keeps no `do_call`, so its calls after entry are never
   recorded. The comment at line 164 says recording starts at the user
   binary's entry.
8. **A stray comma blocks everything** (calltrace.cpp:57, 86). `split`
   keeps the empty item that `getline` yields for a leading comma or a
   doubled one. `find("")` matches every name, so `-blockFunc ,asan`
   blocks every function.

### Other observations

These were seen while modelling, and TLC showed them in earlier versions of
the project. No run checks them now: the hazards they belong to are listed in
PROJECT.json with notes.

- Bucketing and simplification are not idempotent (3→4→8, and 0→1→128),
  unlike spec §3/§8 properties 3–4.
- `global_min_hit_count` goes stale (line 410). The hit-count test sits
  inside the word predicate. An empty trace is queued as `-bms`, which sets
  `total_min_bitmap_size` to 0 and switches STEP 1 off for good, and the
  minimum is not lowered.
- `argv[argc]` (calltrace.cpp:140). When the `--` after pinbin is the last
  argument, `findProgramNameIndex` returns `argc`. `main` then assigns the
  NULL `argv[argc]` to a `std::string`, which is undefined behaviour. The
  model moves to phase `crashed` there. Pin itself refuses a command line
  with no application after `--`, so this is not reached in practice, and
  no hazard is listed for it.

## Fairness and liveness

**IgorBitmap** assumes no fairness and claims no liveness. Every step
reacts to an execution that the environment (the mutator and the target)
chooses. Nothing in the code forces any particular execution to happen.

**CallTrace** assumes `WF_vars(Main)` and `WF_vars(Step(t))` for every
thread:

- The process runs `main` once started.
- The OS scheduler keeps running every application thread that can run.
- Pin compiles a trace as soon as a thread reaches it, because a thread
  cannot proceed without it.

Under these assumptions, `RecordingEventuallyStarts` holds. The mutant that
makes `findProgramNameIndex` return the index of `--` itself gives the
program name `--`, which no image contains, and TLC finds a fair behaviour
in which recording never starts.

## Proofs (checked by `tlapm`)

### IgorBitmapProofs.tla

Its two theorems hold for **every** value of the constants that satisfies
`ConstantsAssumption`:

- any map size that is a multiple of a 4- or 8-byte word;
- any non-empty set of byte traces;
- any non-empty set of hit counts below `UINT64_MAX`;
- any `KEEP_UNIQUE_*` limits and `n_fuzz` size and ceiling;
- any mode flags.

- **TypeCorrect: `Spec => []TypeOK`.** The lemmas follow the handler's
  structure:
  - the tables and conversions are typed (`LookupType`, `ConversionType`,
    `CountBytesType`);
  - `FewBits` returns a code in 0..7 and a typed state;
  - each branch (`MainBranchType` … `SwitchFaultType`) maps typed control
    records to typed ones;
  - hence `HandleType`, and `NextTypeOK` by cases on the three actions.

  `TypeOK` is inductive as it stands.
- **BmsTagTruthfulHolds: `Spec => []BmsTagTruthful`.** `BmsTagTruthful` is
  not inductive. A step that tags an entry `-bms` only compares the new size
  with `total_min_bitmap_size`, not with the queue. The strengthening
  `IInv = TypeOK /\ RefOK(State)` adds two facts:
  - `MinBelowQueue`: `total_min_bitmap_size` is at most the bitmap size of
    every queued entry. Then "smaller than the minimum" implies "smaller than
    every entry".
  - `UninitializedMeansEmpty`: while `global_min_hit_count` is at its
    sentinel, the queue is empty and the size is 0. The lazy initialisation,
    which may *raise* the size, therefore only happens on an empty queue.

  Both conjuncts were checked with TLC as invariants on the three passing
  configurations before they were proved. `FewBitsRef` shows that
  has_few_bits preserves `RefOK` and that a returned `bms` bit is below
  every queued size. The branch lemmas (`MainBranchRef` … `HandleRef`) carry
  `RefOK` through the handler. `InitIInv`, `NextIInv` and `IInvBms` close
  the argument.

### IgorBitmapRefinement.tla

- **RefinementHolds: `Spec => RefinesReference`.** It holds under the same
  `ConstantsAssumption`, and the argument has three parts.
  - `AdvVals(a, g, x, y)` relates the scalars before a call (`a`, `g`) to
    the ones after it (`x`, `y`). The relation has three disjuncts:
    unchanged; a seeding from the sentinels; or a lowering after seeding.
  - `AdvSeed` and `AdvLower` show that the relation is closed under
    composition: a seeding then a lowering is a seeding. This matters
    because one call can run has_few_bits up to three times.
  - `FewBitsAdv`, the branch lemmas and `HandleAdv` carry the relation
    through the handler. `NextRefines` maps it to `Seed`, `Lower` or a
    stutter of `AbstractReference`.

  A lowering step needs `global_min_hit_count # UINT64_MAX`. A seeding
  needs both sentinels. Both follow from `UninitializedMeansEmpty`, so the
  proof reuses the inductive invariant `IInv` of the section above.

### IgorBitmapVirgin.tla

It holds under `ConstantsAssumption`, in crash mode and in the default
mode, with and without `-n`.

- **PersistedUnlessChangedHolds: `Spec => []PersistedUnlessChanged`.**
- **SingleReferenceHolds: `Spec => []SingleReference`.**

Neither invariant is inductive alone. has_few_bits writes `virgin_bits` on
two paths, and each needs a fact that the invariant does not state:

- The seeding path copies the classified trace into the chosen virgin map.
  It returns 0 (no edge counts as hit), so it leaves `bitmap_changed` alone.
  It is harmless only because, at that moment, every virgin map is still
  all 0xff.
- After seeding, a map only loses cleared bits by the "forget a vanished
  edge" reset, and every such reset raises `bitmap_changed`.

The strengthening is `VInv = IInv /\ VirginOK(State)`, where `VirginOK` has
three conjuncts:

- `PersistedRec`: the file equals `virgin_bits` unless the flag is up.
- `FreshWhileUnseeded`: while `global_min_hit_count` is `UINT64_MAX`, all
  maps are fresh.
- `SingleReferenceRec`: only one map is seeded, with at most one cleared
  bit per byte.

`FreshWhileUnseeded` needs `UninitializedMeansEmpty` from `IInv`. TLC
checked `VInv` as an invariant on MCIgorBitmap, MCIgorBitmapDefault and a
`-n` variant before it was proved. The lemmas follow the handler's
structure as in IgorBitmapProofs:

- `FewBitsVirgin`;
- the branch lemmas, from `MainBranchVirgin` to `HandleVirgin`;
- `InitVInv` and `NextVInv`.

### BucketizerProofs.tla

- **BucketIsSingleBitHolds: `Spec => []BucketIsSingleBit`.** Every byte
  that a scan reads is in 0..255 (`ScanTypeOK`). On every such byte,
  `count_class_lookup8` yields 0 or one bucket bit, and `simplify_lookup`
  yields one bucket bit. The provers check this over the 256 table entries
  (`TablesSingleBit`).

### CallTraceProofs.tla

Both theorems hold for any finite set of threads and any programs,
routines, images, block lists and argv (`CallTraceAssumption`), with no
bound on how many threads run `do_call` at once. They rely on
`CallSitesAssumption`: an address is never the newline chunk.

- **LinesCountCallsHolds: `Spec => []LinesCountCalls`.** The number of
  addresses in the file is the number of newlines plus the number of
  threads between do_call's two insertions. The lines may be garbled
  (finding 6), but the line count the core reads is the number of recorded
  calls.
- **RecordedOnlyRecordableHolds: `Spec => []RecordedOnlyRecordable`.**
  Every address in the file is the call site of a compiled trace whose
  routine passes both block lists.

Neither is inductive alone. `IInv` adds three facts:
- the file is a sequence of call sites and newlines;
- `instrumented` is a subset of `jitted`;
- every instrumented trace is recordable.

The counting argument uses `FS_AddElement` and `FS_RemoveElement`: an
append adds its position to the newline or the address positions
(`AppendCount`), and setting or clearing one thread's writing flag moves
that thread in or out of `Writers` (`WritersCount`). `NextIInv` takes one
case per action: `Main`, `Instrument`, `Execute` of an instrumented or a
plain trace, `WriteEndl`, and stuttering.

What stays with TLC:

- the properties of the lookup tables other than `BucketIsSingleBit`
  (`HitStaysHit` is a violation run);
- `LinesWellFormed`, which fails with two writers (finding 6), and the
  substring and split helpers over their bounded inputs;
- any liveness, in particular RecordingEventuallyStarts.

TLAPS cannot reason about ENABLED or fairness here, cannot do induction over
data through an operator parameter, and loses SMT in modules that reach a
`RECURSIVE` operator, so the proof modules avoid them.

## Not modelled

- **has_new_bits / has_new_bits_unclassified** (227–292). These are the
  AFL++ coverage-growth tests, and the reduction core does not call them.
- **count_bits and count_non_255_bytes.** These are statistics for the
  status screen.
- **The rest of describe_op**, the file names, `INTROSPECTION` output,
  `infoexec`, and the `last_*` times. These are formatting and I/O that no
  decision depends on.
- **The internals of calibrate_case, add_to_queue and hash64.** These are
  outside src/. Their effect on the modelled state is nondeterministic
  (calibration) or a constant operator (`Hash`).
- **Parts of the pintool:**
  - `PIN_Init`, the `KNOB`s and `Usage`: argument parsing is given as the
    constants `BlockFunc` and `BlockModule`;
  - `Fini`, which closes the file;
  - code-cache flushes, which would re-instrument a trace;
  - `Target2String` and `hexstr`: an address is a model value.

## Plan for later sittings

1. **Word size.** A composed model that runs `FewBits` with 4- and 8-byte
   words side by side, to check spec §9's claim that "both paths must
   produce bit-identical decisions".
2. **More TLAPS proofs.** Lemmas about `ClassifyCounts`/`Simplified` on
   whole traces.
3. **The three hazards without a property** (bitmap.c:770, 786 and 790):
   which trace a crash verdict after calibration is about, the checksum
   taken before or after classification, and a FATAL calibration after the
   entry is queued.
4. **Pin code-cache flushes.** A flush re-instruments traces, which would
   let a library trace compiled before entry be recorded later (finding 7).
