----------------------------- MODULE Bucketizer -----------------------------
(***************************************************************************)
(* The pure trace conversions of src/IgorFuzz/src/afl-fuzz-bitmap.c: the   *)
(* hit-count classes (count_class_lookup8 / count_class_lookup16, applied  *)
(* by classify_counts), the crash/hang simplification (simplify_lookup,    *)
(* applied by simplify_trace), count_bytes, minimize_bits and the          *)
(* improvement suffix chosen by describe_op.                               *)
(*                                                                         *)
(* A trace is a function from edge indices to byte values 0..255.          *)
(***************************************************************************)
EXTENDS Naturals, FiniteSets

Bytes == 0..255

(* The non-zero hit-count classes: each is a single bit of a byte.         *)
BucketBits == {1, 2, 4, 8, 16, 32, 64, 128}

(* Mutant: the table with the identity range one entry too long. *)
count_class_lookup8_offbyone ==
    [b \in Bytes |->
        CASE b \in 0..3     -> b
          [] b \in 4..7     -> 8
          [] b \in 8..15    -> 16
          [] b \in 16..31   -> 32
          [] b \in 32..63   -> 64
          [] b \in 128..191 -> 128
          [] OTHER          -> 0]

(* count_class_lookup8: raw hit count -> bucket.  The designated           *)
(* initialisers [32] = TIMES32(64) and [128] = TIMES64(128) fill 32..63    *)
(* and 128..191 only; the other entries of the static table are 0.         *)
count_class_lookup8 ==
    [b \in Bytes |->
        CASE b \in 0..2     -> b
          [] b = 3          -> 4
          [] b \in 4..7     -> 8
          [] b \in 8..15    -> 16
          [] b \in 16..31   -> 32
          [] b \in 32..63   -> 64
          [] b \in 128..191 -> 128
          [] OTHER          -> 0]

(* simplify_lookup: 0 -> 1 ("not hit"), anything else -> 128 ("hit").      *)
simplify_lookup == [b \in Bytes |-> IF b = 0 THEN 1 ELSE 128]

(* classify_counts: every 16-bit lane goes through count_class_lookup16,   *)
(* whose entry for (b1 << 8) + b2 is built by init_count_class16 as        *)
(* (lookup8[b1] << 8) | lookup8[b2]; the effect is lookup8 on every byte.  *)
ClassifyCounts(t) == [k \in DOMAIN t |-> count_class_lookup8[t[k]]]

(* simplify_trace: a zero word becomes 0x01 bytes, any other word goes     *)
(* through simplify_lookup byte by byte; both are lookup on every byte.    *)
SimplifyTrace(t) == [k \in DOMAIN t |-> simplify_lookup[t[k]]]

(* count_bytes: the number of non-zero bytes ("bitmap size").              *)
CountBytes(t) == Cardinality({k \in DOMAIN t : t[k] # 0})

(* minimize_bits: one bit per edge, set iff the edge was hit.              *)
MinimizeBits(t) == {k \in DOMAIN t : t[k] # 0}

(* The improvement tag describe_op appends for a queue entry: the code is  *)
(* 4*bms + 2*cov + 1*hcn, code 0 (crashes, hangs) gets no tag.             *)
DescribeTag(code) ==
    CASE code = 1 -> ",-hcn"
      [] code = 2 -> ",-cov"
      [] code = 3 -> ",-cov_hcn"
      [] code = 4 -> ",-bms"
      [] code = 5 -> ",-bms_hcn"
      [] code = 6 -> ",-bms_cov"
      [] code = 7 -> ",-bms_cov_hcn"
      [] OTHER    -> ""
=============================================================================
