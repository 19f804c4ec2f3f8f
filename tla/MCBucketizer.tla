---------------------------- MODULE MCBucketizer ----------------------------
(***************************************************************************)
(* The lookup tables of Bucketizer checked over every byte value: x scans  *)
(* 0..255 the way init_count_class16 and simplify_trace walk the tables.   *)
(***************************************************************************)
EXTENDS Bucketizer

VARIABLE x

Init == x = 0

Step == x < 255 /\ x' = x + 1

Spec == Init /\ [][Step]_x

TypeOK == x \in Bytes

(* Every hit-count class and every simplified value is 0 or a single bit:  *)
(* the virgin-map tests of has_few_bits ((vir & cur) != 0 byte by byte)   *)
(* and the set representation of virgin bytes in IgorBitmap rest on it.   *)
BucketIsSingleBit ==
    /\ count_class_lookup8[x] \in {0} \cup BucketBits
    /\ simplify_lookup[x] \in BucketBits

(* spec.md section 4.1: the bucket table maps every non-zero hit count to  *)
(* a non-zero bucket (32..127 -> 64, 128..255 -> 128), so classify_counts  *)
(* never turns a hit edge into an unhit one.                               *)
HitStaysHit == x # 0 => count_class_lookup8[x] # 0

=============================================================================
