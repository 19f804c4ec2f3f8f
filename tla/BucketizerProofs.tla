-------------------------- MODULE BucketizerProofs --------------------------
(***************************************************************************)
(* Proof of the run's table property for every byte value: the scan of    *)
(* MCBucketizer only reaches bytes, and on every byte both lookup tables   *)
(* give 0 or a single bucket bit.                                          *)
(***************************************************************************)
EXTENDS MCBucketizer, TLAPS

(* Both tables map every byte to 0 or a single bit. *)
LEMMA TablesSingleBit ==
    ASSUME NEW b \in Bytes
    PROVE  /\ count_class_lookup8[b] \in {0} \cup BucketBits
           /\ simplify_lookup[b] \in BucketBits
BY DEF count_class_lookup8, simplify_lookup, Bytes, BucketBits

(* The scan stays within 0..255. *)
LEMMA ScanTypeOK == Spec => []TypeOK
<1>1. Init => TypeOK
  BY DEF Init, TypeOK, Bytes
<1>2. TypeOK /\ [Step]_x => TypeOK'
  BY DEF TypeOK, Step, Bytes
<1>. QED  BY <1>1, <1>2, PTL DEF Spec

(* count_class_lookup8, as applied by classify_counts, and simplify_lookup, *)
(* as applied by simplify_trace, yield 0 or a single bit on every byte,    *)
(* so the byte tests (vir & cur) != 0 of has_few_bits are bit tests.       *)
THEOREM BucketIsSingleBitHolds == Spec => []BucketIsSingleBit
<1>1. TypeOK => BucketIsSingleBit
  BY TablesSingleBit DEF TypeOK, BucketIsSingleBit
<1>. QED  BY <1>1, ScanTypeOK, PTL
=============================================================================
