---------------------------- MODULE MCIgorBitmap ----------------------------
(***************************************************************************)
(* A small instance of IgorBitmap: an 8-byte map, i.e. two words in the    *)
(* 32-bit build and one in the 64-bit build, and a handful of raw traces   *)
(* over it that exercise every test of the classifier.                     *)
(***************************************************************************)
EXTENDS IgorBitmap

(* spec.md scenario 1: edges 1 and 4, bucketed to 2 and 8. *)
T1 == <<0, 2, 0, 0, 5, 0, 0, 0>>
(* Edge 4 gone: the only change is in the second 32-bit word. *)
T2 == <<0, 2, 0, 0, 0, 0, 0, 0>>
(* The same edges as T1, edge 1 in another bucket. *)
T3 == <<0, 1, 0, 0, 5, 0, 0, 0>>
(* Edges 1 and 4 gone, a new edge 5 in the word of edge 4. *)
T4 == <<0, 0, 0, 0, 0, 3, 0, 0>>
(* No edge hit. *)
T5 == <<0, 0, 0, 0, 0, 0, 0, 0>>

(* Sequences are functions on 1..8; the model's traces are on 0..7. *)
AsTrace(s) == [k \in 0..7 |-> s[k + 1]]

MCTraces == {AsTrace(T1), AsTrace(T2), AsTrace(T3), AsTrace(T4), AsTrace(T5)}

(* The traces of an instrumented target, which always hits an edge. *)
MCHitTraces == MCTraces \ {AsTrace(T5)}

(* A stand-in for hash64: position-weighted byte sum, modulo 3 so that a   *)
(* zero checksum occurs.                                                   *)
MCHash(t) == (t[0] + 2 * t[1] + 3 * t[4] + 5 * t[5]) % 3
=============================================================================
