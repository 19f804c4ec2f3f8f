------------------------- MODULE AbstractReference -------------------------
(***************************************************************************)
(* What the reduction core promises about its two reference scalars       *)
(* (spec.md sections 3 and 8, properties 1 and 2): they start at their    *)
(* "uninitialised" sentinels, are seeded once, and from then on never     *)
(* increase.  A size of 0 after seeding is kept: the size test of         *)
(* has_few_bits is disabled while it is 0.                                 *)
(***************************************************************************)
EXTENDS Naturals

CONSTANTS MapSize, HitCounts, UINT64_MAX

VARIABLES tmin, gmin   \* total_min_bitmap_size, global_min_hit_count

Uninitialised == tmin = 0 /\ gmin = UINT64_MAX

Init == tmin = 0 /\ gmin = UINT64_MAX

(* The first classification seeds both scalars. *)
Seed ==
    /\ Uninitialised
    /\ tmin' \in 0..MapSize
    /\ gmin' \in HitCounts

(* Every later classification can only lower them. *)
Lower ==
    /\ gmin # UINT64_MAX
    /\ tmin' \in 0..tmin
    /\ gmin' \in HitCounts \cap 0..gmin

Next == Seed \/ Lower

Spec == Init /\ [][Next]_<<tmin, gmin>>
=============================================================================
