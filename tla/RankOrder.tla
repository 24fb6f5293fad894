------------------------------ MODULE RankOrder ------------------------------
(***************************************************************************)
(* The order in which a thread comes nearer to the end of its work: ranks  *)
(* are tuples of natural numbers, compared at the first place they differ. *)
(* RankOrderProofs shows that no rank can come nearer for ever.            *)
(***************************************************************************)
EXTENDS Naturals

Nearer(rank, other) ==
    \E n \in DOMAIN other :
        /\ rank[n] < other[n]
        /\ \A m \in 1 .. (n - 1) : rank[m] = other[m]

=============================================================================
