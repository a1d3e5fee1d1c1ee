--------------------------- MODULE MCSharedGauges ---------------------------
(***************************************************************************)
(* An instance of module SharedGauges: fees that differ by market and by   *)
(* block, sides of both signs and zero, and a feed that may be ahead of    *)
(* the host's clock.                                                       *)
(***************************************************************************)
EXTENDS SharedGauges, TLC

MCDomain ==
    [BTC |-> {0, 2}, ETH |-> {2}, bank |-> {1, 2}]
    @@ [long |-> {-2, 0, 1}, short |-> {0, 1}]
    @@ [now |-> {5, 6, 7}, updated |-> {4, 6}]

Symmetry == Permutations(Runners)

=============================================================================
