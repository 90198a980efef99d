----------------------------- MODULE MCSessions -----------------------------
(***************************************************************************)
(* Sessions for model checking; the bounds are in the configuration.       *)
(***************************************************************************)
EXTENDS Sessions, TLC

Symmetry == Permutations(Ids) \cup Permutations(Tickets) \cup Permutations(Workers)
=============================================================================
