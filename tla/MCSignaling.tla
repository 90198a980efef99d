----------------------------- MODULE MCSignaling -----------------------------
(* Signaling on small instances. *)
EXTENDS Signaling, TLC

Symmetry == Permutations(Requests) \cup Permutations(Sockets) \cup Permutations(Devices)

=============================================================================
