------------------------------ MODULE MCAccess ------------------------------
(* A registered browser d1 and two new ones, with few identifiers to draw.   *)
EXTENDS Access, TLC

Symmetry ==
    Permutations(Requests) \cup Permutations(Devices \ {First}) \cup Permutations(Registrations)
        \cup Permutations(Sessions \ {FirstSession})

=============================================================================
