------------------------- MODULE MCTransferControl -------------------------
(* TransferControl on small instances. *)
EXTENDS TransferControl, TLC

\* The database clock one unit behind the server's.
Behind == -1

Symmetry ==
    Permutations(Devices) \cup Permutations(Transfers) \cup Permutations(Requests)

=============================================================================
