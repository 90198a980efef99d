--------------------------- MODULE MCTransferPage ---------------------------
(***************************************************************************)
(* TransferPage for model checking; the bounds are in the configuration.   *)
(***************************************************************************)
EXTENDS TransferPage

\* The sender's browser finds two candidates, the recipient's one.
TwoAndOne == [i \in Sides |-> IF i = "sender" THEN 2 ELSE 1]
=============================================================================
