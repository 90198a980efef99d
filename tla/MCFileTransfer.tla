--------------------------- MODULE MCFileTransfer ---------------------------
(* FileTransfer on small instances. *)
EXTENDS FileTransfer

=============================================================================
