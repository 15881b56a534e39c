----------------------------- MODULE MCDBQueue -----------------------------
(***************************************************************************)
(* Instances of DBQueue: a header and up to three more nodes.              *)
(***************************************************************************)
EXTENDS DBQueue

=============================================================================
