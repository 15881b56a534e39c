---------------------------- MODULE MCQNodePool ----------------------------
(***************************************************************************)
(* Instances of QNodePool: a few addresses, one or two threads.            *)
(***************************************************************************)
EXTENDS QNodePool, TLC

Symmetry == Permutations(Node)
=============================================================================
