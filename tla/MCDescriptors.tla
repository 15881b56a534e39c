--------------------------- MODULE MCDescriptors ---------------------------
(***************************************************************************)
(* Instances of MHTDescriptors: two MHT files, two other files, and four   *)
(* numbers to give out.                                                    *)
(***************************************************************************)
EXTENDS MHTDescriptors
=============================================================================
