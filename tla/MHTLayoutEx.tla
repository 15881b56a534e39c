---------------------------- MODULE MHTLayoutEx -----------------------------
(***************************************************************************)
(* What the builders of mhtfile_ex.c are expected to leave for a complete  *)
(* tree: the reference layout without the two fields they never write, the *)
(* parent offset of interior blocks and the mark of the root.              *)
(***************************************************************************)
EXTENDS MHTLayout

ExLayoutFile(leaves) ==
    LET b == LayoutFile(leaves)
    IN  [p \in Pos |-> IF b[p].lvl = 0 THEN b[p]
                       ELSE [b[p] EXCEPT !.pos = 0, !.rsvd = "R"]]
=============================================================================
