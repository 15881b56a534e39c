------------------------------ MODULE MHTPath ------------------------------
(***************************************************************************)
(* The two walks every operation on an MHT file is made of: the binary     *)
(* search from the root down to a leaf (locateMHTBlockOffsetByPageNo) and  *)
(* the recomputation of hashes from a leaf up to the root                  *)
(* (updatePathToRoot).  One action is one iteration of a loop: it reads,   *)
(* computes and makes at most one write, so a process that dies may die    *)
(* between any two actions.                                                *)
(***************************************************************************)
EXTENDS MHTDisk

VARIABLES
    pc,         \* where the process is in the operation it runs
    op,         \* the arguments of that operation
    cur,        \* position of the block in the walk's buffer (file pointer)
    ret         \* ret_offset of the search: NoPos stands for -1

walkVars == <<pc, op, cur, ret>>

(* The search starts at the root named in the header.                      *)
BeginSearch(args) ==
    /\ pc' = "search"
    /\ op' = args
    /\ cur' = hdr.rno
    /\ ret' = NoPos
    /\ UNCHANGED <<file, hdr>>

(* Faulty variant: a page equal to the separator is looked for on the right. *)
SearchStepStrict ==
    /\ pc = "search"
    /\ IsInterior(file, cur)
    /\ cur' = IF op.page < Read(file, cur).pn THEN Lchild(file, cur)
                                              ELSE Rchild(file, cur)
    /\ ret' = cur'
    /\ UNCHANGED <<file, hdr, pc, op>>

(* One turn of the search loop: left when the page is not above the        *)
(* separator of the interior block, right otherwise.                       *)
SearchStep ==
    /\ pc = "search"
    /\ IsInterior(file, cur)
    /\ cur' = IF op.page <= Read(file, cur).pn THEN Lchild(file, cur)
                                               ELSE Rchild(file, cur)
    /\ ret' = cur'
    /\ UNCHANGED <<file, hdr, pc, op>>

(* The search ended on a leaf.  It reports success only when it moved at   *)
(* least once: ret_offset is assigned inside the loop, and the callers     *)
(* take a result that is not positive for a failure.                       *)
AtLeaf   == pc = "search" /\ ~IsInterior(file, cur)
Found    == AtLeaf /\ Read(file, cur).pn = op.page /\ ret # NoPos
NotFound == AtLeaf /\ (Read(file, cur).pn # op.page \/ ret = NoPos)

(* Faulty variants: the parent offset is subtracted; the loop stays at the *)
(* same block.                                                             *)
PathStepBack ==
    /\ pc = "path"
    /\ Climbs(file, cur)
    /\ cur' = cur - Read(file, cur).pos
    /\ file' = [file EXCEPT ![cur'] = Rehashed(file, cur')]
    /\ UNCHANGED <<hdr, pc, op, ret>>

PathStepStays ==
    /\ pc = "path"
    /\ Climbs(file, cur)
    /\ file' = [file EXCEPT ![Parent(file, cur)] = Rehashed(file, Parent(file, cur))]
    /\ UNCHANGED <<hdr, pc, op, cur, ret>>

(* One turn of the loop of updatePathToRoot: read the parent, replace its  *)
(* hash by that of its children in the file, write it back.                *)
PathStep ==
    /\ pc = "path"
    /\ Climbs(file, cur)
    /\ cur' = Parent(file, cur)
    /\ file' = [file EXCEPT ![cur'] = Rehashed(file, cur')]
    /\ UNCHANGED <<hdr, pc, op, ret>>

PathEnded == pc = "path" /\ ~Climbs(file, cur)
=============================================================================
