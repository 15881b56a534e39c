------------------------------ MODULE MCBuild ------------------------------
(***************************************************************************)
(* Instances of MHTBuild, compared with the reference layout.              *)
(***************************************************************************)
EXTENDS MHTBuild

L == INSTANCE MHTLayout

(* The leaf of a page of the dataset: its number and a hash.               *)
Names == <<"a", "b", "c", "d", "e", "f", "g", "i">>
Page(i) == [pn |-> 2 * i - 1, h |-> <<Names[i]>>]

(* Datasets of one to eight pages, and one that was extended with a page   *)
(* numbered UNASSIGNED_INDEX (ds_extend_dataset_with_zero).                *)
FirstPages(n) == [i \in 1 .. n |-> Page(i)]
WithPadPage   == Append(FirstPages(3), [pn |-> NoPage, h |-> <<"h">>])

MCInputs == {FirstPages(n) : n \in 1 .. 8} \cup {WithPadPage}

(* What the file must hold once the input is built.                        *)
LeafOf(p) == [pn |-> p.pn, h |-> p.h, isn |-> p.pn >= NoPage, izn |-> FALSE]
LeavesOf(input) == [i \in 1 .. Len(input) |-> LeafOf(input[i])]

(* The finished file is the reference layout of its input: every block, in *)
(* every field, and the root offset (the sketch in                         *)
(* filemht_structure_sketch, against process_all_pages_fv and              *)
(* deal_with_remaining_nodes_in_queue).  When it has padding its header    *)
(* names the first padding leaf, the one insertNewMHTBlock fills next.     *)
BuiltAsLaidOut ==
    Done => /\ file = L!LayoutFile(LeavesOf(built))
            /\ LET h == L!LayoutHeader(LeavesOf(built))
               IN  hdr.rno = h.rno /\ (h.fslo # NoPos => hdr.fslo = h.fslo)

(* The header of a finished file names the first padding leaf, and none    *)
(* when there is none (g_mhtFirstSplymtLeafOffset).                        *)
FirstPadNamed == Done => hdr.fslo = L!LayoutHeader(LeavesOf(built)).fslo
=============================================================================
