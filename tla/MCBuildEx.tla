----------------------------- MODULE MCBuildEx ------------------------------
(***************************************************************************)
(* Instances of MHTFixedLeaves and, with it, of MHTBuildEx, compared with  *)
(* the reference layout.                                                   *)
(***************************************************************************)
EXTENDS MHTFixedLeaves

L == INSTANCE MHTLayoutEx

Names == <<"a", "b", "c", "d", "e", "f", "g", "i">>
MCIndexHash(k) == <<"n", Names[(k % 8) + 1]>>

Page(k)       == [h |-> <<Names[k]>>, pn |-> k]
FirstPages(n) == [k \in 1 .. n |-> Page(k)]

(* One to eight elements of every kind, and data sets extended with one    *)
(* and with two padding blocks (equal digests, index UNASSIGNED_INDEX).    *)
PadPage    == [h |-> <<"h">>, pn |-> NoPage]
WithPad    == Append(FirstPages(3), PadPage)
WithTwoPad == FirstPages(6) \o <<PadPage, PadPage>>

MCInputs ==
    {[kind |-> "array", elems |-> FirstPages(n)] : n \in {1, 2, 4}}
    \cup {[kind |-> "file", elems |-> FirstPages(n)] : n \in 1 .. 8}
    \cup {[kind |-> "dataset", elems |-> e] : e \in {WithPad, WithTwoPad}}

(* Three blocks, not a power of two, with which EveryElementBuilt fails.   *)
MCUneven == {[kind |-> "file", elems |-> FirstPages(3)]}

(* Four blocks that hold the same data, with which PatchFindsOwn fails.    *)
MCEqual ==
    {[kind |-> "dataset", elems |-> [k \in 1 .. 4 |-> [h |-> <<"h">>, pn |-> k]]]}

(* Data sets of three and of five blocks to split, and one of two parts    *)
(* with the same data, with which AsManyFiles fails.                       *)
MCInit == {FirstPages(3), FirstPages(5)}
Twice  == {[k \in 1 .. 4 |-> [h |-> <<Names[1 + (k % 2)]>>, pn |-> k]]}

MCPadHash == <<"h">>

-----------------------------------------------------------------------------
AsLeaf(e) ==
    L!Leaf(e.pn, IF job.kind = "array" THEN MCIndexHash(e.pn) ELSE e.h)
Elems  == job.elems
Leaves == [k \in DOMAIN Elems |-> [AsLeaf(Elems[k]) EXCEPT !.isn = Elems[k].pn >= NoPage]]

IsPow2(n) == \E k \in 1 .. n : n = 2 ^ k

(* From two, four or eight elements comes the file of the reference        *)
(* layout, in every block and every field, except that interior blocks     *)
(* have no parent offset and the root has no mark of its own (the two      *)
(* fields the patching leaves out).  The header names its last block and   *)
(* its first padding leaf, none when there is none, whatever was built     *)
(* before (g_isEncounterFSLO).                                             *)
BuiltAsLaidOut ==
    Done /\ IsPow2(Len(Elems)) =>
        /\ file = L!ExLayoutFile(Leaves)
        /\ hdr = L!LayoutHeader(Leaves)

(* "Building an MHT file from a given file" (mhtfile_ex.h:37): every       *)
(* element has a leaf below the root that the header names.                *)
Below[p \in Int] ==
    IF p \notin Pos THEN {}
    ELSE IF file[p].lvl = 0 THEN {file[p].pn}
    ELSE Below[Lchild(file, p)] \cup Below[Rchild(file, p)]

EveryElementBuilt == Done => {Elems[k].pn : k \in DOMAIN Elems} = Below[hdr.rno]

(* What the tree of a row of blocks must be.                               *)
LeafFor(e) == [L!Leaf(e.pn, e.h) EXCEPT !.isn = e.pn >= NoPage]
TreeOf(row) ==
    LET leaves == [k \in 1 .. leaf_num |-> LeafFor(row[k])]
    IN  [file |-> L!ExLayoutFile(leaves), hdr |-> L!LayoutHeader(leaves)]

RowOf(k) == [j \in 1 .. leaf_num |-> ds[k * leaf_num + j]]

(* When a call returns, whatever crashes cut the calls before it, the      *)
(* directory holds the tree of every part of the data set, complete, and   *)
(* under its own name.                                                     *)
EveryPartBuilt ==
    Returned => \A k \in 0 .. parts - 1 : \E n \in DOMAIN dir : dir[n] = TreeOf(RowOf(k))

(* "total output mht file number" (mhtfile_ex.c:98): that many trees were  *)
(* put out by the first call.                                              *)
AsManyFiles == Returned => Cardinality(DOMAIN dir) >= parts
=============================================================================
