----------------------------- MODULE MHTUpdate -----------------------------
(***************************************************************************)
(* updateMHTBlockHashByPageNo on a well-formed file: find the leaf of a    *)
(* page, write its new hash, recompute the hashes up to the root.  The     *)
(* writes reach the file one by one and the process may die between any    *)
(* two of them; a new process then runs further updates on the same file.  *)
(***************************************************************************)
EXTENDS MHTPath

CONSTANTS
    InitDisks,  \* the files the operations start from
    Pages,      \* pages passed to the operation
    NewHash     \* hash values passed to the operation

(* The parents of the blocks that have one, and the blocks met on the way  *)
(* up from block q; On adds q itself.                                      *)
ParentOf(f) == [p \in {x \in Pos : Climbs(f, x)} |-> Parent(f, p)]

Chain(up, q) ==
    LET Up[p \in Int] == IF p \in DOMAIN up THEN {up[p]} \cup Up[up[p]] ELSE {}
    IN  Up[q]

PathUp(f, q) == Chain(ParentOf(f), q)
On(f, q)     == {q} \cup PathUp(f, q)

IsLeafOf(f, p, page) == f[p].rsvd # "zero" /\ f[p].lvl = 0 /\ f[p].pn = page

(* A page has one leaf.  On the way up from it lies r, and the separator   *)
(* of every block met there tells which child leads back to the leaf.      *)
PagesOnce(f) == \A p, q \in Pos, page \in Pages :
    IsLeafOf(f, p, page) /\ IsLeafOf(f, q, page) => p = q

SearchTree(f, r) == \A p \in Pos, page \in Pages : IsLeafOf(f, p, page) =>
    /\ r \in On(f, p)
    /\ \A x \in PathUp(f, p) :
          /\ x \in Pos /\ f[x].lvl > 0
          /\ IF page <= f[x].pn THEN Lchild(f, x) \in On(f, p)
                                ELSE Rchild(f, x) \in On(f, p)

WellFormed(d) ==
    /\ d.file \in [Pos -> Block] /\ d.hdr \in Header
    /\ WellLinked(d.file, d.hdr.rno) /\ d.file[d.hdr.rno].pos = 0
    /\ \A p \in Pos : IsInterior(d.file, p) => MerkleAt(d.file, p)
    /\ PagesOnce(d.file) /\ SearchTree(d.file, d.hdr.rno)

ASSUME UpdateAssumption ==
    /\ \A d \in InitDisks : WellFormed(d)
    /\ Pages \subseteq Nat
    /\ NewHash \subseteq Hash

(* Observers: the interior blocks whose hash a dead process left stale,    *)
(* and the pages whose update was cut and not completed since.             *)
VARIABLES torn, cut

vars == <<file, hdr, pc, op, cur, ret, torn, cut>>

NoOp == [page |-> 0, hash |-> NullHash]
Args == [page : Pages, hash : NewHash]

Init ==
    /\ \E d \in InitDisks : file = d.file /\ hdr = d.hdr
    /\ pc = "idle" /\ op = NoOp /\ cur = NoPos /\ ret = NoPos
    /\ torn = {} /\ cut = {}

StartUpdate(args) ==
    /\ pc = "idle"
    /\ BeginSearch(args)
    /\ UNCHANGED <<torn, cut>>

Search == SearchStep /\ UNCHANGED <<torn, cut>>

(* The page is not in the tree: return -2.                                 *)
Fail ==
    /\ NotFound
    /\ pc' = "idle"
    /\ UNCHANGED <<file, hdr, op, cur, ret, torn, cut>>

(* Faulty variants: no walk follows; the block is written from a cleared   *)
(* buffer.                                                                 *)
WriteLeafOnly ==
    /\ Found
    /\ file' = [file EXCEPT ![ret] = [@ EXCEPT !.h = op.hash]]
    /\ pc' = "idle"
    /\ UNCHANGED <<hdr, op, cur, ret, torn, cut>>

WriteLeafCleared ==
    /\ Found
    /\ file' = [file EXCEPT ![ret] = [ZeroBlock EXCEPT !.h = op.hash]]
    /\ cur' = ret
    /\ pc' = "path"
    /\ UNCHANGED <<hdr, op, ret, torn, cut>>

(* Replace the hash in the leaf's block and write the block.               *)
WriteLeaf ==
    /\ Found
    /\ file' = [file EXCEPT ![ret] = [@ EXCEPT !.h = op.hash]]
    /\ cur' = ret
    /\ pc' = "path"
    /\ UNCHANGED <<hdr, op, ret, torn, cut>>

Climb == PathStep /\ torn' = torn \ {cur'} /\ UNCHANGED cut

(* The walk is over: return the offset of the leaf.                        *)
Finish ==
    /\ PathEnded
    /\ pc' = "idle"
    /\ cut' = cut \ {op.page}
    /\ UNCHANGED <<file, hdr, op, cur, ret, torn>>

(* The block the walk has still to recompute.                              *)
Pending == IF pc = "path" /\ Climbs(file, cur) THEN {Parent(file, cur)} ELSE {}

(* The process dies: what it wrote stays, what it held in memory is gone.  *)
Crash ==
    /\ pc # "idle"
    /\ pc' = "idle" /\ op' = NoOp /\ cur' = NoPos /\ ret' = NoPos
    /\ torn' = torn \cup Pending
    /\ cut' = IF pc = "path" THEN cut \cup {op.page} ELSE cut
    /\ UNCHANGED <<file, hdr>>

Step == Search \/ Fail \/ WriteLeaf \/ Climb \/ Finish

Next == (\E args \in Args : StartUpdate(args)) \/ Step \/ Crash

Spec == Init /\ [][Next]_vars

(* A running operation gets its turn: the library is called synchronously. *)
FairSpec == Spec /\ WF_vars(Step)

-----------------------------------------------------------------------------
TypeOK ==
    /\ DiskTypeOK
    /\ pc \in {"idle", "search", "path"}
    /\ op \in [page : Nat, hash : Hash]
    /\ cur \in 0 .. MaxPos /\ ret \in 0 .. MaxPos
    /\ torn \subseteq Pos /\ cut \subseteq Nat

(* The Merkle property under updates and crashes: every interior block     *)
(* combines its children, but for the parent the running walk is about to  *)
(* recompute and for blocks a crash left stale (updatePathToRoot).         *)
MerkleUnlessTorn ==
    \A p \in Pos : IsInterior(file, p) /\ p \notin torn \cup Pending => MerkleAt(file, p)

(* An update that returns went all the way: the walk ends on the block the *)
(* header names as the root, never on a block short of it (the loop        *)
(* condition of updatePathToRoot).                                         *)
WalkEndsAtRoot == PathEnded => cur = hdr.rno

(* An update changes hashes only: no step alters a page number, a flag or  *)
(* an offset of any block, or the header.                                  *)
SameButHash(b, c) == b = [c EXCEPT !.h = b.h]
ShapeKept == [][ /\ \A p \in Pos : SameButHash(file'[p], file[p])
                 /\ hdr' = hdr ]_vars

(* A Merkle tree gives a changed hash away: where a step changes the hash  *)
(* of a block whose parent matched its children, the parent no longer      *)
(* matches them (generateCombinedHash_SHA256).                             *)
ChangeShows == [][ \A p \in Pos :
    LET up == Parent(file, p)
    IN  Read(file, p).pos # 0 /\ file'[p].h # file[p].h /\ MerkleAt(file, up)
            => ~MerkleAt(file', up) ]_vars

(* Damage can be traced: a block whose hash is stale lies above the leaf   *)
(* of a page whose update was cut by a crash, or of the page being updated *)
(* now.  So repeating the cut updates, and nothing else, repairs the file. *)
DamageTraceable ==
    LET Suspects == cut \cup (IF pc = "path" THEN {op.page} ELSE {})
    IN  \A p \in Pos : IsInterior(file, p) /\ ~MerkleAt(file, p) =>
            \E q \in Pos, page \in Suspects :
                IsLeafOf(file, q, page) /\ p \in PathUp(file, q)

(* locateMHTBlockOffsetByPageNo (mhtfile.h:146) finds a page that is in    *)
(* the tree: a search fails only for a page no leaf holds.                 *)
SearchFindsPage == NotFound => \A p \in Pos : ~IsLeafOf(file, p, op.page)

(* Each operation returns: both walks end, the one at a leaf and the other *)
(* at the root.                                                            *)
Returns == (pc # "idle") ~> (pc = "idle")
=============================================================================
