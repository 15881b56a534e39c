------------------------------ MODULE MHTStore ------------------------------
(***************************************************************************)
(* The life of an MHT file after it was built: insertNewMHTBlock, which    *)
(* puts a page behind all others in the place of the first padding leaf    *)
(* and extends the tree when no padding is left (extentTheMHT), and        *)
(* updateMHTBlockHashByPageNo, both cut short by a crash at any point.     *)
(*                                                                         *)
(* Calls are synchronous, so a process runs one operation at a time.  One  *)
(* action makes at most one write to the file; a crash may come between    *)
(* any two actions, and loses what the process held in memory.             *)
(***************************************************************************)
EXTENDS MHTPath, MHTQueue, MHTTree

CONSTANTS
    InitLeaves, \* the rows of pages the file was built from
    Pages,      \* the pages callers use
    NewHash,    \* the hashes they give
    Absent,     \* the result of a search that fails
    MaxCut,     \* bound on the pages whose operation is cut at a time
    MaxHash     \* bound on the bytes that spell a hash

L == INSTANCE MHTLayout

VARIABLES
    slot,       \* supplementaryNode_offset: the leaf to fill
    acked,      \* observer: hash of each page whose operation returned
    cut         \* observer: pages of operations a crash cut, not redone yet

storeVars == <<slot, acked, cut>>
vars == <<file, hdr, pc, op, cur, ret, stage, q, at, cbd, hlev, wpos, glob,
          slot, acked, cut>>

Nowhere == -1       \* an offset of -1

NoOp == [kind |-> "none", page |-> 0, hash |-> NullHash]
Args(kind) == [kind : {kind}, page : Pages, hash : NewHash]

(* Callers give digests of data.                                           *)
GivenHash == {<<d>> : d \in Data}

(* Rows of pages are in ascending order; that the file of such a row is    *)
(* laid out well, with a parent offset in every block below the root, is   *)
(* a fact about MHTLayout, which is recursive.                             *)
StoreAssumption ==
    /\ Pages \subseteq Nat /\ \A p \in Pages : p < NoPage
    /\ NewHash \subseteq Hash \cap GivenHash /\ Absent \notin Hash
    /\ \A leaves \in InitLeaves :
          /\ DOMAIN leaves # {}
          /\ \A i \in DOMAIN leaves : leaves[i].pn \in Pages /\ leaves[i].h \in GivenHash
          /\ LaidOut(L!LayoutFile(leaves), L!LayoutHeader(leaves), leaves)
          /\ Climbable(L!LayoutFile(leaves), L!LayoutHeader(leaves).rno)
ASSUME StoreAssumption

QueueAtRest ==
    stage = "idle" /\ q = <<>> /\ at = 0 /\ cbd = 0 /\ hlev = NoPad /\ wpos = 1

Init ==
    /\ \E leaves \in InitLeaves :
          /\ file = L!LayoutFile(leaves) /\ hdr = L!LayoutHeader(leaves)
          /\ acked = [p \in {leaves[i].pn : i \in DOMAIN leaves} |->
                        leaves[CHOOSE i \in DOMAIN leaves : leaves[i].pn = p].h]
    /\ pc = "idle" /\ op = NoOp /\ cur = NoPos /\ ret = NoPos
    /\ QueueAtRest /\ glob = NoGlobals
    /\ slot = NoPos /\ cut = {}

(* The operation is over, its arguments and locals are gone.               *)
Return == pc' = "idle" /\ op' = NoOp /\ cur' = NoPos /\ ret' = NoPos /\ slot' = NoPos

-----------------------------------------------------------------------------
(* updateMHTBlockHashByPageNo, called for a page known to be there.  In a  *)
(* tree of n blocks a hash spells at most n bytes.  After a crash inside   *)
(* an extension updates also hash blocks above the root, once more at      *)
(* every update: MaxHash bounds how often.                                 *)
StartUpdate(args) ==
    /\ pc = "idle" /\ args.page \in DOMAIN acked
    /\ \A p \in Pos : Len(file[p].h) <= MaxHash
    /\ BeginSearch(args)
    /\ UNCHANGED <<queueVars, storeVars>>

Search == SearchStep /\ UNCHANGED <<queueVars, storeVars>>

Fail ==
    /\ NotFound
    /\ Return
    /\ UNCHANGED <<file, hdr, queueVars, acked, cut>>

UpdateLeaf ==
    /\ Found
    /\ file' = [file EXCEPT ![ret].h = op.hash]
    /\ cur' = ret
    /\ pc' = "path"
    /\ UNCHANGED <<hdr, op, ret, queueVars, storeVars>>

Climb == PathStep /\ UNCHANGED <<queueVars, storeVars>>

UpdateReturns ==
    /\ PathEnded /\ op.kind = "update"
    /\ Return
    /\ acked' = [acked EXCEPT ![op.page] = op.hash]
    /\ cut' = cut \ {op.page}
    /\ UNCHANGED <<file, hdr, queueVars>>

-----------------------------------------------------------------------------
(* The queue node of the old root, with the page of its rightmost leaf     *)
(* (mht_buffer_to_qnode).                                                  *)
Rightmost(f, p) ==
    LET R[x \in Int] == IF Read(f, x).rcos = 0 THEN x ELSE R[Rchild(f, x)]
    IN  R[p]

NodeOf(f, p) ==
    LET b == Read(f, p)
    IN  [MakeQNode(b.pn, b.h, b.lvl, b.isn, b.izn) EXCEPT
            !.lcpn = b.lcpn, !.lcos = b.lcos, !.rcpn = b.rcpn, !.rcos = b.rcos,
            !.ppn = b.ppn, !.pos = b.pos, !.rm = Read(f, Rightmost(f, p)).pn]

(* insertNewMHTBlock, called for a page above all known ones: read the     *)
(* header, fill the leaf it names or extend the tree when it names none.   *)
StartInsert(args) ==
    /\ pc = "idle" /\ \A p \in DOMAIN acked : p < args.page
    /\ op' = args
    /\ glob' = [glob EXCEPT !.rno = hdr.rno]
    /\ slot' = hdr.fslo
    /\ IF hdr.fslo # NoPos
       THEN pc' = "fill" /\ UNCHANGED <<q, wpos>>
       ELSE pc' = "extend" /\ q' = <<NodeOf(file, hdr.rno)>> /\ wpos' = hdr.rno
    /\ UNCHANGED <<file, hdr, cur, ret, stage, at, cbd, hlev, acked, cut>>

(* extentTheMHT: with the old root in the queue, padding starts where the  *)
(* old root is in the file.                                                *)
ExtendBegin ==
    /\ pc = "extend" /\ stage = "idle"
    /\ BeginPadding
    /\ UNCHANGED <<file, hdr, walkVars, q, at, cbd, wpos, glob, storeVars>>

ExtendStep ==
    /\ pc = "extend" /\ QueueStep
    /\ UNCHANGED <<walkVars, storeVars>>

(* find_the_first_leaf_splymt_block_by_offset: scan from a block up to the *)
(* root for a padding leaf.  The four bytes in front of the first block    *)
(* must read 'RRRR': the reserved field of a block that is not the root,   *)
(* or the end of the header.                                               *)
BeginScan(p) == cur' = IF p = 1 \/ Read(file, p - 1).rsvd = "R" THEN p ELSE Nowhere

Scanning  == pc \in {"scan", "rescan", "next"}
AtPadLeaf == cur # Nowhere /\ Read(file, cur).rsvd # "root"
             /\ ~IsInterior(file, cur) /\ Read(file, cur).isn
(* Faulty variant: the root does not end the scan.                         *)
ScanPastRoot == cur = Nowhere

ScanFails == cur = Nowhere \/ Read(file, cur).rsvd = "root"
ScanEnded == Scanning /\ (AtPadLeaf \/ ScanFails)
ScanFound == IF ScanFails THEN Nowhere ELSE cur

(* At the end of the file read() returns nothing and the scan stays.       *)
ScanStep ==
    /\ Scanning /\ ~AtPadLeaf /\ ~ScanFails
    /\ cur' = IF cur \in Pos THEN cur + 1 ELSE cur
    /\ UNCHANGED <<file, hdr, pc, op, ret, queueVars, storeVars>>

(* The new root is written: look for the first padding leaf from the old   *)
(* root on, and once more from what was found.                             *)
ExtendScan ==
    /\ pc = "extend" /\ stage = "root" /\ q = <<>>
    /\ stage' = "idle" /\ at' = 0 /\ hlev' = NoPad /\ wpos' = 1
    /\ BeginScan(hdr.rno)
    /\ pc' = "scan"
    /\ UNCHANGED <<file, hdr, op, ret, q, cbd, glob, storeVars>>

ExtendRescan ==
    /\ pc = "scan" /\ ScanEnded
    /\ BeginScan(ScanFound)
    /\ pc' = "rescan"
    /\ UNCHANGED <<file, hdr, op, ret, queueVars, storeVars>>

NewHeader == [rno  |-> glob.rno,
              fslo |-> IF ScanFound = Nowhere THEN NoPos ELSE ScanFound]

(* The header of the extended file makes the new root visible.             *)
ExtendHeader ==
    /\ pc = "rescan" /\ ScanEnded
    /\ hdr' = NewHeader
    /\ slot' = ScanFound
    /\ pc' = "fill"
    /\ UNCHANGED <<file, op, cur, ret, queueVars, acked, cut>>

(* Faulty variant: the leaf stays marked as padding.                       *)
FillStillPad ==
    /\ pc = "fill" /\ slot \in Pos
    /\ file' = [file EXCEPT ![slot] = [@ EXCEPT !.pn = op.page, !.h = op.hash]]
    /\ cur' = slot
    /\ pc' = "path"
    /\ UNCHANGED <<hdr, op, ret, queueVars, storeVars>>

(* Write the page into the leaf, then recompute the hashes up to the root. *)
(* A slot of -1 is never seen here: an extension always leaves padding.    *)
Fill ==
    /\ pc = "fill" /\ slot \in Pos
    /\ file' = [file EXCEPT ![slot] = [@ EXCEPT !.pn = op.page, !.h = op.hash,
                                               !.isn = FALSE, !.izn = FALSE]]
    /\ cur' = slot
    /\ pc' = "path"
    /\ UNCHANGED <<hdr, op, ret, queueVars, storeVars>>

PathDone ==
    /\ PathEnded /\ op.kind = "insert"
    /\ pc' = "seps" /\ cur' = slot
    /\ UNCHANGED <<file, hdr, op, ret, queueVars, storeVars>>

(* update_interior_nodes_pageno: at each level up to the root write the    *)
(* parent, its left child and its right child.                             *)
Written(p, b) == IF p \in Pos THEN [file EXCEPT ![p] = b] ELSE file

SepsBegin ==
    /\ pc = "seps"
    /\ cur' = Parent(file, cur) /\ pc' = "sepParent"
    /\ UNCHANGED <<file, hdr, op, ret, queueVars, storeVars>>

(* Faulty variant: the parent keeps its own separator.                     *)
SepParentKeepsPage ==
    /\ pc = "sepParent"
    /\ file' = Written(cur, [Read(file, cur) EXCEPT
                    !.lcpn = Read(file, Lchild(file, cur)).pn,
                    !.rcpn = Read(file, Rchild(file, cur)).pn])
    /\ pc' = "sepLeft"
    /\ UNCHANGED <<hdr, op, cur, ret, queueVars, storeVars>>

SepParent ==
    /\ pc = "sepParent"
    /\ LET l == Lchild(file, cur)
           r == Rchild(file, cur)
       IN  file' = Written(cur, [Read(file, cur) EXCEPT
                       !.pn = Read(file, Rightmost(file, l)).pn,
                       !.lcpn = Read(file, l).pn, !.rcpn = Read(file, r).pn])
    /\ pc' = "sepLeft"
    /\ UNCHANGED <<hdr, op, cur, ret, queueVars, storeVars>>

SetParentPage(c) == file' = Written(c, [Read(file, c) EXCEPT !.ppn = Read(file, cur).pn])

SepLeft ==
    /\ pc = "sepLeft"
    /\ SetParentPage(Lchild(file, cur))
    /\ pc' = "sepRight"
    /\ UNCHANGED <<hdr, op, cur, ret, queueVars, storeVars>>

(* Faulty variant: the right child is not written.                         *)
SepRightUnwritten ==
    /\ pc = "sepRight"
    /\ pc' = IF Climbs(file, cur) THEN "seps" ELSE "sepsDone"
    /\ UNCHANGED <<file, hdr, op, cur, ret, queueVars, storeVars>>

SepRight ==
    /\ pc = "sepRight"
    /\ SetParentPage(Rchild(file, cur))
    /\ pc' = IF Climbs(file, cur) THEN "seps" ELSE "sepsDone"
    /\ UNCHANGED <<hdr, op, cur, ret, queueVars, storeVars>>

NextPad ==
    /\ pc = "sepsDone"
    /\ BeginScan(slot)
    /\ pc' = "next"
    /\ UNCHANGED <<file, hdr, op, ret, queueVars, storeVars>>

(* The last write is the header; then the insertion returns 0.             *)
InsertReturns ==
    /\ pc = "next" /\ ScanEnded
    /\ hdr' = NewHeader
    /\ Return
    /\ acked' = [p \in DOMAIN acked \cup {op.page} |->
                    IF p = op.page THEN op.hash ELSE acked[p]]
    /\ cut' = cut \cap DOMAIN acked
    /\ UNCHANGED <<file, queueVars>>

-----------------------------------------------------------------------------
(* The process dies; the next one starts with nothing in memory.  At most  *)
(* MaxCut pages have a cut operation that was not redone yet.              *)
Dies(left) ==
    /\ pc # "idle"
    /\ cut' = cut \cup left
    /\ Cardinality(cut') <= MaxCut
    /\ Return
    /\ stage' = "idle" /\ q' = <<>> /\ at' = 0 /\ cbd' = 0 /\ hlev' = NoPad /\ wpos' = 1
    /\ glob' = NoGlobals
    /\ UNCHANGED <<file, hdr, acked>>

Crash == Dies(IF pc = "search" THEN {} ELSE {op.page})

UpdateStep == Search \/ Fail \/ UpdateLeaf \/ UpdateReturns
ExtensionStep == ExtendBegin \/ ExtendStep \/ ExtendScan \/ ExtendRescan \/ ExtendHeader
InsertStep == Fill \/ PathDone \/ SepsBegin \/ SepParent \/ SepLeft \/ SepRight
              \/ NextPad \/ InsertReturns

Step == UpdateStep \/ Climb \/ ExtensionStep \/ ScanStep \/ InsertStep

Next ==
    \/ \E args \in Args("update") : StartUpdate(args)
    \/ \E args \in Args("insert") : StartInsert(args)
    \/ Step
    \/ Crash

Spec == Init /\ [][Next]_vars

(* The library is called synchronously: a running operation goes on.       *)
FairSpec == Spec /\ WF_vars(Step)

-----------------------------------------------------------------------------
(* What a search in the file as it is now would find: the hash of the leaf *)
(* it ends on, or Absent.  (Of a file of one page, whose only leaf is the  *)
(* root, no search reads that leaf; here it counts as found.)              *)
LeafFor(page) ==
    LET D[x \in Int] ==
            IF ~IsInterior(file, x) THEN x
            ELSE IF page <= Read(file, x).pn THEN D[Lchild(file, x)] ELSE D[Rchild(file, x)]
    IN  D[hdr.rno]

Lookup(page) ==
    LET leaf == LeafFor(page)
    IN  IF Read(file, leaf).pn = page THEN Read(file, leaf).h ELSE Absent

TypeOK ==
    /\ DiskTypeOK /\ QueueTypeOK
    /\ pc \in {"idle", "search", "path", "extend", "scan", "rescan", "fill",
               "seps", "sepParent", "sepLeft", "sepRight", "sepsDone", "next"}
    /\ stage \in {"idle", "walk", "flush", "pad", "root"}
    /\ op \in [kind : {"none", "insert", "update"}, page : Nat, hash : Hash]
    /\ cur \in Int /\ ret \in 0 .. MaxPos /\ slot \in {Nowhere} \cup 0 .. MaxPos
    /\ DOMAIN acked \subseteq Pages /\ cut \subseteq Pages

(* Whatever operation runs and wherever a crash cuts it, a search finds    *)
(* every page whose insertion returned, with the hash of its last          *)
(* operation; only the page an operation is at work on, or was when it was *)
(* cut, may show another hash (insertNewMHTBlock, extentTheMHT).           *)
AckedFound ==
    \A p \in DOMAIN acked :
        IF p \in cut \cup {op.page} THEN Lookup(p) # Absent ELSE Lookup(p) = acked[p]

(* Insertions leave no trace of the way the tree grew: when nothing runs   *)
(* and no operation is left half done, the blocks up to the root and the   *)
(* header are those of a tree built at once from the same pages (every     *)
(* hash, separator, offset, flag and mark).                                *)
Count(p) == Cardinality({x \in DOMAIN acked : x <= p})
AckedLeaves ==
    [i \in 1 .. Cardinality(DOMAIN acked) |->
        LET p == CHOOSE p \in DOMAIN acked : Count(p) = i IN L!Leaf(p, acked[p])]

SameAsRebuilt ==
    pc = "idle" /\ cut = {} =>
        LET leaves == AckedLeaves
            built  == L!LayoutFile(leaves)
        IN  /\ hdr = L!LayoutHeader(leaves)
            /\ \A p \in 1 .. hdr.rno : file[p] = built[p]

(* The header never forgets padding nor names a leaf that is in use: it    *)
(* names the first leaf behind the last reported page, or nothing when     *)
(* every leaf of the tree is taken.  A crash does not change that, so the  *)
(* next insertion continues where the cut one was.                         *)
HeaderNamesSlot ==
    LET Last_ == {p \in 1 .. hdr.rno : file[p].lvl = 0 /\ file[p].pn \in DOMAIN acked}
        After == {p \in 1 .. hdr.rno : file[p].lvl = 0 /\ \A x \in Last_ : x < p}
    IN  hdr.fslo = IF After = {} THEN NoPos
                   ELSE CHOOSE p \in After : \A x \in After : p <= x

(* The state of the operation and what the header says, at any moment.     *)
HeaderInv == TypeOK /\ HeaderNamesSlot

(* The file implements the page store.                                     *)
Store == INSTANCE PageStore WITH
             Hashes <- GivenHash, store <- [p \in Pages |-> Lookup(p)], known <- DOMAIN acked
StoreSpec == Store!Init /\ [][Store!Next]_<<[p \in Pages |-> Lookup(p)], DOMAIN acked>>

(* Every operation returns, whatever the crashes before it left behind:    *)
(* the climbs reach the root and the scans for padding end.                *)
Returns == (pc # "idle") ~> (pc = "idle")
=============================================================================
