---------------------------- MODULE MHTDisorder ----------------------------
(***************************************************************************)
(* insertNewPageDisorder: a page goes where its number belongs, and every  *)
(* later page moves one leaf on.  The leaves are overwritten in place from *)
(* a copy of the file made before, which no other call ever reads: while   *)
(* the shift runs, one reported page is in the copy only.                  *)
(*                                                                         *)
(* The calls of MHTStore run on the same file; at most one call runs at a  *)
(* time.  The search, the climb, the extension and the walk over the       *)
(* separators are those of MHTStore.                                       *)
(***************************************************************************)
EXTENDS MHTStore

VARIABLES
    copy,       \* the blocks of MHT_TMP_FILE_NAME
    croot,      \* read_rootNodeOffset: where the copied tree ends
    wroot,      \* write_rootNodeOffset, NoPos until the copy was made
    rd,         \* read_offset: the next block of the copy to look at
    wr,         \* write_offset: the leaf that was written last
    broken      \* observer: how many insertions a crash cut after the copy

CONSTANTS
    MaxBroken,  \* bound on them
    PagesAfter  \* the pages callers use after one: a bound, a subset of Pages

shiftVars   == <<copy, croot, wroot, rd, wr, broken>>
disorderVars == <<vars, shiftVars>>

NoCopy == [p \in Pos |-> ZeroBlock]
Forget == copy' = NoCopy /\ croot' = NoPos /\ wroot' = NoPos /\ rd' = NoPos /\ wr' = NoPos

(* The separators send no search behind the first padding leaf.            *)
PagesLeft(f, n) ==
    \A p \in 1 .. n : f[p].lvl > 0 /\ f[p].pn < NoPage =>
        \A x \in 1 .. p + f[p].lcos : f[x].lvl = 0 => ~f[x].isn

(* A separator is the page of the last leaf on its left, and a leaf        *)
(* without a page is marked as padding.                                    *)
LastLeaf(f, p, z) == z \in 1 .. p /\ f[z].lvl = 0 /\ \A u \in z + 1 .. p : f[u].lvl > 0

Separated(f, n) ==
    /\ \A a, z \in 1 .. n :
          f[a].lvl > 0 /\ LastLeaf(f, a + f[a].lcos, z) => f[a].pn = f[z].pn
    /\ \A x \in 1 .. n : f[x].lvl = 0 /\ f[x].pn = NoPage => f[x].isn

ShiftAssumption ==
    \A leaves \in InitLeaves :
        LET f == L!LayoutFile(leaves)
            n == L!LayoutHeader(leaves).rno
        IN  PagesLeft(f, n) /\ Separated(f, n)
ASSUME ShiftAssumption

Disorder == op.kind = "disorder"
Copied   == wroot # NoPos

DisorderInit ==
    /\ Init
    /\ copy = NoCopy /\ croot = NoPos /\ wroot = NoPos /\ rd = NoPos /\ wr = NoPos
    /\ broken = 0

(* A page to insert or, when the search finds it, to update.               *)
StartDisorder(args) ==
    /\ pc = "idle"
    /\ \A p \in Pos : Len(file[p].h) <= MaxHash
    /\ BeginSearch(args)
    /\ UNCHANGED <<queueVars, storeVars, shiftVars>>

(* The page exists: this is a call of updateMHTBlockHashByPageNo.          *)
BecomeUpdate ==
    /\ Found /\ ~Copied
    /\ BeginSearch([op EXCEPT !.kind = "update"])
    /\ UNCHANGED <<queueVars, storeVars, shiftVars>>

(* fo_copy_file.  The temporary file is not truncated, but nothing behind  *)
(* the copied root is read.                                                *)
CopyFile == copy' = file

(* The copy, then the header: extend the tree when no padding is left.     *)
MakeCopy ==
    /\ NotFound /\ ~Copied
    /\ CopyFile
    /\ croot' = hdr.rno /\ wroot' = hdr.rno
    /\ slot' = hdr.fslo
    /\ IF hdr.fslo # NoPos
       THEN pc' = "fill" /\ UNCHANGED <<q, wpos, glob>>
       ELSE /\ pc' = "extend" /\ q' = <<NodeOf(file, hdr.rno)>> /\ wpos' = hdr.rno
            /\ glob' = [glob EXCEPT !.rno = hdr.rno]
    /\ UNCHANGED <<file, hdr, op, cur, ret, stage, at, cbd, hlev, acked, cut, rd, wr, broken>>

(* extentTheMHT, which leaves the new root in a global and in the header;  *)
(* the caller writes the same header once more.                            *)
Extend ==
    /\ ExtensionStep
    /\ wroot' = IF pc' = "fill" THEN glob.rno ELSE wroot
    /\ UNCHANGED <<copy, croot, rd, wr, broken>>

(* The second search, whose result is the file pointer it leaves.          *)
SearchAgain ==
    /\ pc = "fill"
    /\ pc' = "search" /\ cur' = hdr.rno /\ ret' = NoPos
    /\ UNCHANGED <<file, hdr, op, queueVars, storeVars, shiftVars>>

PutLeaf(p, page, hash, isn) ==
    /\ file' = [file EXCEPT ![p] = [@ EXCEPT !.pn = page, !.h = hash, !.isn = isn]]
    /\ wr' = p /\ cur' = p
    /\ pc' = "path"

(* Faulty variant: the leaf keeps its ISN, too.                            *)
PutPageStillPad ==
    /\ AtLeaf /\ Copied
    /\ PutLeaf(cur, op.page, op.hash, Read(file, cur).isn)
    /\ rd' = cur
    /\ UNCHANGED <<hdr, op, ret, queueVars, storeVars, copy, croot, wroot, broken>>

(* The page takes the leaf the search ended on; IZN is left as it is.      *)
PutPage ==
    /\ AtLeaf /\ Copied
    /\ PutLeaf(cur, op.page, op.hash, FALSE)
    /\ rd' = cur
    /\ UNCHANGED <<hdr, op, ret, queueVars, storeVars, copy, croot, wroot, broken>>

BeginSeps ==
    /\ PathEnded
    /\ pc' = "seps" /\ cur' = wr
    /\ UNCHANGED <<file, hdr, op, ret, queueVars, storeVars, shiftVars>>

Separators == (SepsBegin \/ SepParent \/ SepLeft \/ SepRight) /\ UNCHANGED shiftVars

(* The first leaf of f from block p on, or root when there is none below.  *)
NextLeaf(f, p, root) ==
    CHOOSE x \in p .. root :
        /\ x = root \/ ~IsInterior(f, x)
        /\ \A y \in p .. x - 1 : IsInterior(f, y)

(* There is a leaf to write, and the next leaf of the copy holds a page.   *)
MoreToShift ==
    /\ wr + 1 < wroot /\ rd < croot
    /\ NextLeaf(file, wr + 1, wroot) < wroot
    /\ LET r == NextLeaf(copy, rd, croot) IN r < croot /\ ~copy[r].isn

(* Faulty variant: the page is read from the file that is being written.   *)
ShiftFromFile ==
    /\ pc = "sepsDone" /\ MoreToShift
    /\ LET r == NextLeaf(copy, rd, croot)
       IN  /\ PutLeaf(NextLeaf(file, wr + 1, wroot), file[r].pn, file[r].h, file[r].isn)
           /\ rd' = r + 1
    /\ UNCHANGED <<hdr, op, ret, queueVars, storeVars, copy, croot, wroot, broken>>

(* One turn of the shift: the next page of the copy goes to the next leaf. *)
Shift ==
    /\ pc = "sepsDone" /\ MoreToShift
    /\ LET r == NextLeaf(copy, rd, croot)
       IN  /\ PutLeaf(NextLeaf(file, wr + 1, wroot), copy[r].pn, copy[r].h, copy[r].isn)
           /\ rd' = r + 1
    /\ UNCHANGED <<hdr, op, ret, queueVars, storeVars, copy, croot, wroot, broken>>

ShiftEnds ==
    /\ pc = "sepsDone" /\ ~MoreToShift
    /\ BeginScan(slot)
    /\ pc' = "next"
    /\ UNCHANGED <<file, hdr, op, ret, queueVars, storeVars, shiftVars>>

(* The header is the last write; then the call returns 0.                  *)
DisorderReturns ==
    /\ pc = "next" /\ ScanEnded
    /\ hdr' = [NewHeader EXCEPT !.rno = wroot]
    /\ Return /\ Forget
    /\ acked' = [p \in DOMAIN acked \cup {op.page} |->
                    IF p = op.page THEN op.hash ELSE acked[p]]
    /\ cut' = cut \cap DOMAIN acked
    /\ UNCHANGED <<file, queueVars, broken>>

DisorderStep ==
    /\ Disorder
    /\ \/ (Search \/ Climb \/ ScanStep) /\ UNCHANGED shiftVars
       \/ BecomeUpdate \/ MakeCopy \/ Extend \/ SearchAgain
       \/ PutPage \/ BeginSeps \/ Separators \/ Shift \/ ShiftEnds \/ DisorderReturns

(* The process dies; the temporary file stays, and nobody looks at it.     *)
DisorderCrash ==
    /\ Disorder
    /\ broken' = IF Copied THEN broken + 1 ELSE broken
    /\ broken' <= MaxBroken
    /\ Dies({}) /\ Forget

(* searchPageByNo and verifyHashInMHT: search, then read the leaf's block; *)
(* nothing is written.                                                     *)
StartVerify(args) ==
    /\ pc = "idle"
    /\ BeginSearch(args)
    /\ UNCHANGED <<queueVars, storeVars, shiftVars>>

(* Faulty variant: any page that is found passes.                          *)
VerifiesAnyHash == Found

Verifies == Found /\ Read(file, ret).h = op.hash

VerifyReturns ==
    /\ AtLeaf /\ op.kind = "verify"
    /\ Return
    /\ UNCHANGED <<file, hdr, queueVars, acked, cut, shiftVars>>

OtherStep ==
    \/ ~Disorder /\ op.kind # "verify" /\ Step /\ UNCHANGED shiftVars
    \/ op.kind = "verify" /\ Search /\ UNCHANGED shiftVars
    \/ VerifyReturns
Update(args) == StartUpdate(args) /\ UNCHANGED shiftVars
Insert(args) == StartInsert(args) /\ UNCHANGED shiftVars
OtherCrash == ~Disorder /\ Crash /\ UNCHANGED shiftVars

Calls(kind) == {args \in Args(kind) : broken = 0 \/ args.page \in PagesAfter}

DisorderNext ==
    \/ \E args \in Calls("disorder") : StartDisorder(args)
    \/ \E args \in Calls("update") : Update(args)
    \/ \E args \in Calls("insert") : Insert(args)
    \/ \E args \in Calls("verify") : StartVerify(args)
    \/ DisorderStep \/ OtherStep
    \/ DisorderCrash \/ OtherCrash

(* The library is called synchronously: a running operation goes on.       *)
DisorderSpec ==
    DisorderInit /\ [][DisorderNext]_disorderVars /\ WF_disorderVars(DisorderStep \/ OtherStep)

-----------------------------------------------------------------------------
ShiftTypeOK ==
    /\ DiskTypeOK /\ QueueTypeOK
    /\ op.kind \in {"none", "insert", "update", "disorder", "verify"}
    /\ copy \in [Pos -> Block]
    /\ croot \in 0 .. MaxPos /\ wroot \in 0 .. MaxPos
    /\ rd \in 0 .. MaxPos + 1 /\ wr \in 0 .. MaxPos

(* The pages and hashes held by leaves of a file.                          *)
Held(f, from, root) ==
    {<<f[p].pn, f[p].h>> : p \in {x \in from .. root : ~IsInterior(f, x) /\ ~f[x].isn}}
Missing == {p \in DOMAIN acked : <<p, acked[p]>> \notin Held(file, 1, hdr.rno)}

(* No page is lost by a shift that runs to its end, and at most one by a   *)
(* shift that a crash cuts, whatever calls follow it: a reported page that *)
(* is in no leaf of the file is, without crashes, in a leaf of the copy    *)
(* that is still to be read, and there is one such page at a time (the     *)
(* loop at mhtfile.c:887).  A page that a call is at work on, or was when  *)
(* a crash cut it, is not counted.                                         *)
ShiftKeepsPages ==
    LET Away == Missing \ ({op.page} \cup cut)
    IN  /\ Cardinality(Away) <= broken + (IF Disorder THEN 1 ELSE 0)
        /\ broken = 0 => \A p \in Away : Copied /\ <<p, acked[p]>> \in Held(copy, rd, croot)

(* The state of the shift and what it holds, at any moment.                *)
ShiftInv == ShiftTypeOK /\ ShiftKeepsPages

(* verifyHashInMHT tells a page with its hash from every other page and    *)
(* hash, wherever insertions have moved the page.                          *)
VerifyTells ==
    op.kind = "verify" /\ AtLeaf /\ broken = 0 =>
        (Verifies <=> op.page \in DOMAIN acked /\ acked[op.page] = op.hash)

(* After an insertion anywhere the tree is a binary search tree again, as  *)
(* mhtfile.h:257 asks: when nothing runs, blocks and header are those of a *)
(* tree built at once from the same pages, but for the IZN mark.           *)
OtherThanZeroMark(b, c) == b = [c EXCEPT !.izn = b.izn]
SortedAsRebuilt ==
    pc = "idle" /\ cut = {} /\ broken = 0 =>
        LET leaves == AckedLeaves
            built  == L!LayoutFile(leaves)
        IN  /\ hdr = L!LayoutHeader(leaves)
            /\ \A p \in 1 .. hdr.rno : OtherThanZeroMark(file[p], built[p])

(* "Read the remaining node information from the auxiliary file, overwrite *)
(* and write back" (mhtfile.h:263): between calls no page is missing.      *)
RemainingWrittenBack == pc = "idle" /\ broken = 0 => Missing = {}

(* IZN tells "whether the node contains a hashed zero" (dbqueue.h:49).     *)
ZeroMarkTells ==
    pc = "idle" => \A p \in 1 .. hdr.rno : file[p].izn => file[p].h = ZeroHash
=============================================================================
