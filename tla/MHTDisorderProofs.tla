------------------------- MODULE MHTDisorderProofs --------------------------
(***************************************************************************)
(* Proofs about MHTDisorder, for every size of file, every set of pages    *)
(* and hashes and every file of more than one page: whatever calls run and *)
(* wherever crashes cut them, the shift of insertNewPageDisorder keeps all *)
(* reported pages but the one it is about to write, and a crash costs one  *)
(* page at most.                                                           *)
(*                                                                         *)
(* The tree below the root keeps its shape and its padding stays behind    *)
(* its pages.  While a copy exists, the pages are accounted for in the     *)
(* copy, and the file is related to it: leaf by leaf the same, or, while   *)
(* the shift runs, the same outside of the leaves written and moved on by  *)
(* one leaf inside.                                                        *)
(*                                                                         *)
(* While no crash has cut a call that writes, the pages are in order, too, *)
(* at every moment of a shift, and every search ends at the leaf of its    *)
(* page.                                                                   *)
(***************************************************************************)
EXTENDS MHTDisorder, MHTStoreProofs

(* The builder was given more than one page.                               *)
LeavesFork == \A leaves \in InitLeaves : L!LayoutHeader(leaves).rno > 1

-----------------------------------------------------------------------------
(* What the calls change: the leaves.                                      *)
SameLeaf(b, c) == b.pn = c.pn /\ b.h = c.h /\ b.isn = c.isn

SameLeaves(f, g, n) ==
    \A x \in 1 .. n : g[x].lvl = f[x].lvl /\ (f[x].lvl = 0 => SameLeaf(g[x], f[x]))

(* Padding is behind the leaf s and behind all other leaves, and every     *)
(* separator that is a page is behind pages.                               *)
InUse(f, x) == f[x].lvl = 0 => ~f[x].isn

PadsLast(f, n, s) ==
    /\ \A x \in 1 .. n : f[x].lvl = 0 /\ f[x].isn => f[x].pn = NoPage
    /\ \A x \in 1 .. n : x < s => InUse(f, x)
    /\ \A x, y \in 1 .. n : f[x].lvl = 0 /\ f[x].isn /\ x < y /\ f[y].lvl = 0 => f[y].isn

Formed(f, lo, h) ==
    /\ FileTree(f, lo, h.rno) /\ h.rno > 1
    /\ \A p \in 1 .. h.rno - 1 : f[p].pos > 0
    /\ h.fslo # NoPos => LeafAt(f, h.rno, h.fslo) /\ f[h.rno].rsvd = "root"
    /\ PadsLast(f, h.rno, FirstOpen(h))
    /\ PagesLeft(f, h.rno)

Shifting == pc \in {"path", "seps", "sepParent", "sepLeft", "sepRight", "sepsDone", "next"}

(* The shift began at leaf y, and wr is the leaf written last: the page of *)
(* wr in the copy is the one to be written next.                           *)
Neighbours(f, x, z) ==
    f[x].lvl = 0 /\ f[z].lvl = 0 /\ x < z /\ \A u \in x + 1 .. z - 1 : f[u].lvl > 0

ShiftAt(y) ==
    /\ LeafAt(file, hdr.rno, y) /\ LeafAt(file, hdr.rno, wr) /\ y <= wr
    /\ file[y].pn = op.page /\ file[y].h = op.hash /\ ~file[y].isn /\ ~file[wr].isn
    /\ \A x \in 1 .. croot : file[x].lvl = 0 /\ (x < y \/ x > wr) => SameLeaf(file[x], copy[x])
    /\ \A x, z \in 1 .. hdr.rno :
          Neighbours(file, x, z) /\ y <= x /\ z <= wr => x <= croot /\ SameLeaf(file[z], copy[x])
    /\ \A x \in 1 .. y - 1 : file[x].lvl = 0 => x <= croot
    /\ rd \in 1 .. wr /\ \A x \in rd .. wr - 1 : x <= croot => copy[x].lvl > 0

CopyInv ==
    Copied =>
        /\ Disorder
        /\ croot \in 1 .. hdr.rno /\ copy[croot].lvl > 0
        /\ croot = hdr.rno \/ hdr.fslo = croot + 1
        /\ \A x \in 1 .. croot : copy[x].lvl = file[x].lvl /\ (x < FirstOpen(hdr) => InUse(copy, x))
        /\ \A x \in croot + 1 .. hdr.rno : file[x].lvl = 0 /\ (Shifting => x > wr) => file[x].isn
        /\ IF Shifting THEN \E y \in 1 .. wr : ShiftAt(y) ELSE SameLeaves(copy, file, croot)

(* The account of the pages reported: but for the pages of W, which broken *)
(* shifts lost, and of E, each is in a leaf of f before the leaf s.        *)
HoldsPage(f, x, s, p) ==
    f[x].lvl = 0 /\ x < s /\ ~f[x].isn /\ f[x].pn = p /\ f[x].h = acked[p]

Account(f, r, s, W, E) ==
    /\ \A x \in 1 .. r : f[x].lvl = 0 /\ x >= s /\ f[x].pn \in Known => f[x].pn \in W
    /\ \A p \in Known \ (W \cup E) : \E x \in 1 .. r : HoldsPage(f, x, s, p)

Source     == IF Copied THEN copy ELSE file
SourceRoot == IF Copied THEN croot ELSE hdr.rno
Exempt     == cut \cup (IF pc = "path" /\ op.kind = "update" THEN {op.page} ELSE {})

Ledger ==
    \E W : /\ IsFiniteSet(W) /\ Cardinality(W) <= broken
           /\ Account(Source, SourceRoot, FirstOpen(hdr), W, Exempt)

-----------------------------------------------------------------------------
(* Where the calls are.                                                    *)
KindsAt ==
    /\ pc = "idle" => op = NoOp
    /\ pc # "idle" => op.page \in Pages
    /\ pc = "search" => op.kind \in {"update", "disorder", "verify"}
    /\ pc = "path" => op.kind \in {"update", "insert", "disorder"}
    /\ pc \notin {"idle", "search", "path"} => op.kind \in {"insert", "disorder"}
    /\ op.kind = "insert" => op.page \notin Known
    /\ Disorder /\ pc # "search" => Copied

SearchAt(lo) ==
    pc = "search" =>
        /\ cur \in 1 .. hdr.rno /\ ret \in {NoPos, cur}
        /\ \A x \in 1 .. lo[cur] - 1 : InUse(file, x)

PathAt ==
    pc = "path" =>
        /\ cur \in Int /\ cur >= 1
        /\ op.kind = "update" => /\ LeafAt(file, hdr.rno, ret)
                                 /\ file[ret].pn = op.page /\ file[ret].h = op.hash

(* The insertion behind the last page, and that in page order from its     *)
(* second search on, work on the tree the header names.                    *)
Working == \/ pc \in {"fill", "seps", "sepParent", "sepLeft", "sepRight", "sepsDone", "next"}
           \/ pc = "path" /\ op.kind # "update"
           \/ pc = "search" /\ Copied

SlotAt ==
    Working =>
        /\ slot = hdr.fslo /\ slot # NoPos
        /\ IF Disorder THEN wroot = hdr.rno ELSE glob.rno = hdr.rno
        /\ ~Disorder /\ pc # "fill" =>
              file[slot].pn = op.page /\ file[slot].h = op.hash /\ ~file[slot].isn

SepsAt ==
    /\ pc = "seps" => cur \in 1 .. hdr.rno - 1
    /\ pc \in {"sepParent", "sepLeft", "sepRight"} => cur \in 1 .. hdr.rno /\ file[cur].lvl > 0

NextAt ==
    pc = "next" =>
        /\ cur \in slot .. hdr.rno /\ \A x \in slot .. cur - 1 : InUse(file, x)
        /\ Disorder => wr >= slot

(* The extension puts the page of the last leaf above the old root.        *)
EndPages == {file[z].pn : z \in {y \in 1 .. hdr.rno : LastLeaf(file, hdr.rno, y)}}

GrowAt(lo) ==
    /\ pc \in {"extend", "scan", "rescan"} =>
          hdr.fslo = NoPos /\ (Copied => croot = hdr.rno /\ wroot = hdr.rno)
    /\ pc = "extend" => ExtendAt(lo, EndPages)
    /\ pc \in {"scan", "rescan"} =>
          /\ NewTree(lo, EndPages)
          /\ cur \in {hdr.rno, hdr.rno + 1} /\ (pc = "rescan" => cur = hdr.rno + 1)

CallAt(lo) ==
    /\ KindsAt /\ SearchAt(lo) /\ PathAt /\ SlotAt /\ SepsAt /\ NextAt /\ GrowAt(lo) /\ AtRest

WorldType ==
    /\ DiskTypeOK /\ QueueTypeOK
    /\ copy \in [Pos -> Block]
    /\ croot \in 0 .. MaxPos /\ wroot \in 0 .. MaxPos
    /\ rd \in 0 .. MaxPos + 1 /\ wr \in 0 .. MaxPos
    /\ Known \subseteq Pages /\ broken \in Nat

CallType ==
    /\ pc \in {"idle", "search", "path", "extend", "scan", "rescan", "fill",
               "seps", "sepParent", "sepLeft", "sepRight", "sepsDone", "next"}
    /\ op \in [kind : {"none", "insert", "update", "disorder", "verify"}, page : Nat, hash : Hash]
    /\ cur \in Int /\ ret \in 0 .. MaxPos /\ slot \in {Nowhere} \cup 0 .. MaxPos

ShiftType == WorldType /\ CallType

BaseAt(lo) == Formed(file, lo, hdr) /\ Offsets /\ CopyInv /\ Ledger

DInvAt(lo) == BaseAt(lo) /\ CallAt(lo)

DInv == ShiftType /\ \E lo : DInvAt(lo)

-----------------------------------------------------------------------------
(* Facts that the proofs of the actions share.                             *)
LEMMA ShiftFacts ==
    ASSUME ShiftType
    PROVE  /\ file \in [Pos -> Block] /\ hdr \in Header /\ glob \in Globals /\ QueueTypeOK
           /\ hdr.rno \in 0 .. MaxPos /\ hdr.fslo \in 0 .. MaxPos /\ glob.rno \in 0 .. MaxPos
           /\ copy \in [Pos -> Block]
           /\ croot \in Nat /\ wroot \in Nat /\ rd \in Nat /\ wr \in Nat
           /\ croot \in 0 .. MaxPos /\ wroot \in 0 .. MaxPos /\ wr \in 0 .. MaxPos
           /\ op \in [kind : {"none", "insert", "update", "disorder", "verify"},
                      page : Nat, hash : Hash]
           /\ op.page \in Nat /\ op.hash \in Hash /\ cur \in Int /\ ret \in 0 .. MaxPos
           /\ slot \in {Nowhere} \cup 0 .. MaxPos /\ broken \in Nat
           /\ Known \subseteq Pages /\ \A p \in Pages : p \in Nat /\ p < NoPage
  BY StoreAssumption, DiskAssumption
     DEF ShiftType, WorldType, CallType, DiskTypeOK, QueueTypeOK, Header, Globals, StoreAssumption

LEMMA FormedFacts ==
    ASSUME NEW f \in [Pos -> Block], NEW lo, NEW h \in Header, Formed(f, lo, h)
    PROVE  /\ h.rno \in Nat /\ h.rno > 1 /\ h.rno \in Pos /\ 1 .. h.rno \subseteq Pos
           /\ h.rno \in 1 .. h.rno /\ f[h.rno].lvl > 0 /\ h.rno <= MaxPos
           /\ FirstOpen(h) \in 1 .. h.rno + 1
           /\ h.fslo # NoPos =>
                 /\ h.fslo \in 1 .. h.rno - 1 /\ h.fslo \in 1 .. h.rno /\ FirstOpen(h) = h.fslo
                 /\ f[h.fslo].lvl = 0 /\ f[h.rno].rsvd = "root"
           /\ h.fslo = NoPos => FirstOpen(h) = h.rno + 1
           /\ \A x \in 1 .. h.rno - 1 : f[x].rsvd = "R" /\ f[x].pos > 0
           /\ \A x \in 1 .. h.rno : /\ f[x].lvl \in Nat /\ f[x].pn \in Nat /\ f[x].lcos \in Int
                                    /\ f[x].isn \in BOOLEAN /\ f[x].pos \in Nat
                                    /\ f[x].lvl = 0 => x < h.rno
<1>1. h.rno \in Pos /\ lo[h.rno] = 1 /\ h.rno > 1
  BY DEF Formed, FileTree
<1>2. h.rno \in Nat /\ 1 .. h.rno \subseteq Pos /\ h.rno \in 1 .. h.rno /\ h.rno <= MaxPos
  BY <1>1, PosFacts DEF Pos
<1>3. \A x \in 1 .. h.rno : /\ f[x].lvl \in Nat /\ f[x].pn \in Nat /\ f[x].lcos \in Int
                            /\ f[x].isn \in BOOLEAN /\ f[x].pos \in Nat
  <2>1. ASSUME NEW x \in 1 .. h.rno PROVE f[x].pos \in Nat
    BY <2>1 DEF Formed, FileTree, UpAt
  <2>2. QED
    BY <1>2, <2>1, BlockTypes
<1>4. f[h.rno].lvl > 0
  <2>1. TreeAt(f, lo, h.rno)
    BY <1>2 DEF Formed, FileTree
  <2>2. f[h.rno].lvl # 0
    BY <1>1, <2>1 DEF TreeAt
  <2>3. QED
    BY <1>2, <1>3, <2>2
<1>5. h.fslo # NoPos => /\ h.fslo \in 1 .. h.rno - 1 /\ h.fslo \in 1 .. h.rno
                        /\ f[h.fslo].lvl = 0 /\ f[h.rno].rsvd = "root"
  BY <1>2, <1>4 DEF Formed, LeafAt
<1>6. \A x \in 1 .. h.rno - 1 : f[x].rsvd = "R" /\ f[x].pos > 0
  BY DEF Formed, FileTree
<1>7. \A x \in 1 .. h.rno : f[x].lvl = 0 => x < h.rno
  BY <1>2, <1>4
<1>8. /\ FirstOpen(h) \in 1 .. h.rno + 1
      /\ h.fslo # NoPos => FirstOpen(h) = h.fslo
      /\ h.fslo = NoPos => FirstOpen(h) = h.rno + 1
  BY <1>2, <1>5 DEF FirstOpen
<1>9. QED
  BY <1>1, <1>2, <1>3, <1>4, <1>5, <1>6, <1>7, <1>8

(* The parent of a block below the root and the children of an interior    *)
(* block are in the tree.                                                  *)
LEMMA ParentIn ==
    ASSUME NEW f \in [Pos -> Block], NEW lo, NEW h \in Header, Formed(f, lo, h),
           NEW p \in 1 .. h.rno - 1
    PROVE  /\ p \in Pos /\ Parent(f, p) \in p + 1 .. h.rno /\ Parent(f, p) \in 1 .. h.rno
           /\ f[Parent(f, p)].lvl > 0 /\ Climbs(f, p)
<1>1. /\ h.rno \in Nat /\ 1 .. h.rno \subseteq Pos
      /\ f[p].rsvd = "R" /\ f[p].pos > 0 /\ f[p].pos \in Nat
  BY FormedFacts
<1>2. p \in 1 .. h.rno /\ p \in Pos /\ Read(f, p) = f[p]
  BY <1>1 DEF Read
<1>3. UpAt(f, h.rno, p)
  BY <1>2 DEF Formed, FileTree
<1>4. QED
  BY <1>1, <1>2, <1>3 DEF UpAt, Parent, Climbs

LEMMA ChildrenIn ==
    ASSUME NEW f \in [Pos -> Block], NEW lo, NEW h \in Header, Formed(f, lo, h),
           NEW p \in 1 .. h.rno, f[p].lvl > 0
    PROVE  /\ p \in Pos
           /\ Lchild(f, p) = p + f[p].lcos /\ Lchild(f, p) \in 1 .. p - 2 /\ Lchild(f, p) \in 1 .. h.rno
           /\ Rchild(f, p) = p - 1 /\ Rchild(f, p) \in 1 .. h.rno
           /\ lo[p] = lo[Lchild(f, p)] /\ lo[Rchild(f, p)] = Lchild(f, p) + 1
<1>1. h.rno \in Nat /\ 1 .. h.rno \subseteq Pos /\ f[p].lcos \in Int
  BY FormedFacts
<1>2. p \in Pos /\ Read(f, p) = f[p]
  BY <1>1 DEF Read
<1>3. TreeAt(f, lo, p)
  BY DEF Formed, FileTree
<1>4. /\ p + f[p].lcos \in 1 .. p - 2 /\ f[p].rcos = -1
      /\ lo[p] = lo[p + f[p].lcos] /\ lo[p - 1] = p + f[p].lcos + 1
  BY <1>3 DEF TreeAt
<1>5. QED
  BY <1>1, <1>2, <1>4 DEF Lchild, Rchild

(* A leaf that comes into use has no padding before it, a separator that   *)
(* becomes a page has none on its left.                                    *)
FillsUp(f, g, n) ==
    /\ \A x \in 1 .. n : f[x].lvl = 0 =>
          /\ g[x].isn => f[x].isn /\ g[x].pn = NoPage
          /\ f[x].isn /\ ~g[x].isn => \A u \in 1 .. x - 1 : InUse(f, u)
    /\ \A p \in 1 .. n : f[p].lvl > 0 /\ g[p].pn < NoPage =>
          f[p].pn < NoPage \/ \A x \in 1 .. p + f[p].lcos : InUse(f, x)

(* A write that keeps levels and links and puts no page behind padding     *)
(* keeps the shape of the file.                                            *)
LEMMA FormedFrame ==
    ASSUME NEW f \in [Pos -> Block], NEW g \in [Pos -> Block], NEW lo, NEW h \in Header,
           Formed(f, lo, h), KeepsLinks(f, g, h.rno),
           h.fslo # NoPos => g[h.rno].rsvd = f[h.rno].rsvd, FillsUp(f, g, h.rno)
    PROVE  Formed(g, lo, h)
<1> DEFINE n == h.rno
           s == FirstOpen(h)
<1>1. /\ n \in Nat /\ n > 1 /\ 1 .. n \subseteq Pos /\ n \in 1 .. n
      /\ \A x \in 1 .. n : f[x].lvl \in Nat /\ f[x].lcos \in Int
  BY FormedFacts
<1>2. \A x \in 1 .. n : g[x].lvl = f[x].lvl /\ g[x].lcos = f[x].lcos
  BY DEF KeepsLinks
<1>3. FileTree(g, lo, n)
  <2>1. FileTree(f, lo, n)
    BY DEF Formed
  <2>2. \A p \in 1 .. n : lo[p] = lo[p]
    OBVIOUS
  <2>3. QED
    BY <2>1, <2>2, TreeFrame
<1>4. \A p \in 1 .. n - 1 : g[p].pos > 0
  BY DEF Formed, KeepsLinks
<1>5. h.fslo # NoPos => LeafAt(g, n, h.fslo) /\ g[n].rsvd = "root"
  BY <1>2 DEF Formed, LeafAt
<1>6. ASSUME NEW x \in 1 .. n, InUse(f, x) PROVE InUse(g, x)
  BY <1>2, <1>6 DEF InUse, FillsUp
<1>7. PadsLast(g, n, s)
  <2>1. \A x \in 1 .. n : g[x].lvl = 0 /\ g[x].isn => g[x].pn = NoPage
    BY <1>2 DEF FillsUp
  <2>2. \A x \in 1 .. n : x < s => InUse(g, x)
    BY <1>6 DEF Formed, PadsLast
  <2>3. ASSUME NEW x \in 1 .. n, NEW y \in 1 .. n,
               g[x].lvl = 0, g[x].isn, x < y, g[y].lvl = 0, ~g[y].isn
        PROVE  FALSE
    <3>1. f[x].lvl = 0 /\ f[x].isn /\ f[y].lvl = 0
      BY <1>2, <2>3 DEF FillsUp
    <3>2. f[y].isn
      BY <2>3, <3>1 DEF Formed, PadsLast
    <3>3. x \in 1 .. y - 1
      BY <1>1, <2>3
    <3>4. InUse(f, x)
      BY <2>3, <3>1, <3>2, <3>3 DEF FillsUp
    <3>5. QED
      BY <3>1, <3>4 DEF InUse
  <2>4. QED
    BY <2>1, <2>2, <2>3 DEF PadsLast
<1>8. PagesLeft(g, n)
  <2>1. SUFFICES ASSUME NEW p \in 1 .. n, g[p].lvl > 0, g[p].pn < NoPage,
                        NEW x \in 1 .. p + g[p].lcos
                 PROVE  InUse(g, x)
    BY DEF PagesLeft, InUse
  <2>2. f[p].lvl > 0 /\ x \in 1 .. p + f[p].lcos
    BY <1>2, <2>1
  <2>3. InUse(f, x)
    BY <2>1, <2>2 DEF FillsUp, Formed, PagesLeft, InUse
  <2>4. x \in 1 .. n
    <3>1. TreeAt(f, lo, p)
      BY DEF Formed, FileTree
    <3>2. p + f[p].lcos \in 1 .. p - 2
      BY <2>2, <3>1 DEF TreeAt
    <3>3. QED
      BY <1>1, <2>2, <3>2
  <2>5. QED
    BY <1>6, <2>3, <2>4
<1>9. QED
  BY <1>1, <1>3, <1>4, <1>5, <1>7, <1>8 DEF Formed

(* Steps that leave the leaves as they are.                                *)
LEMMA FormedQuiet ==
    ASSUME NEW f \in [Pos -> Block], NEW g \in [Pos -> Block], NEW lo, NEW h \in Header,
           Formed(f, lo, h), SameLeaves(f, g, h.rno), KeepsLinks(f, g, h.rno),
           h.fslo # NoPos => g[h.rno].rsvd = f[h.rno].rsvd,
           \A p \in 1 .. h.rno : f[p].lvl > 0 => g[p].pn = f[p].pn
    PROVE  Formed(g, lo, h)
<1>1. FillsUp(f, g, h.rno)
  BY DEF FillsUp, SameLeaves, SameLeaf, Formed, PadsLast
<1>2. QED
  BY <1>1, FormedFrame

LEMMA CopyQuiet ==
    ASSUME ShiftType, NEW lo, Formed(file, lo, hdr), CopyInv,
           SameLeaves(file, file', hdr.rno), UNCHANGED <<hdr, copy, croot, wroot, wr, rd>>,
           Copied => op' = op /\ (Shifting' <=> Shifting)
    PROVE  CopyInv'
<1>1. SUFFICES ASSUME Copied PROVE CopyInv'
  BY DEF CopyInv, Copied
<1> DEFINE n == hdr.rno
<1>2. /\ Disorder /\ croot \in 1 .. n /\ copy[croot].lvl > 0
      /\ croot = n \/ hdr.fslo = croot + 1
      /\ \A x \in 1 .. croot : copy[x].lvl = file[x].lvl /\ (x < FirstOpen(hdr) => InUse(copy, x))
      /\ \A x \in croot + 1 .. n : file[x].lvl = 0 /\ (Shifting => x > wr) => file[x].isn
      /\ IF Shifting THEN \E y \in 1 .. wr : ShiftAt(y) ELSE SameLeaves(copy, file, croot)
  BY <1>1 DEF CopyInv
<1>3. n \in Nat /\ croot \in Nat /\ 1 .. croot \subseteq 1 .. n /\ wr \in Nat
  BY <1>2, FormedFacts, ShiftFacts
<1>4. \A x \in 1 .. n : file'[x].lvl = file[x].lvl /\ (file[x].lvl = 0 => SameLeaf(file'[x], file[x]))
  BY DEF SameLeaves
<1>5. Disorder'
  BY <1>1, <1>2 DEF Disorder
<1>6. ASSUME Shifting, NEW y \in 1 .. wr, ShiftAt(y) PROVE ShiftAt(y)'
  <2>1. LeafAt(file, n, y) /\ LeafAt(file, n, wr)
    BY <1>6 DEF ShiftAt
  <2>2. LeafAt(file', n, y) /\ LeafAt(file', n, wr)
    BY <1>4, <2>1 DEF LeafAt
  <2>3. SameLeaf(file'[y], file[y]) /\ SameLeaf(file'[wr], file[wr])
    BY <1>4, <2>1 DEF LeafAt
  <2>4. file'[y].pn = op.page /\ file'[y].h = op.hash /\ ~file'[y].isn /\ ~file'[wr].isn
    BY <1>6, <2>3 DEF ShiftAt, SameLeaf
  <2>5. \A x \in 1 .. croot : file'[x].lvl = 0 /\ (x < y \/ x > wr) => SameLeaf(file'[x], copy[x])
    BY <1>3, <1>4, <1>6 DEF ShiftAt, SameLeaf
  <2>6. ASSUME NEW x \in 1 .. n, NEW z \in 1 .. n, Neighbours(file', x, z), y <= x, z <= wr
        PROVE  x <= croot /\ SameLeaf(file'[z], copy[x])
    <3>1. Neighbours(file, x, z)
      <4>1. \A u \in x + 1 .. z - 1 : u \in 1 .. n
        BY <1>3
      <4>2. QED
        BY <1>4, <2>6, <4>1 DEF Neighbours
    <3>2. x <= croot /\ SameLeaf(file[z], copy[x])
      BY <1>6, <2>6, <3>1 DEF ShiftAt
    <3>3. SameLeaf(file'[z], file[z])
      BY <1>4, <3>1 DEF Neighbours
    <3>4. QED
      BY <3>2, <3>3 DEF SameLeaf
  <2>7. rd \in 1 .. wr /\ \A x \in rd .. wr - 1 : x <= croot => copy[x].lvl > 0
    BY <1>6 DEF ShiftAt
  <2>8. y <= wr
    BY <1>6 DEF ShiftAt
  <2>9. UNCHANGED <<hdr, copy, croot, wr, rd, op>>
    BY <1>1
  <2>10. \A x \in 1 .. y - 1 : file'[x].lvl = 0 => x <= croot
    BY <1>3, <1>4, <1>6, <2>1 DEF ShiftAt, LeafAt
  <2>11. QED
    BY <2>2, <2>4, <2>5, <2>6, <2>7, <2>8, <2>9, <2>10 DEF ShiftAt
<1>7. ~Shifting => SameLeaves(copy, file', croot)
  BY <1>2, <1>3, <1>4 DEF SameLeaves, SameLeaf
<1>8. IF Shifting' THEN \E y \in 1 .. wr' : ShiftAt(y)' ELSE SameLeaves(copy', file', croot')
  <2>1. CASE Shifting
    BY <1>1, <1>2, <1>6, <2>1
  <2>2. CASE ~Shifting
    BY <1>1, <1>7, <2>2
  <2>3. QED
    BY <2>1, <2>2
<1>9. \A x \in 1 .. croot : copy[x].lvl = file'[x].lvl /\ (x < FirstOpen(hdr) => InUse(copy, x))
  BY <1>2, <1>3, <1>4
<1>10. \A x \in croot + 1 .. n : file'[x].lvl = 0 /\ (Shifting => x > wr) => file'[x].isn
  BY <1>2, <1>3, <1>4 DEF SameLeaf
<1>11. QED
  BY <1>1, <1>2, <1>5, <1>8, <1>9, <1>10 DEF CopyInv

LEMMA AccountQuiet ==
    ASSUME NEW f, NEW g, NEW r, NEW s, NEW W, NEW E, NEW E2,
           Account(f, r, s, W, E), SameLeaves(f, g, r), acked' = acked, E \subseteq E2
    PROVE  Account(g, r, s, W, E2)'
  BY DEF Account, SameLeaves, SameLeaf, HoldsPage, Known

(* While leaves and reported pages stay, so does the account of the pages. *)
LEMMA LedgerFrame ==
    ASSUME Ledger, SameLeaves(Source, Source', SourceRoot), SourceRoot' = SourceRoot,
           FirstOpen(hdr') = FirstOpen(hdr), UNCHANGED <<acked, broken>>, Exempt \subseteq Exempt'
    PROVE  Ledger'
<1>1. PICK W : /\ IsFiniteSet(W) /\ Cardinality(W) <= broken
               /\ Account(Source, SourceRoot, FirstOpen(hdr), W, Exempt)
  BY DEF Ledger
<1>2. PICK f, g, r, s, E, E2 : /\ f = Source /\ g = Source' /\ r = SourceRoot
                                /\ s = FirstOpen(hdr) /\ E = Exempt /\ E2 = Exempt'
  OBVIOUS
<1>3. Account(g, r, s, W, E2)'
  <2>1. Account(f, r, s, W, E) /\ SameLeaves(f, g, r) /\ E \subseteq E2
    BY <1>1, <1>2
  <2>2. QED
    BY <2>1, AccountQuiet
<1>4. Account(Source, SourceRoot, FirstOpen(hdr), W, Exempt)'
  <2>1. g = Source' /\ r = SourceRoot' /\ s = FirstOpen(hdr)' /\ E2 = Exempt'
    BY <1>2
  <2>2. QED
    BY <1>3, <2>1
<1>5. QED
  BY <1>1, <1>4 DEF Ledger

(* The same for the steps that move neither the header nor the copy.       *)
LEMMA LedgerQuiet ==
    ASSUME ShiftType, NEW lo, Formed(file, lo, hdr), Ledger,
           SameLeaves(file, file', hdr.rno),
           UNCHANGED <<hdr, copy, croot, wroot, acked, broken>>, Exempt \subseteq Exempt'
    PROVE  Ledger'
<1>1. SameLeaves(Source, Source', SourceRoot)
  <2>1. CASE Copied
    BY <2>1 DEF Source, SourceRoot, Copied, SameLeaves, SameLeaf
  <2>2. CASE ~Copied
    BY <2>2 DEF Source, SourceRoot, Copied
  <2>3. QED
    BY <2>1, <2>2
<1>2. SourceRoot' = SourceRoot
  BY DEF SourceRoot, Copied
<1>3. FirstOpen(hdr') = FirstOpen(hdr)
  OBVIOUS
<1>4. QED
  BY <1>1, <1>2, <1>3, LedgerFrame

LEMMA WorldSame ==
    ASSUME ShiftType, DiskTypeOK', QueueTypeOK', UNCHANGED <<shiftVars, acked>>
    PROVE  WorldType'
  BY DEF ShiftType, WorldType, shiftVars, Known

LEMMA WorldStill ==
    ASSUME ShiftType, UNCHANGED <<file, hdr, queueVars, acked, shiftVars>>
    PROVE  WorldType'
<1>1. DiskTypeOK'
  BY DEF ShiftType, WorldType, DiskTypeOK
<1>2. QueueTypeOK'
  BY QueueSame DEF ShiftType, WorldType
<1>3. QED
  BY <1>1, <1>2, WorldSame

LEMMA BaseQuiet ==
    ASSUME ShiftType, NEW lo, BaseAt(lo), file' \in [Pos -> Block], Offsets',
           SameLeaves(file, file', hdr.rno), KeepsLinks(file, file', hdr.rno),
           file'[hdr.rno].rsvd = file[hdr.rno].rsvd,
           \A p \in 1 .. hdr.rno : file[p].lvl > 0 => file'[p].pn = file[p].pn,
           UNCHANGED <<hdr, copy, croot, wroot, wr, rd, acked, broken>>,
           Copied => op' = op /\ (Shifting' <=> Shifting), Exempt \subseteq Exempt'
    PROVE  BaseAt(lo)'
<1>1. Formed(file, lo, hdr) /\ CopyInv /\ Ledger /\ file \in [Pos -> Block] /\ hdr \in Header
  BY ShiftFacts DEF BaseAt
<1>2. Formed(file', lo, hdr)
  BY <1>1, FormedQuiet
<1>3. CopyInv'
  BY <1>1, CopyQuiet
<1>4. Ledger'
  BY <1>1, LedgerQuiet
<1>5. QED
  BY <1>2, <1>3, <1>4 DEF BaseAt

LEMMA SameFile ==
    ASSUME ShiftType, NEW lo, Formed(file, lo, hdr), UNCHANGED <<file, hdr>>
    PROVE  /\ SameLeaves(file, file', hdr.rno) /\ KeepsLinks(file, file', hdr.rno)
           /\ DiskTypeOK'
<1>1. file[hdr.rno].pos \in Nat
  BY ShiftFacts, FormedFacts
<1>2. QED
  BY <1>1 DEF SameLeaves, SameLeaf, KeepsLinks, ShiftType, WorldType, DiskTypeOK

LEMMA BaseStill ==
    ASSUME ShiftType, NEW lo, BaseAt(lo),
           UNCHANGED <<file, hdr, copy, croot, wroot, wr, rd, acked, broken>>,
           Copied => op' = op /\ (Shifting' <=> Shifting), Exempt \subseteq Exempt'
    PROVE  BaseAt(lo)'
<1>1. Formed(file, lo, hdr) /\ Offsets /\ file' \in [Pos -> Block]
  BY ShiftFacts DEF BaseAt
<1>2. SameLeaves(file, file', hdr.rno) /\ KeepsLinks(file, file', hdr.rno)
  BY <1>1, SameFile
<1>3. Offsets'
  BY <1>1 DEF Offsets
<1>4. QED
  BY <1>1, <1>2, <1>3, BaseQuiet

(* The call is over.                                                       *)
LEMMA CallOver ==
    ASSUME NEW lo, Return, stage' = "idle", cbd' = 0, hlev' = NoPad
    PROVE  CallType' /\ CallAt(lo)'
<1>1. /\ pc' = "idle" /\ op' = NoOp /\ cur' = 0 /\ ret' = 0 /\ slot' = 0
      /\ op'.kind = "none" /\ op'.page = 0 /\ op'.hash \in Hash
  BY DEF Return, NoOp, NoPos, NullHash, Hash, Byte
<1>2. CallType'
  BY <1>1, DiskAssumption DEF CallType, NoOp, NullHash, Hash, Byte
<1>3. CallAt(lo)'
  BY <1>1 DEF CallAt, KindsAt, SearchAt, PathAt, Working, SlotAt, SepsAt, NextAt, GrowAt, AtRest,
              Disorder
<1>4. QED
  BY <1>2, <1>3

LEMMA IdleNoCopy ==
    ASSUME NEW lo, DInvAt(lo), op.kind # "disorder"
    PROVE  ~Copied
  BY DEF DInvAt, BaseAt, CopyInv, Disorder

-----------------------------------------------------------------------------
(* One lemma per action.  A search begins at the root.                     *)
LEMMA BeginInv ==
    ASSUME ShiftType, NEW lo, DInvAt(lo), pc \in {"idle", "search"}, ~Copied,
           NEW args, args = op', BeginSearch(args),
           args \in [kind : {"update", "disorder", "verify"}, page : Pages, hash : Hash],
           UNCHANGED <<queueVars, storeVars, shiftVars>>
    PROVE  ShiftType' /\ DInvAt(lo)'
<1>1. /\ pc' = "search" /\ op' = args /\ cur' = hdr.rno /\ ret' = NoPos
      /\ UNCHANGED <<file, hdr, slot, acked, cut, stage, cbd, hlev,
                     copy, croot, wroot, rd, wr, broken>>
  BY DEF BeginSearch, storeVars, shiftVars, queueVars
<1>2. args.kind \in {"update", "disorder", "verify"} /\ args.page \in Pages
  OBVIOUS
<1>3. hdr.rno \in Int /\ hdr.rno \in 1 .. hdr.rno /\ lo[hdr.rno] = 1
  BY ShiftFacts, FormedFacts DEF DInvAt, BaseAt, Formed, FileTree
<1>4. CallType'
  <2>1. args \in [kind : {"none", "insert", "update", "disorder", "verify"}, page : Nat, hash : Hash]
    BY StoreAssumption DEF StoreAssumption
  <2>2. 0 \in 0 .. MaxPos
    BY DiskAssumption
  <2>3. QED
    BY <1>1, <1>3, <2>1, <2>2 DEF ShiftType, CallType, NoPos
<1>5. WorldType'
  BY <1>1, WorldStill
<1>6. ~Copied'
  BY <1>1 DEF Copied
<1>7. Exempt \subseteq Exempt'
  BY <1>1 DEF Exempt
<1>8. BaseAt(lo)'
  BY <1>1, <1>7, BaseStill DEF DInvAt
<1>9. stage' = "idle" /\ cbd' = 0 /\ hlev' = NoPad
  BY <1>1 DEF DInvAt, CallAt, AtRest
<1>10. SearchAt(lo)'
  BY <1>1, <1>3 DEF SearchAt
<1>11. KindsAt'
  BY <1>1, <1>2 DEF KindsAt, Disorder
<1>12. CallAt(lo)'
  BY <1>1, <1>6, <1>9, <1>10, <1>11
     DEF CallAt, PathAt, Working, SlotAt, SepsAt, NextAt, GrowAt, AtRest
<1>13. QED
  BY <1>4, <1>5, <1>8, <1>12 DEF ShiftType, DInvAt

LEMMA SearchDownInv ==
    ASSUME ShiftType, NEW lo, DInvAt(lo), Search, UNCHANGED shiftVars
    PROVE  ShiftType' /\ DInvAt(lo)'
<1>1. /\ pc = "search" /\ IsInterior(file, cur)
      /\ cur' = IF op.page <= Read(file, cur).pn THEN Lchild(file, cur) ELSE Rchild(file, cur)
      /\ ret' = cur'
      /\ UNCHANGED <<file, hdr, pc, op, queueVars, storeVars, shiftVars>>
  BY DEF Search, SearchStep
<1>2. UNCHANGED <<slot, acked, cut, stage, cbd, hlev, glob, copy, croot, wroot, rd, wr, broken>>
  BY <1>1 DEF storeVars, shiftVars, queueVars
<1>3. /\ file \in [Pos -> Block] /\ hdr \in Header /\ Formed(file, lo, hdr)
      /\ 1 .. hdr.rno \subseteq Pos /\ op.page \in Nat /\ op.page < NoPage /\ hdr.rno \in Nat
      /\ hdr.rno <= MaxPos
      /\ \A x \in 1 .. hdr.rno : file[x].pn \in Nat /\ file[x].lvl \in Nat
  BY <1>1, ShiftFacts, FormedFacts DEF DInvAt, BaseAt, CallAt, KindsAt
<1>4. cur \in 1 .. hdr.rno /\ \A x \in 1 .. lo[cur] - 1 : InUse(file, x)
  BY <1>1 DEF DInvAt, CallAt, SearchAt
<1>5. Read(file, cur) = file[cur] /\ file[cur].lvl > 0
  BY <1>1, <1>3, <1>4 DEF Read, IsInterior
<1> DEFINE l == Lchild(file, cur)
           r == Rchild(file, cur)
<1>6. /\ l \in 1 .. hdr.rno /\ r \in 1 .. hdr.rno /\ lo[cur] = lo[l] /\ lo[r] = l + 1
      /\ l = cur + file[cur].lcos
  BY <1>3, <1>4, <1>5, ChildrenIn
<1> HIDE DEF l, r
<1>7. cur' \in 1 .. hdr.rno /\ \A x \in 1 .. lo[cur'] - 1 : InUse(file, x)
  <2>1. CASE op.page <= file[cur].pn
    <3>1. cur' = l
      BY <1>1, <1>5, <2>1 DEF l
    <3>2. QED
      BY <1>4, <1>6, <3>1
  <2>2. CASE ~(op.page <= file[cur].pn)
    <3>1. cur' = r
      BY <1>1, <1>5, <2>2 DEF r
    <3>2. file[cur].pn < NoPage
      BY <1>3, <1>4, <2>2, DiskAssumption
    <3>3. \A x \in 1 .. l : InUse(file, x)
      BY <1>3, <1>4, <1>5, <1>6, <3>2 DEF Formed, PagesLeft, InUse
    <3>4. lo[cur'] - 1 = l
      BY <1>3, <1>6, <3>1
    <3>5. QED
      BY <1>6, <3>1, <3>3, <3>4
  <2>3. QED
    BY <2>1, <2>2
<1>8. CallType'
  <2>1. cur' \in Int /\ cur' \in 0 .. MaxPos
    BY <1>3, <1>7, DiskAssumption
  <2>2. QED
    BY <1>1, <1>2, <2>1 DEF ShiftType, CallType
<1>9. WorldType'
  BY <1>1, <1>2, WorldStill
<1>10. Exempt \subseteq Exempt'
  BY <1>1, <1>2 DEF Exempt
<1>11. BaseAt(lo)'
  <2>1. Shifting' <=> Shifting
    BY <1>1 DEF Shifting
  <2>2. QED
    BY <1>1, <1>2, <1>10, <2>1, BaseStill DEF DInvAt
<1>12. SearchAt(lo)'
  BY <1>1, <1>7 DEF SearchAt
<1>13. CallAt(lo)'
  BY <1>1, <1>2, <1>12 DEF DInvAt, CallAt, KindsAt, PathAt, Working, SlotAt, SepsAt, NextAt,
     GrowAt, AtRest, Copied, Disorder, Known
<1>14. QED
  BY <1>8, <1>9, <1>11, <1>13 DEF ShiftType, DInvAt

(* A search that fails, and the end of a verification.                     *)
LEMMA SearchReturnsInv ==
    ASSUME ShiftType, NEW lo, DInvAt(lo), pc = "search", ~Disorder, Return,
           UNCHANGED <<file, hdr, queueVars, acked, cut, shiftVars>>
    PROVE  ShiftType' /\ DInvAt(lo)'
<1>1. UNCHANGED <<stage, cbd, hlev, copy, croot, wroot, rd, wr, broken>> /\ pc' = "idle"
  BY DEF shiftVars, queueVars, Return
<1>2. stage' = "idle" /\ cbd' = 0 /\ hlev' = NoPad
  BY <1>1 DEF DInvAt, CallAt, AtRest
<1>3. CallType' /\ CallAt(lo)'
  BY <1>2, CallOver
<1>4. WorldType'
  BY <1>1, WorldStill
<1>5. Exempt \subseteq Exempt'
  BY <1>1 DEF Exempt
<1>6. ~Copied
  BY IdleNoCopy DEF Disorder
<1>7. BaseAt(lo)'
  BY <1>1, <1>5, <1>6, BaseStill DEF DInvAt
<1>8. QED
  BY <1>3, <1>4, <1>7 DEF ShiftType, DInvAt

(* updateMHTBlockHashByPageNo writes a hash only: the leaf keeps its page. *)
LEMMA UpdateLeafKeeps ==
    ASSUME ShiftType, NEW lo, DInvAt(lo), op.kind = "update", UpdateLeaf, UNCHANGED shiftVars
    PROVE  ShiftType' /\ DInvAt(lo)'
<1> DEFINE n == hdr.rno
<1>1. /\ pc = "search" /\ ~IsInterior(file, cur) /\ Read(file, cur).pn = op.page /\ ret # NoPos
      /\ file' = [file EXCEPT ![ret].h = op.hash] /\ cur' = ret /\ pc' = "path"
      /\ UNCHANGED <<hdr, op, ret, queueVars, storeVars, shiftVars>>
  BY DEF UpdateLeaf, Found, AtLeaf
<1>2. UNCHANGED <<slot, acked, cut, stage, cbd, hlev, glob, copy, croot, wroot, rd, wr, broken>>
  BY <1>1 DEF storeVars, shiftVars, queueVars
<1>3. /\ file \in [Pos -> Block] /\ hdr \in Header /\ Formed(file, lo, hdr) /\ Offsets
      /\ 1 .. n \subseteq Pos /\ n \in Nat /\ op.hash \in Hash
      /\ FirstOpen(hdr) \in 1 .. n + 1
      /\ \A x \in 1 .. n : file[x].pos \in Nat /\ file[x].lvl \in Nat
  BY <1>1, ShiftFacts, FormedFacts DEF DInvAt, BaseAt
<1>4. cur \in 1 .. n /\ ret = cur
  BY <1>1 DEF DInvAt, CallAt, SearchAt
<1>5. cur \in Pos /\ file[cur].lvl = 0 /\ file[cur].pn = op.page
  BY <1>1, <1>3, <1>4 DEF Read, IsInterior
<1>6. /\ file' \in [Pos -> Block] /\ file'[cur].h = op.hash
      /\ \A x \in Pos : SameShape(file, file', x) /\ file'[x].pos = file[x].pos
                        /\ file'[x].rsvd = file[x].rsvd
      /\ \A x \in Pos : x # cur => file'[x] = file[x]
  <2>1. PICK v : v = op.hash
    OBVIOUS
  <2>2. PICK p : p = cur
    OBVIOUS
  <2>3. v \in Hash /\ p \in Pos /\ Rewritten(file, file', p, v)
    BY <1>1, <1>3, <1>4, <1>5, <2>1, <2>2 DEF Rewritten
  <2>4. /\ file' \in [Pos -> Block] /\ file'[p].h = v
        /\ \A x \in Pos : SameShape(file, file', x) /\ file'[x].pos = file[x].pos
                          /\ file'[x].rsvd = file[x].rsvd
        /\ \A x \in Pos : x # p => file'[x] = file[x]
    BY <1>3, <2>3, HashWrite
  <2>5. QED
    BY <2>1, <2>2, <2>4
<1>7. ~Copied /\ ~Copied'
  BY <1>2, IdleNoCopy DEF Copied
<1>8. \A x \in 1 .. n : /\ file'[x].lvl = file[x].lvl /\ file'[x].pn = file[x].pn
                        /\ file'[x].isn = file[x].isn /\ (x # cur => file'[x].h = file[x].h)
  BY <1>3, <1>6 DEF SameShape
<1>9. Formed(file', lo, hdr)
  <2>1. KeepsLinks(file, file', n) /\ file'[n].rsvd = file[n].rsvd
    BY <1>3, <1>6, FormedFacts DEF KeepsLinks, SameShape
  <2>2. FillsUp(file, file', n)
    BY <1>3, <1>8 DEF FillsUp, Formed, PadsLast
  <2>3. QED
    BY <1>3, <1>6, <2>1, <2>2, FormedFrame
<1>10. Offsets'
  BY <1>3, <1>6 DEF Offsets
<1>11. Ledger'
  <2>1. PICK W : /\ IsFiniteSet(W) /\ Cardinality(W) <= broken
                 /\ Account(file, n, FirstOpen(hdr), W, Exempt)
    BY <1>7 DEF DInvAt, BaseAt, Ledger, Source, SourceRoot
  <2>2. Exempt' = Exempt \cup {op.page}
    BY <1>1, <1>2 DEF Exempt
  <2>3. \A x \in 1 .. n :
           file'[x].lvl = 0 /\ x >= FirstOpen(hdr) /\ file'[x].pn \in Known => file'[x].pn \in W
    BY <1>8, <2>1 DEF Account
  <2>4. ASSUME NEW p \in Known \ (W \cup Exempt')
        PROVE  \E x \in 1 .. n : HoldsPage(file', x, FirstOpen(hdr), p)
    <3>1. PICK x \in 1 .. n : HoldsPage(file, x, FirstOpen(hdr), p)
      BY <2>1, <2>2 DEF Account
    <3>2. p # op.page
      BY <2>2
    <3>3. x # cur
      BY <1>5, <3>1, <3>2 DEF HoldsPage
    <3>4. HoldsPage(file', x, FirstOpen(hdr), p)
      BY <1>8, <3>1, <3>3 DEF HoldsPage
    <3>5. QED
      BY <3>4
  <2>5. Account(file', n, FirstOpen(hdr), W, Exempt')
    BY <2>3, <2>4 DEF Account
  <2>6. Account(Source, SourceRoot, FirstOpen(hdr), W, Exempt)'
    BY <1>1, <1>2, <1>7, <2>5 DEF Account, HoldsPage, Known, Source, SourceRoot
  <2>7. QED
    BY <1>2, <2>1, <2>6 DEF Ledger
<1>12. CopyInv'
  BY <1>7 DEF CopyInv
<1>13. BaseAt(lo)'
  BY <1>1, <1>9, <1>10, <1>11, <1>12 DEF BaseAt
<1>14. CallType'
  BY <1>1, <1>2, <1>3, <1>4 DEF ShiftType, CallType
<1>15. WorldType'
  <2>1. DiskTypeOK'
    BY <1>1, <1>3, <1>6 DEF DiskTypeOK
  <2>2. QueueTypeOK'
    BY <1>1, QueueSame DEF ShiftType, WorldType
  <2>3. QED
    BY <1>1, <1>2, <2>1, <2>2, WorldSame
<1>16. KindsAt'
  BY <1>1, <1>2 DEF DInvAt, CallAt, KindsAt, Disorder
<1>17. PathAt'
  <2>1. cur' \in Int /\ cur' >= 1 /\ cur' = cur /\ ret' = cur
    BY <1>1, <1>3, <1>4
  <2>2. LeafAt(file', n, cur) /\ file'[cur].pn = op.page /\ file'[cur].h = op.hash
    BY <1>4, <1>5, <1>6, <1>8 DEF LeafAt
  <2>3. QED
    BY <1>1, <2>1, <2>2 DEF PathAt
<1>18. CallAt(lo)'
  BY <1>1, <1>2, <1>16, <1>17 DEF DInvAt, CallAt, SearchAt, Working, SlotAt, SepsAt, NextAt,
     GrowAt, AtRest
<1>19. QED
  BY <1>13, <1>14, <1>15, <1>18 DEF ShiftType, DInvAt

(* A turn of the climb writes no leaf of the tree.                         *)
LEMMA ClimbKeepsInv ==
    ASSUME ShiftType, NEW lo, DInvAt(lo), Climb, UNCHANGED shiftVars
    PROVE  ShiftType' /\ DInvAt(lo)'
<1> DEFINE n == hdr.rno
<1>1. /\ pc = "path" /\ Climbs(file, cur) /\ cur' = Parent(file, cur)
      /\ file' = [file EXCEPT ![cur'] = Rehashed(file, cur')]
      /\ UNCHANGED <<hdr, pc, op, ret, queueVars, storeVars, shiftVars>>
  BY DEF Climb, PathStep
<1>2. UNCHANGED <<slot, acked, cut, stage, cbd, hlev, glob, copy, croot, wroot, rd, wr, broken>>
  BY <1>1 DEF storeVars, shiftVars, queueVars
<1>3. /\ file \in [Pos -> Block] /\ hdr \in Header /\ Formed(file, lo, hdr) /\ Offsets
      /\ 1 .. n \subseteq Pos /\ n \in Nat /\ n \in 1 .. n
      /\ \A x \in 1 .. n : file[x].pos \in Nat
  BY ShiftFacts, FormedFacts DEF DInvAt, BaseAt
<1>4. cur \in Int /\ cur >= 1
  BY <1>1 DEF DInvAt, CallAt, PathAt
<1>5. cur \in Pos /\ file[cur].pos \in Nat /\ file[cur].pos > 0 /\ cur' = cur + file[cur].pos
  <2>1. cur \in Pos
    BY <1>1, <1>4 DEF Climbs, Read, ZeroBlock
  <2>2. Read(file, cur) = file[cur] /\ file[cur].pos \in Nat
    BY <1>3, <2>1 DEF Read, Offsets
  <2>3. QED
    BY <1>1, <2>1, <2>2 DEF Climbs, Parent
<1>6. cur' \in Int /\ cur' >= 1
  BY <1>4, <1>5
<1>7. cur' \in 1 .. n => file[cur'].lvl > 0
  <2>1. SUFFICES ASSUME cur' \in 1 .. n PROVE file[cur'].lvl > 0
    OBVIOUS
  <2>2. cur \in 1 .. n - 1
    BY <1>3, <1>4, <1>5, <2>1
  <2>3. QED
    BY <1>1, <1>3, <2>2, ParentIn
<1>8. /\ file' \in [Pos -> Block]
      /\ \A x \in Pos : SameShape(file, file', x) /\ file'[x].pos = file[x].pos
                        /\ file'[x].rsvd = file[x].rsvd
      /\ \A x \in 1 .. n : file[x].lvl = 0 => file'[x] = file[x]
  <2>1. CASE cur' \in Pos
    <3> DEFINE v == ChildrenHash(file, cur')
    <3>1. v \in Hash
      <4>1. NullHash \in Hash /\ ZeroBlock.h = NullHash
        BY DEF ZeroBlock, NullHash, Hash, Byte
      <4>2. ASSUME NEW x PROVE Read(file, x).h \in Hash
        <5>1. x \in Pos => file[x].h \in Hash
          BY <1>3, BlockTypes
        <5>2. QED
          BY <4>1, <5>1 DEF Read
      <4>3. QED
        BY <4>2, CombineType DEF ChildrenHash
    <3>2. Rewritten(file, file', cur', v)
      BY <1>1, <2>1 DEF Rewritten, Rehashed, Read
    <3> HIDE DEF v
    <3>3. /\ file' \in [Pos -> Block]
          /\ \A x \in Pos : SameShape(file, file', x) /\ file'[x].pos = file[x].pos
                            /\ file'[x].rsvd = file[x].rsvd
          /\ \A x \in Pos : x # cur' => file'[x] = file[x]
      BY <1>3, <2>1, <3>1, <3>2, HashWrite
    <3>4. QED
      BY <1>3, <1>7, <3>3
  <2>2. CASE cur' \notin Pos
    <3>1. file' = file
      BY <1>1, <1>3, <2>2
    <3>2. QED
      BY <1>3, <3>1 DEF SameShape
  <2>3. QED
    BY <2>1, <2>2
<1>9. BaseAt(lo)'
  <2>1. SameLeaves(file, file', n)
    BY <1>3, <1>8 DEF SameLeaves, SameLeaf, SameShape
  <2>2. KeepsLinks(file, file', n) /\ file'[n].rsvd = file[n].rsvd
    BY <1>3, <1>8 DEF KeepsLinks, SameShape
  <2>3. \A p \in 1 .. n : file'[p].pn = file[p].pn
    BY <1>3, <1>8 DEF SameShape
  <2>4. Offsets'
    BY <1>3, <1>8 DEF Offsets
  <2>5. Exempt' = Exempt /\ (Shifting' <=> Shifting)
    BY <1>1, <1>2 DEF Exempt, Shifting
  <2>6. QED
    BY <1>1, <1>2, <1>8, <2>1, <2>2, <2>3, <2>4, <2>5, BaseQuiet DEF DInvAt
<1>10. CallType'
  BY <1>1, <1>2, <1>6 DEF ShiftType, CallType
<1>11. WorldType'
  <2>1. DiskTypeOK'
    BY <1>1, <1>3, <1>8 DEF DiskTypeOK
  <2>2. QueueTypeOK'
    BY <1>1, QueueSame DEF ShiftType, WorldType
  <2>3. QED
    BY <1>1, <1>2, <2>1, <2>2, WorldSame
<1>12. PathAt'
  BY <1>1, <1>2, <1>6, <1>8 DEF DInvAt, CallAt, PathAt, LeafAt
<1>13. SlotAt'
  <2>1. SUFFICES ASSUME Working' PROVE SlotAt'
    BY DEF SlotAt
  <2>2. Working
    BY <1>1, <1>2, <2>1 DEF Working
  <2>3. /\ slot = hdr.fslo /\ slot # NoPos
        /\ IF Disorder THEN wroot = n ELSE glob.rno = n
        /\ ~Disorder =>
              file[slot].pn = op.page /\ file[slot].h = op.hash /\ ~file[slot].isn
    BY <1>1, <2>2 DEF DInvAt, CallAt, SlotAt
  <2>4. file'[slot] = file[slot]
    BY <1>3, <1>8, <2>3, FormedFacts
  <2>5. QED
    BY <1>1, <1>2, <2>3, <2>4 DEF SlotAt, Disorder
<1>14. KindsAt'
  BY <1>1, <1>2 DEF DInvAt, CallAt, KindsAt, Disorder, Copied, Known
<1>15. CallAt(lo)'
  BY <1>1, <1>2, <1>12, <1>13, <1>14 DEF DInvAt, CallAt, SearchAt, SepsAt, NextAt, GrowAt, AtRest
<1>16. QED
  BY <1>9, <1>10, <1>11, <1>15 DEF ShiftType, DInvAt

(* The page of an update is in its leaf with its new hash when the call    *)
(* returns.                                                                *)
LEMMA UpdateReturnsKeeps ==
    ASSUME ShiftType, NEW lo, DInvAt(lo), op.kind = "update", UpdateReturns, UNCHANGED shiftVars
    PROVE  ShiftType' /\ DInvAt(lo)'
<1> DEFINE n == hdr.rno
           s == FirstOpen(hdr)
<1>1. /\ pc = "path" /\ Return /\ pc' = "idle" /\ op' = NoOp
      /\ acked' = [acked EXCEPT ![op.page] = op.hash]
      /\ cut' = cut \ {op.page}
      /\ UNCHANGED <<file, hdr, queueVars, shiftVars>>
  BY DEF UpdateReturns, PathEnded, Return
<1>2. UNCHANGED <<stage, cbd, hlev, copy, croot, wroot, rd, wr, broken>>
  BY <1>1 DEF shiftVars, queueVars
<1>3. stage' = "idle" /\ cbd' = 0 /\ hlev' = NoPad
  BY <1>1, <1>2 DEF DInvAt, CallAt, AtRest
<1>4. CallType' /\ CallAt(lo)'
  BY <1>1, <1>3, CallOver
<1>5. Known' = Known
  BY <1>1 DEF Known
<1>6. WorldType'
  <2>1. DiskTypeOK'
    BY <1>1 DEF ShiftType, WorldType, DiskTypeOK
  <2>2. QueueTypeOK'
    BY <1>1, QueueSame DEF ShiftType, WorldType
  <2>3. QED
    BY <1>2, <1>5, <2>1, <2>2 DEF ShiftType, WorldType
<1>7. ~Copied /\ ~Copied'
  BY <1>2, IdleNoCopy DEF Copied
<1>8. LeafAt(file, n, ret) /\ file[ret].pn = op.page /\ file[ret].h = op.hash
  BY <1>1 DEF DInvAt, CallAt, PathAt
<1>9. /\ file \in [Pos -> Block] /\ hdr \in Header /\ Formed(file, lo, hdr) /\ n \in Nat
      /\ s \in 1 .. n + 1
  BY ShiftFacts, FormedFacts DEF DInvAt, BaseAt
<1>10. Ledger'
  <2>1. PICK W : /\ IsFiniteSet(W) /\ Cardinality(W) <= broken
                 /\ Account(file, n, s, W, Exempt)
    BY <1>7 DEF DInvAt, BaseAt, Ledger, Source, SourceRoot
  <2>2. Exempt = cut \cup {op.page} /\ Exempt' = cut \ {op.page}
    BY <1>1 DEF Exempt
  <2>3. \A x \in 1 .. n : file[x].lvl = 0 /\ x >= s /\ file[x].pn \in Known => file[x].pn \in W
    BY <2>1 DEF Account
  <2>4. ASSUME NEW p \in Known \ (W \cup Exempt')
        PROVE  \E x \in 1 .. n : HoldsPage(file, x, s, p)'
    <3>1. CASE p = op.page
      <4>1. acked'[p] = op.hash
        BY <1>1, <3>1 DEF Known
      <4>2. ret \in 1 .. n /\ file[ret].lvl = 0
        BY <1>8 DEF LeafAt
      <4>3. ret < s
        BY <1>8, <1>9, <2>3, <2>4, <3>1, <4>2
      <4>4. ~file[ret].isn
        BY <1>9, <4>2, <4>3 DEF Formed, PadsLast, InUse
      <4>5. PICK x : x = ret
        OBVIOUS
      <4>6. x \in 1 .. n /\ HoldsPage(file, x, s, p)'
        BY <1>1, <1>8, <3>1, <4>1, <4>2, <4>3, <4>4, <4>5 DEF HoldsPage
      <4>7. QED
        BY <4>6
    <3>2. CASE p # op.page
      <4>1. acked'[p] = acked[p]
        BY <1>1, <3>2 DEF Known
      <4>2. PICK x \in 1 .. n : HoldsPage(file, x, s, p)
        BY <2>1, <2>2, <3>2 DEF Account
      <4>3. HoldsPage(file, x, s, p)'
        BY <1>1, <4>1, <4>2 DEF HoldsPage
      <4>4. QED
        BY <4>3
    <3>3. QED
      BY <3>1, <3>2
  <2>5. Account(Source, SourceRoot, FirstOpen(hdr), W, Exempt)'
    BY <1>1, <1>5, <1>7, <2>3, <2>4 DEF Account, Source, SourceRoot
  <2>6. QED
    BY <1>2, <2>1, <2>5 DEF Ledger
<1>11. Formed(file, lo, hdr)' /\ Offsets'
  BY <1>1, <1>9 DEF DInvAt, BaseAt, Offsets
<1>12. CopyInv'
  BY <1>7 DEF CopyInv
<1>13. QED
  BY <1>4, <1>6, <1>10, <1>11, <1>12 DEF ShiftType, DInvAt, BaseAt

-----------------------------------------------------------------------------
(* The beginning of an insertion behind the last page.                     *)
LEMMA ExtendArgs ==
    ASSUME NEW lo, NEW A, A = EndPages'
    PROVE  (ExtendAt(lo, EndPages)' <=> ExtendAt(lo, A)') /\ (NewTree(lo, EndPages)' <=> NewTree(lo, A)')
<1>1. NewTree(lo, EndPages)' <=> NewTree(lo, A)'
  BY DEF NewTree
<1>2. RowInv(lo, EndPages)' <=> RowInv(lo, A)'
  BY DEF RowInv, OldRoot
<1>3. ExtendStage(lo, EndPages)' <=> ExtendStage(lo, A)'
  BY <1>1 DEF ExtendStage
<1>4. QED
  BY <1>1, <1>2, <1>3 DEF ExtendAt

LEMMA ExtensionBegins ==
    ASSUME ShiftType, NEW lo, BaseAt(lo), AtRest, pc # "extend", hdr.fslo = NoPos,
           q' = <<NodeOf(file, hdr.rno)>>, wpos' = hdr.rno,
           glob' = [glob EXCEPT !.rno = hdr.rno],
           UNCHANGED <<file, hdr, stage, at, cbd, hlev>>
    PROVE  ExtendAt(lo, EndPages)' /\ QueueTypeOK'
<1>1. /\ file \in [Pos -> Block] /\ hdr \in Header /\ glob \in Globals /\ QueueTypeOK
      /\ hdr.rno \in Nat /\ hdr.rno \in Pos /\ hdr.rno \in 0 .. MaxPos
      /\ FileTree(file, lo, hdr.rno) /\ Offsets
  BY ShiftFacts, FormedFacts DEF BaseAt, Formed
<1>2. stage' = "idle" /\ cbd' = 0
  BY DEF AtRest
<1>3. PICK A : A = EndPages
  OBVIOUS
<1>4. RightmostPage(NodeOf(file, hdr.rno)) \in A
  <2> DEFINE n == hdr.rno
             y == Rightmost(file, n)
  <2>1. /\ n \in 1 .. n /\ 1 .. n \subseteq Pos /\ lo[n] = 1 /\ file[n].lvl > 0
        /\ \A x \in 1 .. n : file[x].lvl \in Nat
    BY <1>1, FormedFacts DEF BaseAt, Formed, FileTree
  <2>2. y \in lo[n] .. n /\ file[y].lvl = 0 /\ \A x \in y + 1 .. n : file[x].lvl # 0
    BY <1>1, <2>1, RightmostInTree
  <2>3. NodeOf(file, n).lvl = file[n].lvl /\ NodeOf(file, n).rm = Read(file, y).pn
    BY <1>1, NodeOfFacts
  <2> HIDE DEF y
  <2>4. y \in 1 .. n /\ Read(file, y).pn = file[y].pn
    BY <2>1, <2>2 DEF Read
  <2>5. RightmostPage(NodeOf(file, n)) = file[y].pn
    BY <2>1, <2>3, <2>4 DEF RightmostPage
  <2>6. LastLeaf(file, n, y)
    BY <1>1, <2>1, <2>2, <2>4 DEF LastLeaf
  <2>7. QED
    BY <1>3, <2>4, <2>5, <2>6 DEF EndPages
<1>5. RowInv(lo, A)' /\ ExtendStage(lo, A)'
  BY <1>1, <1>2, <1>4, ExtendBegins
<1>6. QueueTypeOK'
  <2>1. NodeOf(file, hdr.rno) \in QNode
    BY <1>1, NodeOfFacts
  <2>2. q' \in Seq(QNode)
    <3>1. PICK d : d = NodeOf(file, hdr.rno)
      OBVIOUS
    <3>2. d \in QNode /\ q' = <<d>>
      BY <2>1, <3>1
    <3>3. QED
      BY <3>2
  <2>3. glob' \in Globals
    BY <1>1 DEF Globals
  <2>4. QED
    BY <1>1, <2>2, <2>3 DEF QueueTypeOK
<1>7. DiskTypeOK' /\ Offsets' /\ FileTree(file, lo, hdr.rno)'
  BY <1>1 DEF DiskTypeOK, Offsets
<1>8. ExtendAt(lo, A)'
  BY <1>2, <1>5, <1>6, <1>7 DEF ExtendAt
<1>9. A = EndPages'
  BY <1>3 DEF EndPages, LastLeaf
<1>10. QED
  BY <1>6, <1>8, <1>9, ExtendArgs

LEMMA StartInsertKeeps ==
    ASSUME ShiftType, NEW lo, DInvAt(lo), NEW args \in Args("insert"), StartInsert(args),
           UNCHANGED shiftVars
    PROVE  ShiftType' /\ DInvAt(lo)'
<1> DEFINE n == hdr.rno
<1>1. /\ pc = "idle" /\ (\A p \in Known : p < args.page) /\ op' = args
      /\ glob' = [glob EXCEPT !.rno = n] /\ slot' = hdr.fslo
      /\ IF hdr.fslo # NoPos
         THEN pc' = "fill" /\ UNCHANGED <<q, wpos>>
         ELSE pc' = "extend" /\ q' = <<NodeOf(file, n)>> /\ wpos' = n
      /\ UNCHANGED <<file, hdr, cur, ret, stage, at, cbd, hlev, acked, cut>>
      /\ UNCHANGED <<copy, croot, wroot, rd, wr, broken>>
  BY DEF StartInsert, Known, shiftVars
<1>2. /\ hdr \in Header /\ n \in 0 .. MaxPos /\ hdr.fslo \in 0 .. MaxPos /\ glob \in Globals
      /\ QueueTypeOK /\ Known \subseteq Pages /\ \A p \in Pages : p \in Nat /\ p < NoPage
  BY ShiftFacts
<1>3. /\ args.kind = "insert" /\ args.page \in Pages
      /\ args \in [kind : {"none", "insert", "update", "disorder", "verify"}, page : Nat, hash : Hash]
  BY StoreAssumption DEF Args, StoreAssumption
<1>4. args.page \notin Known /\ Known' = Known
  BY <1>1, <1>2, <1>3 DEF Known
<1>5. ~Copied /\ ~Copied' /\ ~Disorder'
  <2>1. op.kind # "disorder"
    BY <1>1 DEF DInvAt, CallAt, KindsAt, NoOp
  <2>2. QED
    BY <1>1, <1>3, <2>1, IdleNoCopy DEF Copied, Disorder
<1>6. BaseAt(lo) /\ AtRest /\ stage = "idle" /\ cbd = 0 /\ hlev = NoPad
  BY <1>1 DEF DInvAt, CallAt, AtRest
<1>7. BaseAt(lo)'
  <2>1. Exempt \subseteq Exempt'
    BY <1>1 DEF Exempt
  <2>2. QED
    BY <1>1, <1>5, <1>6, <2>1, BaseStill
<1>8. glob' \in Globals /\ glob'.rno = n
  BY <1>1, <1>2 DEF Globals
<1>9. CallType'
  BY <1>1, <1>2, <1>3 DEF ShiftType, CallType
<1>10. DiskTypeOK'
  BY <1>1 DEF ShiftType, WorldType, DiskTypeOK
<1>11. CASE hdr.fslo # NoPos
  <2>1. QueueTypeOK'
    BY <1>1, <1>2, <1>8, <1>11 DEF QueueTypeOK
  <2>2. WorldType'
    BY <1>1, <1>10, <2>1, WorldSame DEF shiftVars
  <2>3. KindsAt' /\ SlotAt'
    BY <1>1, <1>3, <1>4, <1>5, <1>8, <1>11 DEF KindsAt, SlotAt
  <2>4. CallAt(lo)'
    BY <1>1, <1>6, <1>11, <2>3
       DEF CallAt, SearchAt, PathAt, SepsAt, NextAt, GrowAt, AtRest
  <2>5. QED
    BY <1>7, <1>9, <2>2, <2>4 DEF ShiftType, DInvAt
<1>12. CASE hdr.fslo = NoPos
  <2>1. ExtendAt(lo, EndPages)' /\ QueueTypeOK'
    BY <1>1, <1>6, <1>12, ExtensionBegins
  <2>2. WorldType'
    BY <1>1, <1>10, <2>1, WorldSame DEF shiftVars
  <2>3. KindsAt'
    BY <1>1, <1>3, <1>4, <1>5, <1>12 DEF KindsAt
  <2>4. GrowAt(lo)'
    BY <1>1, <1>5, <1>12, <2>1 DEF GrowAt
  <2>5. CallAt(lo)'
    BY <1>1, <1>6, <1>12, <2>3, <2>4
       DEF CallAt, SearchAt, PathAt, Working, SlotAt, SepsAt, NextAt, AtRest
  <2>6. QED
    BY <1>7, <1>9, <2>2, <2>5 DEF ShiftType, DInvAt
<1>13. QED
  BY <1>11, <1>12

(* The copy is made while file and copy are the same.                      *)
LEMMA MakeCopyKeeps ==
    ASSUME ShiftType, NEW lo, DInvAt(lo), Disorder, MakeCopy
    PROVE  ShiftType' /\ DInvAt(lo)'
<1> DEFINE n == hdr.rno
<1>1. /\ pc = "search" /\ ~Copied /\ copy' = file /\ croot' = n /\ wroot' = n /\ slot' = hdr.fslo
      /\ IF hdr.fslo # NoPos
         THEN pc' = "fill" /\ UNCHANGED <<q, wpos, glob>>
         ELSE /\ pc' = "extend" /\ q' = <<NodeOf(file, n)>> /\ wpos' = n
              /\ glob' = [glob EXCEPT !.rno = n]
      /\ UNCHANGED <<file, hdr, op, cur, ret, stage, at, cbd, hlev, acked, cut, rd, wr, broken>>
  BY DEF MakeCopy, NotFound, AtLeaf, CopyFile
<1>2. /\ file \in [Pos -> Block] /\ hdr \in Header /\ Formed(file, lo, hdr) /\ n \in Nat /\ n > 1
      /\ n \in 1 .. n /\ n \in 0 .. MaxPos /\ hdr.fslo \in 0 .. MaxPos /\ QueueTypeOK
      /\ file[n].lvl > 0 /\ Offsets
      /\ \A x \in 1 .. n : file[x].lvl \in Nat
  BY ShiftFacts, FormedFacts DEF DInvAt, BaseAt
<1>3. BaseAt(lo) /\ AtRest /\ stage = "idle" /\ cbd = 0 /\ hlev = NoPad
  BY <1>1 DEF DInvAt, CallAt, AtRest
<1>4. Copied' /\ Disorder' /\ ~Shifting'
  BY <1>1, <1>2 DEF Copied, NoPos, Disorder, Shifting
<1>5. CopyInv'
  <2>1. \A x \in 1 .. n : x < FirstOpen(hdr) => InUse(file, x)
    BY <1>2 DEF Formed, PadsLast
  <2>2. SameLeaves(file, file, n)
    BY DEF SameLeaves, SameLeaf
  <2>3. croot' + 1 .. n = {}
    BY <1>1, <1>2
  <2>4. QED
    BY <1>1, <1>2, <1>4, <2>1, <2>2, <2>3 DEF CopyInv, InUse
<1>6. Ledger'
  <2>1. SameLeaves(Source, Source', SourceRoot) /\ SourceRoot' = SourceRoot
    BY <1>1, <1>4 DEF Source, SourceRoot, SameLeaves, SameLeaf
  <2>2. Exempt \subseteq Exempt' /\ FirstOpen(hdr') = FirstOpen(hdr)
    BY <1>1 DEF Exempt
  <2>3. QED
    BY <1>1, <1>3, <2>1, <2>2, LedgerFrame DEF BaseAt
<1>7. BaseAt(lo)'
  BY <1>1, <1>2, <1>5, <1>6 DEF BaseAt, Offsets
<1>8. CallType'
  BY <1>1, <1>2 DEF ShiftType, CallType
<1>9. DiskTypeOK'
  BY <1>1 DEF ShiftType, WorldType, DiskTypeOK
<1>10. KindsAt'
  BY <1>1, <1>4 DEF DInvAt, CallAt, KindsAt, Disorder
<1>11. CASE hdr.fslo # NoPos
  <2>1. QueueTypeOK'
    BY <1>1, <1>2, <1>11 DEF QueueTypeOK
  <2>2. WorldType'
    BY <1>1, <1>2, <1>9, <2>1 DEF ShiftType, WorldType, Known
  <2>3. SlotAt'
    BY <1>1, <1>4, <1>11 DEF SlotAt
  <2>4. CallAt(lo)'
    BY <1>1, <1>3, <1>10, <1>11, <2>3
       DEF CallAt, SearchAt, PathAt, SepsAt, NextAt, GrowAt, AtRest
  <2>5. QED
    BY <1>7, <1>8, <2>2, <2>4 DEF ShiftType, DInvAt
<1>12. CASE hdr.fslo = NoPos
  <2>1. ExtendAt(lo, EndPages)' /\ QueueTypeOK'
    BY <1>1, <1>3, <1>12, ExtensionBegins
  <2>2. WorldType'
    BY <1>1, <1>2, <1>9, <2>1 DEF ShiftType, WorldType, Known
  <2>3. GrowAt(lo)'
    BY <1>1, <1>12, <2>1 DEF GrowAt
  <2>4. CallAt(lo)'
    BY <1>1, <1>3, <1>10, <1>12, <2>3
       DEF CallAt, SearchAt, PathAt, Working, SlotAt, SepsAt, NextAt, AtRest
  <2>5. QED
    BY <1>7, <1>8, <2>2, <2>4 DEF ShiftType, DInvAt
<1>13. QED
  BY <1>11, <1>12

-----------------------------------------------------------------------------
(* The extension, for either kind of insertion.                            *)
LEMMA GrowsKeepsInv ==
    ASSUME ShiftType, NEW lo, DInvAt(lo), pc = "extend", NEW lo2,
           NEW A, A = EndPages, Grows(lo, lo2, A),
           UNCHANGED <<walkVars, storeVars, shiftVars>>
    PROVE  ShiftType' /\ DInvAt(lo2)'
<1> DEFINE n == hdr.rno
<1>1. /\ UNCHANGED <<pc, op, cur, ret, slot, acked, cut, copy, croot, wroot, rd, wr, broken>>
      /\ ExtendAt(lo2, A)' /\ hdr' = hdr /\ KeepsOld(file, file', n)
      /\ \A p \in 1 .. n : lo2[p] = lo[p]
  BY DEF Grows, walkVars, storeVars, shiftVars
<1>2. /\ file \in [Pos -> Block] /\ hdr \in Header /\ Formed(file, lo, hdr) /\ n \in Nat
      /\ n \in 1 .. n /\ CopyInv /\ Ledger
  BY ShiftFacts, FormedFacts DEF DInvAt, BaseAt
<1>3. hdr.fslo = NoPos
  BY DEF DInvAt, CallAt, GrowAt
<1>4. file' \in [Pos -> Block] /\ DiskTypeOK' /\ QueueTypeOK' /\ Offsets'
  BY <1>1 DEF ExtendAt, DiskTypeOK
<1>5. SameLeaves(file, file', n) /\ KeepsLinks(file, file', n)
      /\ \A p \in 1 .. n : file'[p].pn = file[p].pn /\ file'[p].lvl = file[p].lvl
  BY <1>1 DEF KeepsOld, SameShape, SameLeaves, SameLeaf, KeepsLinks
<1>6. Formed(file, lo2, hdr)
  <2>1. FileTree(file, lo, n) /\ file[n].pos \in Nat
    BY <1>2, FormedFacts DEF Formed
  <2>2. KeepsLinks(file, file, n)
    BY <2>1 DEF KeepsLinks
  <2>3. FileTree(file, lo2, n)
    BY <1>1, <1>2, <2>1, <2>2, TreeFrame
  <2>4. QED
    BY <1>2, <2>3 DEF Formed
<1>7. BaseAt(lo2)'
  <2>1. Formed(file', lo2, hdr)
    BY <1>2, <1>3, <1>4, <1>5, <1>6, FormedQuiet
  <2>2. (Shifting' <=> Shifting) /\ Exempt' = Exempt
    BY <1>1 DEF Shifting, Exempt
  <2>3. CopyInv'
    BY <1>1, <1>2, <1>5, <2>2, CopyQuiet
  <2>4. Ledger'
    BY <1>1, <1>2, <1>5, <2>2, LedgerQuiet
  <2>5. QED
    BY <1>1, <1>4, <2>1, <2>3, <2>4 DEF BaseAt
<1>8. CallType'
  BY <1>1 DEF ShiftType, CallType
<1>9. WorldType'
  BY <1>1, <1>4, WorldSame DEF shiftVars
<1>10. KindsAt'
  BY <1>1 DEF DInvAt, CallAt, KindsAt, Disorder, Copied, Known
<1>11. GrowAt(lo2)'
  <2>1. EndPages' = A
    <3>1. \A y \in 1 .. n : LastLeaf(file', n, y) <=> LastLeaf(file, n, y)
      <4>1. \A y \in 1 .. n : \A u \in y + 1 .. n : u \in 1 .. n
        BY <1>2
      <4>2. QED
        BY <1>5, <4>1 DEF LastLeaf
    <3>2. QED
      BY <1>1, <1>5, <3>1 DEF EndPages
  <2>2. ExtendAt(lo2, EndPages)'
    BY <1>1, <2>1, ExtendArgs
  <2>3. QED
    BY <1>1, <2>2 DEF DInvAt, CallAt, GrowAt, Copied
<1>12. CallAt(lo2)'
  BY <1>1, <1>10, <1>11 DEF CallAt, SearchAt, PathAt, Working, SlotAt, SepsAt, NextAt, AtRest
<1>13. QED
  BY <1>7, <1>8, <1>9, <1>12 DEF ShiftType, DInvAt

LEMMA ExtendBeginKeeps ==
    ASSUME ShiftType, NEW lo, DInvAt(lo), ExtendBegin, UNCHANGED shiftVars
    PROVE  ShiftType' /\ DInvAt(lo)'
<1>1. /\ pc = "extend" /\ stage = "idle" /\ BeginPadding
      /\ UNCHANGED <<file, hdr, q, at, cbd, wpos, glob>>
      /\ UNCHANGED <<walkVars, storeVars>>
  BY DEF ExtendBegin
<1>2. PICK A : A = EndPages
  OBVIOUS
<1>3. ExtendAt(lo, A)
  BY <1>1, <1>2 DEF DInvAt, CallAt, GrowAt
<1>4. Grows(lo, lo, A)
  BY <1>1, <1>3, BeginGrows
<1>5. QED
  BY <1>1, <1>2, <1>4, GrowsKeepsInv

LEMMA ExtendStepKeeps ==
    ASSUME ShiftType, NEW lo, DInvAt(lo), ExtendStep, UNCHANGED shiftVars
    PROVE  ShiftType' /\ \E lo2 : DInvAt(lo2)'
<1>1. pc = "extend" /\ QueueStep /\ UNCHANGED <<walkVars, storeVars>>
  BY DEF ExtendStep
<1>2. PICK A : A = EndPages
  OBVIOUS
<1>3. ExtendAt(lo, A)
  BY <1>1, <1>2 DEF DInvAt, CallAt, GrowAt
<1>4. PICK lo2 : Grows(lo, lo2, A)
  BY <1>1, <1>3, QueueGrows
<1>5. QED
  BY <1>1, <1>2, <1>4, GrowsKeepsInv

(* A step that changes where the call is, and no file.                     *)
LEMMA WalkInv ==
    ASSUME ShiftType, NEW lo, DInvAt(lo), QueueTypeOK',
           UNCHANGED <<file, hdr, op, ret, storeVars, shiftVars>>,
           pc # "idle", Shifting' <=> Shifting, cut \subseteq Exempt',
           ~(pc = "path" /\ op.kind = "update"),
           cur' \in Int, pc' \in {"search", "scan", "rescan", "seps", "sepParent", "sepsDone", "next"},
           CallAt(lo)'
    PROVE  ShiftType' /\ DInvAt(lo)'
<1>1. UNCHANGED <<slot, acked, cut, copy, croot, wroot, rd, wr, broken>>
  BY DEF storeVars, shiftVars
<1>2. Exempt \subseteq Exempt'
  BY DEF Exempt
<1>3. BaseAt(lo)'
  BY <1>1, <1>2, BaseStill DEF DInvAt
<1>4. CallType'
  BY <1>1 DEF ShiftType, CallType
<1>5. WorldType'
  <2>1. DiskTypeOK'
    BY DEF ShiftType, WorldType, DiskTypeOK
  <2>2. QED
    BY <1>1, <2>1, WorldSame
<1>6. QED
  BY <1>3, <1>4, <1>5 DEF ShiftType, DInvAt

(* The tree up to the new root, its first leaf behind the old one.         *)
LEMMA NewTreeFacts ==
    ASSUME ShiftType, NEW lo, BaseAt(lo), NewTree(lo, EndPages)
    PROVE  LET n == hdr.rno
               N == glob.rno
           IN  /\ file \in [Pos -> Block] /\ n \in Nat /\ n > 1 /\ n \in Pos /\ N \in Pos
               /\ n + 1 \in Pos /\ N \in Nat /\ N > n + 1 /\ 1 .. N \subseteq Pos
               /\ FileTree(file, lo, N) /\ OpenAt(file, N, n + 1)
               /\ \A p \in n .. N - 1 : file[p].pos > 0
               /\ file[n + 1].lvl = 0 /\ file[n + 1].isn
               /\ \A p \in n + 1 .. N : AddedAt(file, lo, n, EndPages, p)
               /\ \A p \in 1 .. N - 1 : file[p].rsvd = "R"
               /\ cur = n => ~ScanFails /\ ~AtPadLeaf
               /\ cur = n + 1 => ~ScanFails /\ AtPadLeaf
<1> DEFINE n == hdr.rno
           N == glob.rno
<1>1. /\ file \in [Pos -> Block] /\ n \in Nat /\ n > 1 /\ n \in Pos /\ file[n].lvl > 0
      /\ FileTree(file, lo, n)
  BY ShiftFacts, FormedFacts DEF BaseAt, Formed
<1>2. /\ N \in Pos /\ Grown(file, lo, N, n, EndPages) /\ AllJoined(lo, N, n)
      /\ (\A p \in 1 .. N - 1 : file[p].rsvd = "R") /\ file[N].rsvd = "root"
  BY DEF NewTree
<1>3. PICK m, M, A : m = n /\ M = N /\ A = EndPages
  OBVIOUS
<1>4. /\ M > m + 1 /\ FileTree(file, lo, M) /\ OpenAt(file, M, m + 1)
      /\ \A p \in m .. M - 1 : file[p].pos > 0
      /\ Padding(file, m + 1)
  <2>1. m \in Pos /\ FileTree(file, lo, m) /\ M \in Pos /\ Grown(file, lo, M, m, A)
        /\ AllJoined(lo, M, m) /\ (\A p \in 1 .. M - 1 : file[p].rsvd = "R")
        /\ file[M].rsvd = "root"
    BY <1>1, <1>2, <1>3
  <2>2. QED
    BY <1>1, <2>1, TreeJoined
<1>5. N \in Nat /\ 1 .. N \subseteq Pos /\ N > n + 1 /\ n + 1 \in Pos
  BY <1>1, <1>2, <1>3, <1>4, PosFacts DEF Pos
<1>6. file[n + 1].lvl = 0 /\ file[n + 1].isn
  BY <1>3, <1>4 DEF OpenAt, Padding
<1>7. file[n].rsvd = "R" /\ file[n + 1].rsvd = "R"
  BY <1>1, <1>2, <1>5
<1>8. Read(file, n) = file[n] /\ Read(file, n + 1) = file[n + 1]
  BY <1>1, <1>5 DEF Read
<1>9. /\ cur = n => ~ScanFails /\ ~AtPadLeaf
      /\ cur = n + 1 => ~ScanFails /\ AtPadLeaf
  BY <1>1, <1>5, <1>6, <1>7, <1>8 DEF ScanFails, AtPadLeaf, IsInterior, Nowhere
<1>10. \A p \in n + 1 .. N : AddedAt(file, lo, n, EndPages, p)
  BY <1>2 DEF Grown
<1>11. QED
  BY <1>1, <1>2, <1>3, <1>4, <1>5, <1>6, <1>9, <1>10

LEMMA ExtendScanKeeps ==
    ASSUME ShiftType, NEW lo, DInvAt(lo), ExtendScan, UNCHANGED shiftVars
    PROVE  ShiftType' /\ DInvAt(lo)'
<1> DEFINE n == hdr.rno
<1>1. /\ pc = "extend" /\ stage = "root" /\ q = <<>>
      /\ stage' = "idle" /\ at' = 0 /\ hlev' = NoPad /\ wpos' = 1
      /\ cur' = IF n = 1 \/ Read(file, n - 1).rsvd = "R" THEN n ELSE Nowhere
      /\ pc' = "scan"
      /\ UNCHANGED <<file, hdr, op, ret, q, cbd, glob, storeVars>>
  BY DEF ExtendScan, BeginScan
<1>2. UNCHANGED <<slot, acked, cut, copy, croot, wroot, rd, wr, broken>>
  BY DEF ExtendScan, storeVars, shiftVars
<1>3. ExtendAt(lo, EndPages) /\ hdr.fslo = NoPos /\ (Copied => croot = n /\ wroot = n)
  BY <1>1 DEF DInvAt, CallAt, GrowAt
<1>4. NewTree(lo, EndPages) /\ cbd = 0
  BY <1>1, <1>3 DEF ExtendAt, ExtendStage
<1>5. n \in Nat /\ n > 1 /\ Read(file, n - 1).rsvd = "R"
  <2>1. n \in Nat /\ n > 1 /\ n - 1 \in 1 .. n - 1 /\ 1 .. n \subseteq Pos
    BY ShiftFacts, FormedFacts DEF DInvAt, BaseAt
  <2>2. n - 1 \in Pos /\ file[n - 1].rsvd = "R"
    BY <2>1 DEF DInvAt, BaseAt, Formed, FileTree
  <2>3. QED
    BY <2>1, <2>2 DEF Read
<1>6. cur' = n
  BY <1>1, <1>5
<1>7. QueueTypeOK'
  BY <1>1, ShiftFacts DEF QueueTypeOK, NoPad
<1>8. KindsAt'
  BY <1>1, <1>2 DEF DInvAt, CallAt, KindsAt, Disorder, Copied, Known
<1>9. GrowAt(lo)'
  <2>1. EndPages' = EndPages
    BY <1>1 DEF EndPages, LastLeaf
  <2>2. NewTree(lo, EndPages)'
    BY <1>1, <1>2, <1>4, <2>1 DEF NewTree
  <2>3. QED
    BY <1>1, <1>2, <1>3, <1>4, <1>6, <2>2 DEF GrowAt, Copied
<1>10. CallAt(lo)'
  BY <1>1, <1>2, <1>4, <1>8, <1>9
     DEF CallAt, SearchAt, PathAt, Working, SlotAt, SepsAt, NextAt, AtRest
<1>11. (Shifting' <=> Shifting) /\ cut \subseteq Exempt'
  BY <1>1, <1>2 DEF Shifting, Exempt
<1>12. QED
  BY <1>1, <1>5, <1>6, <1>7, <1>10, <1>11, WalkInv

LEMMA ScanStepKeeps ==
    ASSUME ShiftType, NEW lo, DInvAt(lo), ScanStep, UNCHANGED shiftVars
    PROVE  ShiftType' /\ DInvAt(lo)'
<1> DEFINE n == hdr.rno
<1>1. /\ Scanning /\ ~AtPadLeaf /\ ~ScanFails
      /\ cur' = IF cur \in Pos THEN cur + 1 ELSE cur
      /\ UNCHANGED <<file, hdr, pc, op, ret, queueVars, storeVars, shiftVars>>
  BY DEF ScanStep
<1>2. UNCHANGED <<slot, acked, cut, stage, cbd, hlev, glob, copy, croot, wroot, rd, wr, broken>>
  BY <1>1 DEF storeVars, shiftVars, queueVars
<1>3. /\ file \in [Pos -> Block] /\ hdr \in Header /\ Formed(file, lo, hdr) /\ n \in Nat /\ n > 1
      /\ n \in Pos /\ 1 .. n \subseteq Pos /\ BaseAt(lo)
  BY ShiftFacts, FormedFacts DEF DInvAt, BaseAt
<1>4. GrowAt(lo)' /\ NextAt' /\ cur' \in Int
  <2>1. CASE pc \in {"scan", "rescan"}
    <3>1. /\ NewTree(lo, EndPages) /\ cur \in {n, n + 1} /\ (pc = "rescan" => cur = n + 1)
          /\ hdr.fslo = NoPos /\ (Copied => croot = n /\ wroot = n)
      BY <2>1 DEF DInvAt, CallAt, GrowAt
    <3>2. cur = n /\ pc = "scan"
      BY <1>1, <1>3, <2>1, <3>1, NewTreeFacts
    <3>3. cur' = n + 1
      BY <1>1, <1>3, <3>2
    <3>4. QED
      <4>1. EndPages' = EndPages
        BY <1>1 DEF EndPages, LastLeaf
      <4>2. NewTree(lo, EndPages)'
        BY <1>1, <1>2, <3>1, <4>1 DEF NewTree
      <4>3. QED
        BY <1>1, <1>2, <1>3, <3>1, <3>2, <3>3, <4>2 DEF GrowAt, NextAt, Copied
  <2>2. CASE pc = "next"
    <3>1. /\ slot = hdr.fslo /\ slot # NoPos /\ cur \in slot .. n
          /\ (\A x \in slot .. cur - 1 : InUse(file, x)) /\ (Disorder => wr >= slot)
      BY <2>2 DEF DInvAt, CallAt, SlotAt, Working, NextAt
    <3>2. slot \in 1 .. n - 1 /\ file[n].rsvd = "root"
      BY <1>3, <3>1, FormedFacts
    <3>3. cur \in Pos /\ Read(file, cur) = file[cur] /\ cur \in 1 .. n
      BY <1>3, <3>1, <3>2 DEF Read
    <3>4. cur # n
      BY <1>1, <3>2, <3>3 DEF ScanFails
    <3>5. InUse(file, cur)
      <4>1. file[cur].rsvd # "root" /\ cur # Nowhere /\ file[cur].lvl \in Nat
        BY <1>1, <1>3, <3>3, BlockTypes DEF ScanFails
      <4>2. QED
        BY <1>1, <3>3, <4>1 DEF AtPadLeaf, IsInterior, InUse
    <3>6. cur' = cur + 1 /\ cur' \in slot .. n
      BY <1>1, <1>3, <3>1, <3>2, <3>3, <3>4
    <3>7. \A x \in slot .. cur' - 1 : InUse(file, x)
      BY <1>3, <3>1, <3>2, <3>3, <3>5, <3>6
    <3>8. NextAt'
      BY <1>1, <1>2, <3>1, <3>6, <3>7 DEF NextAt, Disorder, InUse
    <3>9. QED
      BY <1>1, <2>2, <3>2, <3>6, <3>8 DEF GrowAt
  <2>3. QED
    BY <1>1, <2>1, <2>2 DEF Scanning
<1>5. QueueTypeOK'
  BY <1>1, QueueSame, ShiftFacts
<1>6. KindsAt' /\ SlotAt'
  BY <1>1, <1>2 DEF Scanning, DInvAt, CallAt, KindsAt, Disorder, Copied, Known, SlotAt, Working
<1>7. CallAt(lo)'
  BY <1>1, <1>2, <1>4, <1>6
     DEF Scanning, DInvAt, CallAt, SearchAt, PathAt, SepsAt, AtRest
<1>8. (Shifting' <=> Shifting) /\ cut \subseteq Exempt'
  BY <1>1, <1>2 DEF Shifting, Exempt
<1>9. pc # "idle" /\ pc # "path" /\ pc' \in {"scan", "rescan", "next"}
  BY <1>1 DEF Scanning
<1>10. QED
  BY <1>1, <1>4, <1>5, <1>7, <1>8, <1>9, WalkInv

LEMMA ExtendRescanKeeps ==
    ASSUME ShiftType, NEW lo, DInvAt(lo), ExtendRescan, UNCHANGED shiftVars
    PROVE  ShiftType' /\ DInvAt(lo)'
<1> DEFINE n == hdr.rno
<1>1. /\ pc = "scan" /\ ScanEnded /\ pc' = "rescan"
      /\ cur' = IF ScanFound = 1 \/ Read(file, ScanFound - 1).rsvd = "R" THEN ScanFound ELSE Nowhere
      /\ UNCHANGED <<file, hdr, op, ret, queueVars, storeVars, shiftVars>>
  BY DEF ExtendRescan, BeginScan
<1>2. UNCHANGED <<slot, acked, cut, stage, cbd, hlev, glob, copy, croot, wroot, rd, wr, broken>>
  BY <1>1 DEF storeVars, shiftVars, queueVars
<1>3. /\ NewTree(lo, EndPages) /\ cur \in {n, n + 1}
      /\ hdr.fslo = NoPos /\ (Copied => croot = n /\ wroot = n)
  BY <1>1 DEF DInvAt, CallAt, GrowAt
<1>4. /\ n \in Nat /\ n > 1 /\ n \in Pos /\ glob.rno \in Nat /\ glob.rno > n + 1
      /\ (\A p \in 1 .. glob.rno - 1 : file[p].rsvd = "R")
      /\ (cur = n => ~ScanFails /\ ~AtPadLeaf) /\ (cur = n + 1 => ~ScanFails)
  BY <1>3, NewTreeFacts DEF DInvAt
<1>5. cur = n + 1 /\ ScanFound = n + 1
  BY <1>1, <1>3, <1>4 DEF ScanEnded, ScanFound
<1>6. Read(file, n).rsvd = "R"
  BY <1>4 DEF Read
<1>7. cur' = n + 1
  BY <1>1, <1>4, <1>5, <1>6
<1>8. QueueTypeOK'
  BY <1>1, QueueSame, ShiftFacts
<1>9. KindsAt'
  BY <1>1, <1>2 DEF DInvAt, CallAt, KindsAt, Disorder, Copied, Known
<1>10. GrowAt(lo)'
  <2>1. EndPages' = EndPages
    BY <1>1 DEF EndPages, LastLeaf
  <2>2. NewTree(lo, EndPages)'
    BY <1>1, <1>2, <1>3, <2>1 DEF NewTree
  <2>3. QED
    BY <1>1, <1>2, <1>3, <1>7, <2>2 DEF GrowAt, Copied
<1>11. CallAt(lo)'
  BY <1>1, <1>2, <1>9, <1>10
     DEF DInvAt, CallAt, SearchAt, PathAt, Working, SlotAt, SepsAt, NextAt, AtRest
<1>12. (Shifting' <=> Shifting) /\ cut \subseteq Exempt'
  BY <1>1, <1>2 DEF Shifting, Exempt
<1>13. QED
  BY <1>1, <1>4, <1>7, <1>8, <1>11, <1>12, WalkInv

(* The header of the extended file.                                        *)
LEMMA FormedGrown ==
    ASSUME ShiftType, NEW lo, BaseAt(lo), NewTree(lo, EndPages), hdr.fslo = NoPos,
           NEW h, h = [rno |-> glob.rno, fslo |-> hdr.rno + 1]
    PROVE  h \in Header /\ Formed(file, lo, h) /\ FirstOpen(h) = FirstOpen(hdr)
<1> DEFINE n == hdr.rno
           N == glob.rno
<1>1. /\ file \in [Pos -> Block] /\ n \in Nat /\ n > 1 /\ n \in Pos /\ N \in Pos
      /\ n + 1 \in Pos /\ N \in Nat /\ N > n + 1 /\ 1 .. N \subseteq Pos
      /\ FileTree(file, lo, N) /\ OpenAt(file, N, n + 1)
      /\ \A p \in n .. N - 1 : file[p].pos > 0
      /\ \A p \in n + 1 .. N : AddedAt(file, lo, n, EndPages, p)
  BY NewTreeFacts
<1>2. /\ hdr \in Header /\ Formed(file, lo, hdr) /\ FirstOpen(hdr) = n + 1
      /\ \A p \in 1 .. n - 1 : file[p].pos > 0
      /\ \A x \in 1 .. n : file[x].lvl \in Nat /\ file[x].lcos \in Int
  BY ShiftFacts, FormedFacts DEF BaseAt
<1>3. h.rno = N /\ h.fslo = n + 1 /\ h \in Header
  BY <1>1, PosFacts DEF Header, Pos
<1>4. FirstOpen(h) = n + 1
  BY <1>1, <1>3 DEF FirstOpen, NoPos
<1>5. \A p \in 1 .. N - 1 : file[p].pos > 0
  BY <1>1, <1>2
<1>6. LeafAt(file, N, n + 1) /\ file[N].rsvd = "root"
  BY <1>1 DEF OpenAt, LeafAt
<1>7. ASSUME NEW x \in 1 .. n PROVE InUse(file, x)
  <2>1. x < FirstOpen(hdr)
    BY <1>1, <1>2
  <2>2. QED
    BY <1>2, <2>1 DEF Formed, PadsLast
<1>8. \A x \in n + 1 .. N : file[x].lvl = 0 => file[x].pn = NoPage /\ file[x].isn
  BY <1>1 DEF AddedAt
<1>9. PadsLast(file, N, n + 1)
  <2>1. \A x \in 1 .. N : file[x].lvl = 0 /\ file[x].isn => x \in n + 1 .. N
    BY <1>1, <1>7 DEF InUse
  <2>2. \A x \in 1 .. N : file[x].lvl = 0 /\ file[x].isn => file[x].pn = NoPage
    BY <1>8, <2>1
  <2>3. \A x \in 1 .. N : x < n + 1 => InUse(file, x)
    BY <1>1, <1>7
  <2>4. \A x, y \in 1 .. N :
            file[x].lvl = 0 /\ file[x].isn /\ x < y /\ file[y].lvl = 0 => file[y].isn
    BY <1>1, <1>8, <2>1
  <2>5. QED
    BY <2>2, <2>3, <2>4 DEF PadsLast
<1>10. PagesLeft(file, N)
  <2>1. SUFFICES ASSUME NEW p \in 1 .. N, file[p].lvl > 0, file[p].pn < NoPage,
                        NEW x \in 1 .. p + file[p].lcos
                 PROVE  InUse(file, x)
    BY DEF PagesLeft, InUse
  <2>2. CASE p <= n
    <3>1. p \in 1 .. n
      BY <1>1, <2>2
    <3>2. QED
      BY <1>2, <2>1, <3>1 DEF Formed, PagesLeft, InUse
  <2>3. CASE p > n
    <3>1. p \in n + 1 .. N /\ AddedAt(file, lo, n, EndPages, p)
      BY <1>1, <2>3
    <3>2. lo[p] \in 1 .. p
      BY <1>1 DEF FileTree, TreeAt
    <3>3. file[p].pn \in Nat
      BY <1>1, BlockTypes
    <3>4. ~(lo[p] > n)
      BY <2>1, <3>1, <3>3, DiskAssumption DEF AddedAt
    <3>5. p + file[p].lcos = n
      BY <1>1, <2>1, <3>1, <3>2, <3>4 DEF AddedAt
    <3>6. QED
      BY <1>7, <2>1, <3>5
  <2>4. QED
    BY <1>1, <2>2, <2>3
<1>11. QED
  BY <1>1, <1>2, <1>3, <1>4, <1>5, <1>6, <1>9, <1>10 DEF Formed

(* The header written by extentTheMHT names a tree in which everything     *)
(* behind the old root is padding, or above it.                            *)
LEMMA ExtendHeaderKeeps ==
    ASSUME ShiftType, NEW lo, DInvAt(lo), ExtendHeader,
           UNCHANGED <<copy, croot, rd, wr, broken>>,
           wroot' = IF Disorder THEN glob.rno ELSE wroot
    PROVE  ShiftType' /\ DInvAt(lo)'
<1> DEFINE n == hdr.rno
           N == glob.rno
<1>1. /\ pc = "rescan" /\ ScanEnded /\ hdr' = NewHeader /\ slot' = ScanFound /\ pc' = "fill"
      /\ UNCHANGED <<file, op, cur, ret, queueVars, acked, cut>>
  BY DEF ExtendHeader
<1>2. UNCHANGED <<stage, cbd, hlev, glob>>
  BY <1>1 DEF queueVars
<1>3. /\ NewTree(lo, EndPages) /\ cur = n + 1 /\ hdr.fslo = NoPos /\ (Copied => croot = n /\ wroot = n)
  BY <1>1 DEF DInvAt, CallAt, GrowAt
<1>4. BaseAt(lo) /\ Disorder = Copied
  <2>1. BaseAt(lo) /\ (Disorder => Copied) /\ (Copied => Disorder)
    BY <1>1 DEF DInvAt, CallAt, KindsAt, BaseAt, CopyInv
  <2>2. QED
    BY <2>1 DEF Disorder, Copied
<1>5. /\ n \in Nat /\ n > 1 /\ N \in Nat /\ N > n + 1 /\ N \in Pos /\ n + 1 \in Pos
      /\ 1 .. N \subseteq Pos /\ file \in [Pos -> Block]
      /\ \A p \in n + 1 .. N : AddedAt(file, lo, n, EndPages, p)
      /\ (cur = n + 1 => ~ScanFails)
  BY <1>3, <1>4, NewTreeFacts
<1>6. ScanFound = n + 1 /\ n + 1 # Nowhere
  BY <1>3, <1>5 DEF ScanFound, Nowhere
<1>7. hdr' = [rno |-> N, fslo |-> n + 1] /\ hdr'.rno = N /\ hdr'.fslo = n + 1 /\ slot' = n + 1
  BY <1>1, <1>6 DEF NewHeader
<1>8. hdr' \in Header /\ Formed(file, lo, hdr') /\ FirstOpen(hdr') = FirstOpen(hdr)
  BY <1>3, <1>4, <1>7, FormedGrown
<1>9. FirstOpen(hdr) = n + 1
  BY <1>3 DEF FirstOpen
<1>10. Exempt' = Exempt
  BY <1>1 DEF Exempt
<1>11. wroot' \in 0 .. MaxPos /\ (Copied' <=> Copied) /\ (Disorder => wroot' = N)
  <2>1. N \in 0 .. MaxPos /\ N # NoPos
    BY <1>5, DiskAssumption DEF Pos, NoPos
  <2>2. QED
    BY <1>4, <2>1, ShiftFacts DEF Copied, Disorder
<1>12. CopyInv'
  <2>1. SUFFICES ASSUME Copied PROVE CopyInv'
    BY <1>11 DEF CopyInv
  <2>2. /\ Disorder /\ copy[croot].lvl > 0 /\ croot = n
        /\ \A x \in 1 .. croot : copy[x].lvl = file[x].lvl
                                 /\ (x < FirstOpen(hdr) => InUse(copy, x))
        /\ SameLeaves(copy, file, croot)
    BY <1>1, <1>3, <1>4, <2>1 DEF BaseAt, CopyInv, Shifting
  <2>3. croot \in 1 .. N /\ hdr'.fslo = croot + 1 /\ ~Shifting' /\ Disorder'
    BY <1>1, <1>5, <1>7, <2>2 DEF Shifting, Disorder
  <2>4. UNCHANGED <<file, copy, croot>> /\ FirstOpen(hdr') = FirstOpen(hdr) /\ hdr'.rno = N
    BY <1>1, <1>7, <1>8
  <2>5. FirstOpen(hdr)' = FirstOpen(hdr)
    BY <2>4
  <2>6. \A x \in 1 .. croot : InUse(copy, x)' <=> InUse(copy, x)
    BY <2>4 DEF InUse
  <2>7. SameLeaves(copy, file, croot)'
    BY <2>2, <2>4 DEF SameLeaves, SameLeaf
  <2>8. \A x \in n + 1 .. N : file[x].lvl = 0 => file[x].isn
    BY <1>5 DEF AddedAt
  <2>9. QED
    BY <2>2, <2>3, <2>4, <2>5, <2>6, <2>7, <2>8 DEF CopyInv
<1>13. Ledger'
  <2>1. CASE Copied
    <3>1. SameLeaves(Source, Source', SourceRoot) /\ SourceRoot' = SourceRoot
      BY <1>11, <2>1 DEF Source, SourceRoot, SameLeaves, SameLeaf
    <3>2. QED
      BY <1>1, <1>4, <1>8, <1>10, <3>1, LedgerFrame DEF BaseAt
  <2>2. CASE ~Copied
    <3>1. PICK W : /\ IsFiniteSet(W) /\ Cardinality(W) <= broken
                   /\ Account(file, n, FirstOpen(hdr), W, Exempt)
      BY <1>4, <2>2 DEF BaseAt, Ledger, Source, SourceRoot
    <3>2. \A x \in 1 .. N : file[x].lvl = 0 /\ x >= FirstOpen(hdr) => file[x].pn \notin Known
      <4>1. ASSUME NEW x \in 1 .. N, file[x].lvl = 0, x >= FirstOpen(hdr) PROVE file[x].pn = NoPage
        BY <1>5, <1>9, <4>1 DEF AddedAt
      <4>2. NoPage \notin Known
        BY ShiftFacts
      <4>3. QED
        BY <4>1, <4>2
    <3>3. Account(file, N, FirstOpen(hdr), W, Exempt)
      <4>1. \A x \in 1 .. n : x \in 1 .. N
        BY <1>5
      <4>2. QED
        BY <3>1, <3>2, <4>1 DEF Account
    <3>4. Source' = file /\ SourceRoot' = N
      BY <1>1, <1>7, <1>11, <2>2 DEF Source, SourceRoot
    <3>5. Account(Source, SourceRoot, FirstOpen(hdr), W, Exempt)'
      BY <1>1, <1>8, <1>10, <3>3, <3>4 DEF Account, HoldsPage, Known
    <3>6. QED
      BY <3>1, <3>5 DEF Ledger
  <2>3. QED
    BY <2>1, <2>2
<1>14. BaseAt(lo)'
  <2>1. Formed(file, lo, hdr)' /\ Offsets'
    BY <1>1, <1>4, <1>8 DEF BaseAt, Offsets
  <2>2. QED
    BY <1>12, <1>13, <2>1 DEF BaseAt
<1>15. CallType'
  <2>1. n + 1 \in 0 .. MaxPos
    BY <1>5, DiskAssumption DEF Pos
  <2>2. QED
    BY <1>1, <1>7, <2>1 DEF ShiftType, CallType
<1>16. WorldType'
  <2>1. DiskTypeOK'
    BY <1>1, <1>5, <1>8 DEF DiskTypeOK
  <2>2. QueueTypeOK'
    BY <1>1, QueueSame DEF ShiftType, WorldType
  <2>3. QED
    BY <1>1, <1>11, <2>1, <2>2 DEF ShiftType, WorldType, Known
<1>17. KindsAt'
  <2>1. Disorder => Copied'
    BY <1>4, <1>11
  <2>2. QED
    BY <1>1, <2>1 DEF DInvAt, CallAt, KindsAt, Disorder, Known
<1>18. SlotAt'
  BY <1>1, <1>2, <1>5, <1>7, <1>11 DEF SlotAt, Disorder, NoPos
<1>19. CallAt(lo)'
  BY <1>1, <1>2, <1>17, <1>18
     DEF DInvAt, CallAt, SearchAt, PathAt, SepsAt, NextAt, GrowAt, AtRest
<1>20. QED
  BY <1>14, <1>15, <1>16, <1>19 DEF ShiftType, DInvAt

(* The second search.                                                      *)
LEMMA SearchAgainKeeps ==
    ASSUME ShiftType, NEW lo, DInvAt(lo), Disorder, SearchAgain
    PROVE  ShiftType' /\ DInvAt(lo)'
<1>1. /\ pc = "fill" /\ pc' = "search" /\ cur' = hdr.rno /\ ret' = NoPos
      /\ UNCHANGED <<file, hdr, op, queueVars, storeVars, shiftVars>>
  BY DEF SearchAgain
<1>2. UNCHANGED <<slot, acked, cut, stage, cbd, hlev, glob, copy, croot, wroot, rd, wr, broken>>
  BY <1>1 DEF storeVars, shiftVars, queueVars
<1>3. hdr.rno \in Int /\ hdr.rno \in 1 .. hdr.rno /\ lo[hdr.rno] = 1
  BY ShiftFacts, FormedFacts DEF DInvAt, BaseAt, Formed, FileTree
<1>4. CallType'
  <2>1. NoPos \in 0 .. MaxPos
    BY DiskAssumption DEF NoPos
  <2>2. QED
    BY <1>1, <1>2, <1>3, <2>1 DEF ShiftType, CallType
<1>5. WorldType'
  BY <1>1, <1>2, WorldStill
<1>6. BaseAt(lo)'
  <2>1. Exempt \subseteq Exempt' /\ (Shifting' <=> Shifting)
    BY <1>1, <1>2 DEF Exempt, Shifting
  <2>2. QED
    BY <1>1, <1>2, <2>1, BaseStill DEF DInvAt
<1>7. SearchAt(lo)'
  BY <1>1, <1>3 DEF SearchAt
<1>8. KindsAt'
  BY <1>1, <1>2 DEF DInvAt, CallAt, KindsAt, Disorder, Known
<1>9. SlotAt'
  BY <1>1, <1>2 DEF DInvAt, CallAt, SlotAt, Working, Disorder
<1>10. CallAt(lo)'
  BY <1>1, <1>2, <1>7, <1>8, <1>9 DEF DInvAt, CallAt, PathAt, SepsAt, NextAt, GrowAt, AtRest
<1>11. QED
  BY <1>4, <1>5, <1>6, <1>10 DEF ShiftType, DInvAt

-----------------------------------------------------------------------------
(* The walk over the separators, for either kind of insertion.             *)
LEMMA SepsStartKeeps ==
    ASSUME ShiftType, NEW lo, DInvAt(lo), pc = "path", op.kind # "update",
           pc' = "seps", cur' \in 1 .. hdr.rno - 1,
           UNCHANGED <<file, hdr, op, ret, queueVars, storeVars, shiftVars>>
    PROVE  ShiftType' /\ DInvAt(lo)'
<1>1. UNCHANGED <<slot, acked, cut, stage, cbd, hlev, glob, copy, croot, wroot, rd, wr, broken>>
  BY DEF storeVars, shiftVars, queueVars
<1>2. QueueTypeOK' /\ cur' \in Int
  BY QueueSame, ShiftFacts
<1>3. (Shifting' <=> Shifting) /\ cut \subseteq Exempt'
  BY <1>1 DEF Shifting, Exempt
<1>4. KindsAt' /\ SlotAt'
  BY <1>1 DEF DInvAt, CallAt, KindsAt, SlotAt, Working, Disorder, Copied, Known
<1>5. CallAt(lo)'
  BY <1>1, <1>4 DEF DInvAt, CallAt, SearchAt, PathAt, SepsAt, NextAt, GrowAt, AtRest
<1>6. QED
  BY <1>2, <1>3, <1>5, WalkInv

LEMMA SepsBeginKeeps ==
    ASSUME ShiftType, NEW lo, DInvAt(lo), SepsBegin, UNCHANGED shiftVars
    PROVE  ShiftType' /\ DInvAt(lo)'
<1>1. /\ pc = "seps" /\ cur' = Parent(file, cur) /\ pc' = "sepParent"
      /\ UNCHANGED <<file, hdr, op, ret, queueVars, storeVars, shiftVars>>
  BY DEF SepsBegin
<1>2. UNCHANGED <<slot, acked, cut, stage, cbd, hlev, glob, copy, croot, wroot, rd, wr, broken>>
  BY <1>1 DEF storeVars, shiftVars, queueVars
<1>3. /\ file \in [Pos -> Block] /\ hdr \in Header /\ Formed(file, lo, hdr)
      /\ cur \in 1 .. hdr.rno - 1
  BY <1>1, ShiftFacts DEF DInvAt, BaseAt, CallAt, SepsAt
<1>4. cur' \in 1 .. hdr.rno /\ file[cur'].lvl > 0
  BY <1>1, <1>3, ParentIn
<1>5. QueueTypeOK' /\ cur' \in Int
  BY <1>1, <1>4, QueueSame, ShiftFacts
<1>6. (Shifting' <=> Shifting) /\ cut \subseteq Exempt'
  BY <1>1, <1>2 DEF Shifting, Exempt
<1>7. KindsAt' /\ SlotAt' /\ SepsAt'
  BY <1>1, <1>2, <1>4 DEF DInvAt, CallAt, KindsAt, SlotAt, SepsAt, Working, Disorder, Copied, Known
<1>8. CallAt(lo)'
  BY <1>1, <1>2, <1>7 DEF DInvAt, CallAt, SearchAt, PathAt, NextAt, GrowAt, AtRest
<1>9. QED
  BY <1>1, <1>5, <1>6, <1>8, WalkInv

(* A step of that walk that writes a block.                                *)
LEMMA SepsWriteInv ==
    ASSUME ShiftType, NEW lo, DInvAt(lo), pc \in {"sepParent", "sepLeft", "sepRight"},
           file' \in [Pos -> Block], SameLeaves(file, file', hdr.rno),
           Formed(file', lo, hdr), Offsets',
           UNCHANGED <<hdr, op, cur, ret, queueVars, storeVars, shiftVars>>,
           pc' \in {"sepLeft", "sepRight", "seps", "sepsDone"},
           pc' = "seps" => cur \in 1 .. hdr.rno - 1
    PROVE  ShiftType' /\ DInvAt(lo)'
<1>1. UNCHANGED <<slot, acked, cut, stage, cbd, hlev, glob, copy, croot, wroot, rd, wr, broken>>
  BY DEF storeVars, shiftVars, queueVars
<1>2. /\ file \in [Pos -> Block] /\ hdr \in Header /\ Formed(file, lo, hdr) /\ hdr.rno \in Nat
      /\ CopyInv /\ Ledger /\ cur \in 1 .. hdr.rno /\ file[cur].lvl > 0
  BY ShiftFacts, FormedFacts DEF DInvAt, BaseAt, CallAt, SepsAt
<1>3. \A x \in 1 .. hdr.rno : file'[x].lvl = file[x].lvl
                              /\ (file[x].lvl = 0 => SameLeaf(file'[x], file[x]))
  BY DEF SameLeaves
<1>4. BaseAt(lo)'
  <2>1. Exempt' = Exempt /\ (Shifting' <=> Shifting)
    BY <1>1 DEF Exempt, Shifting
  <2>2. CopyInv'
    BY <1>1, <1>2, <2>1, CopyQuiet
  <2>3. Ledger'
    BY <1>1, <1>2, <2>1, LedgerQuiet
  <2>4. QED
    BY <2>2, <2>3 DEF BaseAt
<1>5. CallType'
  BY <1>1 DEF ShiftType, CallType
<1>6. WorldType'
  <2>1. DiskTypeOK' /\ QueueTypeOK'
    BY <1>2, QueueSame DEF DiskTypeOK, ShiftType, WorldType
  <2>2. QED
    BY <1>1, <2>1, WorldSame
<1>7. KindsAt'
  BY <1>1 DEF DInvAt, CallAt, KindsAt, Disorder, Copied, Known
<1>8. SlotAt'
  <2>1. /\ slot = hdr.fslo /\ slot # NoPos
        /\ IF Disorder THEN wroot = hdr.rno ELSE glob.rno = hdr.rno
        /\ ~Disorder => file[slot].pn = op.page /\ file[slot].h = op.hash /\ ~file[slot].isn
    BY DEF DInvAt, CallAt, SlotAt, Working
  <2>2. slot \in 1 .. hdr.rno /\ file[slot].lvl = 0
    BY <1>2, <2>1, FormedFacts
  <2>3. SameLeaf(file'[slot], file[slot])
    BY <1>3, <2>2
  <2>4. QED
    BY <1>1, <2>1, <2>3 DEF SlotAt, SameLeaf, Disorder
<1>9. SepsAt'
  BY <1>1, <1>2, <1>3 DEF SepsAt
<1>10. CallAt(lo)'
  BY <1>1, <1>7, <1>8, <1>9 DEF DInvAt, CallAt, SearchAt, PathAt, NextAt, GrowAt, AtRest
<1>11. QED
  BY <1>4, <1>5, <1>6, <1>10 DEF ShiftType, DInvAt

(* A separator that becomes the page of the leaf below it has no padding   *)
(* on its left.                                                            *)
LEMMA SepParentStays ==
    ASSUME ShiftType, NEW lo, DInvAt(lo), SepParent, UNCHANGED shiftVars
    PROVE  ShiftType' /\ DInvAt(lo)'
<1> DEFINE n == hdr.rno
           l == Lchild(file, cur)
           r == Rchild(file, cur)
           y == Rightmost(file, l)
           b == [file[cur] EXCEPT !.pn = Read(file, y).pn, !.lcpn = Read(file, l).pn,
                                  !.rcpn = Read(file, r).pn]
<1>1. /\ pc = "sepParent" /\ pc' = "sepLeft"
      /\ file' = Written(cur, [Read(file, cur) EXCEPT !.pn = Read(file, y).pn,
                       !.lcpn = Read(file, l).pn, !.rcpn = Read(file, r).pn])
      /\ UNCHANGED <<hdr, op, cur, ret, queueVars, storeVars, shiftVars>>
  BY DEF SepParent
<1>2. /\ file \in [Pos -> Block] /\ hdr \in Header /\ Formed(file, lo, hdr) /\ Offsets /\ n \in Nat
      /\ cur \in 1 .. n /\ file[cur].lvl > 0 /\ 1 .. n \subseteq Pos /\ FileTree(file, lo, n)
      /\ n \in 1 .. n
  BY <1>1, ShiftFacts, FormedFacts DEF DInvAt, BaseAt, CallAt, SepsAt, Formed
<1>3. /\ cur \in Pos /\ l = cur + file[cur].lcos /\ l \in 1 .. n /\ r \in 1 .. n
  BY <1>2, ChildrenIn
<1>4. y \in lo[l] .. l /\ file[y].lvl = 0 /\ \A x \in y + 1 .. l : file[x].lvl # 0
  BY <1>2, <1>3, RightmostInTree
<1>5. y \in 1 .. l /\ y \in 1 .. n /\ l \in Nat
  <2>1. lo[l] \in 1 .. l
    BY <1>2, <1>3 DEF FileTree, TreeAt
  <2>2. QED
    BY <1>2, <1>3, <1>4, <2>1
<1>6. Read(file, cur) = file[cur] /\ Read(file, y) = file[y] /\ Read(file, l) = file[l]
      /\ Read(file, r) = file[r]
  BY <1>2, <1>3, <1>5 DEF Read
<1>7. /\ b \in Block /\ SameLinks(b, file[cur]) /\ b.pn = file[y].pn
  <2>1. file[cur] \in Block /\ file[y].pn \in Nat /\ file[l].pn \in Nat /\ file[r].pn \in Nat
    BY <1>2, <1>3, <1>5, BlockTypes
  <2>2. QED
    BY <1>6, <2>1 DEF Block, SameLinks
<1>8. Puts(file, file', cur, b)
  BY <1>1, <1>3, <1>6 DEF Puts, Written
<1> HIDE DEF b, y, l, r
<1>9. file' \in [Pos -> Block] /\ file'[cur] = b /\ \A x \in Pos : x # cur => file'[x] = file[x]
  BY <1>2, <1>3, <1>7, <1>8, WriteFacts DEF Puts
<1>10. KeepsLinks(file, file', n) /\ file'[n].rsvd = file[n].rsvd
  BY <1>2, <1>3, <1>7, <1>8, LinksKept
<1>11. \A x \in 1 .. n : file[x].lvl = 0 => file'[x] = file[x]
  BY <1>2, <1>9
<1>12. SameLeaves(file, file', n)
  BY <1>10, <1>11 DEF SameLeaves, SameLeaf, KeepsLinks
<1>13. FillsUp(file, file', n)
  <2>1. \A x \in 1 .. n : file[x].lvl = 0 =>
           /\ file'[x].isn => file[x].isn /\ file'[x].pn = NoPage
           /\ ~(file[x].isn /\ ~file'[x].isn)
    BY <1>2, <1>11 DEF Formed, PadsLast
  <2>2. ASSUME NEW p \in 1 .. n, file[p].lvl > 0, file'[p].pn < NoPage, ~(file[p].pn < NoPage),
               NEW x \in 1 .. p + file[p].lcos
        PROVE  InUse(file, x)
    <3>1. p = cur
      BY <1>2, <1>9, <2>2
    <3>2. x \in 1 .. l /\ file[y].pn < NoPage
      BY <1>3, <1>7, <1>9, <2>2, <3>1
    <3>3. file[y].pn \in Nat /\ file[y].isn \in BOOLEAN
      BY <1>2, <1>5, BlockTypes
    <3>4. ~file[y].isn
      BY <1>2, <1>4, <1>5, <3>2, <3>3, DiskAssumption DEF Formed, PadsLast
    <3>5. CASE x > y
      BY <1>4, <1>5, <3>2, <3>5 DEF InUse
    <3>6. CASE x = y
      BY <3>4, <3>6 DEF InUse
    <3>7. CASE x < y
      <4>1. x \in 1 .. n
        BY <1>2, <1>3, <1>5, <3>2
      <4>2. QED
        BY <1>2, <1>4, <1>5, <3>4, <3>7, <4>1 DEF Formed, PadsLast, InUse
    <3>8. QED
      BY <1>5, <3>2, <3>5, <3>6, <3>7
  <2>3. QED
    BY <2>1, <2>2 DEF FillsUp
<1>14. Formed(file', lo, hdr)
  BY <1>2, <1>9, <1>10, <1>13, FormedFrame
<1>15. Offsets'
  <2>1. ASSUME NEW p \in Pos PROVE file'[p].pos \in Nat
    <3>1. file'[p].pos = file[p].pos
      BY <1>7, <1>9 DEF SameLinks
    <3>2. QED
      BY <1>2, <3>1 DEF Offsets
  <2>2. QED
    BY <2>1 DEF Offsets
<1>16. QED
  BY <1>1, <1>9, <1>12, <1>14, <1>15, SepsWriteInv

LEMMA SepChildKeeps ==
    ASSUME ShiftType, NEW lo, DInvAt(lo), NEW c, SetParentPage(c),
           pc \in {"sepLeft", "sepRight"},
           UNCHANGED <<hdr, op, cur, ret, queueVars, storeVars, shiftVars>>,
           pc' \in {"sepRight", "seps", "sepsDone"},
           pc' = "seps" => cur \in 1 .. hdr.rno - 1
    PROVE  ShiftType' /\ DInvAt(lo)'
<1> DEFINE n == hdr.rno
           v == Read(file, cur).pn
<1>1. /\ file \in [Pos -> Block] /\ hdr \in Header /\ Formed(file, lo, hdr) /\ Offsets /\ n \in Nat
      /\ cur \in 1 .. n /\ file[cur].lvl > 0 /\ 1 .. n \subseteq Pos /\ n \in 1 .. n
      /\ file[n].pos \in Nat
  BY ShiftFacts, FormedFacts DEF DInvAt, BaseAt, CallAt, SepsAt
<1>2. v \in Nat
  BY <1>1, BlockTypes DEF Read
<1>3. PutsPage(file, file', c, v)
  <2>1. c \in Pos => Read(file, c) = file[c]
    BY DEF Read
  <2>2. QED
    BY <2>1 DEF SetParentPage, Written, PutsPage
<1> HIDE DEF v
<1>4. /\ file' \in [Pos -> Block]
      /\ \A x \in Pos : SameShape(file, file', x) /\ file'[x].pos = file[x].pos
                        /\ file'[x].rsvd = file[x].rsvd /\ file'[x].h = file[x].h
  BY <1>1, <1>2, <1>3, PageWrite
<1>5. /\ SameLeaves(file, file', n) /\ KeepsLinks(file, file', n) /\ file'[n].rsvd = file[n].rsvd
      /\ \A p \in 1 .. n : file'[p].pn = file[p].pn
  BY <1>1, <1>4 DEF SameLeaves, SameLeaf, SameShape, KeepsLinks
<1>6. Formed(file', lo, hdr)
  BY <1>1, <1>4, <1>5, FormedQuiet
<1>7. Offsets'
  BY <1>1, <1>4 DEF Offsets
<1>8. QED
  BY <1>4, <1>5, <1>6, <1>7, SepsWriteInv

LEMMA SepLeftKeeps ==
    ASSUME ShiftType, NEW lo, DInvAt(lo), SepLeft, UNCHANGED shiftVars
    PROVE  ShiftType' /\ DInvAt(lo)'
<1>1. /\ pc = "sepLeft" /\ pc' = "sepRight"
      /\ UNCHANGED <<hdr, op, cur, ret, queueVars, storeVars>>
  BY DEF SepLeft
<1>2. PICK c : c = Lchild(file, cur)
  OBVIOUS
<1>3. SetParentPage(c)
  BY <1>2 DEF SepLeft, SetParentPage
<1>4. QED
  BY <1>1, <1>3, SepChildKeeps

LEMMA SepRightKeeps ==
    ASSUME ShiftType, NEW lo, DInvAt(lo), SepRight, UNCHANGED shiftVars
    PROVE  ShiftType' /\ DInvAt(lo)'
<1>1. /\ pc = "sepRight" /\ pc' = IF Climbs(file, cur) THEN "seps" ELSE "sepsDone"
      /\ UNCHANGED <<hdr, op, cur, ret, queueVars, storeVars>>
  BY DEF SepRight
<1>2. PICK c : c = Rchild(file, cur)
  OBVIOUS
<1>3. SetParentPage(c)
  BY <1>2 DEF SepRight, SetParentPage
<1>4. pc' = "seps" => cur \in 1 .. hdr.rno - 1
  <2>1. SUFFICES ASSUME Climbs(file, cur) PROVE cur \in 1 .. hdr.rno - 1
    BY <1>1
  <2>2. /\ file \in [Pos -> Block] /\ hdr \in Header /\ Formed(file, lo, hdr) /\ hdr.rno \in Nat
        /\ cur \in 1 .. hdr.rno /\ hdr.rno \in Pos /\ hdr.fslo # NoPos
    BY <1>1, ShiftFacts, FormedFacts DEF DInvAt, BaseAt, CallAt, SepsAt, SlotAt, Working
  <2>3. file[hdr.rno].rsvd = "root"
    BY <2>2, FormedFacts
  <2>4. cur # hdr.rno
    BY <2>1, <2>2, <2>3 DEF Climbs, Read
  <2>5. QED
    BY <2>2, <2>4
<1>5. pc' \in {"seps", "sepsDone"}
  BY <1>1
<1>6. QED
  BY <1>1, <1>3, <1>4, <1>5, SepChildKeeps

LEMMA PathDoneKeeps ==
    ASSUME ShiftType, NEW lo, DInvAt(lo), PathDone, UNCHANGED shiftVars
    PROVE  ShiftType' /\ DInvAt(lo)'
<1>1. /\ pc = "path" /\ op.kind = "insert" /\ pc' = "seps" /\ cur' = slot
      /\ UNCHANGED <<file, hdr, op, ret, queueVars, storeVars>>
  BY DEF PathDone, PathEnded
<1>2. slot = hdr.fslo /\ slot # NoPos
  BY <1>1 DEF DInvAt, CallAt, SlotAt, Working
<1>3. cur' \in 1 .. hdr.rno - 1
  BY <1>1, <1>2, ShiftFacts, FormedFacts DEF DInvAt, BaseAt
<1>4. QED
  BY <1>1, <1>3, SepsStartKeeps

LEMMA BeginSepsKeeps ==
    ASSUME ShiftType, NEW lo, DInvAt(lo), Disorder, BeginSeps
    PROVE  ShiftType' /\ DInvAt(lo)'
<1>1. /\ pc = "path" /\ op.kind # "update" /\ pc' = "seps" /\ cur' = wr
      /\ UNCHANGED <<file, hdr, op, ret, queueVars, storeVars, shiftVars>>
  BY DEF BeginSeps, PathEnded, Disorder
<1>2. LeafAt(file, hdr.rno, wr)
  BY <1>1 DEF DInvAt, BaseAt, CallAt, KindsAt, CopyInv, Shifting, ShiftAt
<1>3. cur' \in 1 .. hdr.rno - 1
  BY <1>1, <1>2, ShiftFacts, FormedFacts DEF DInvAt, BaseAt, LeafAt
<1>4. QED
  BY <1>1, <1>3, SepsStartKeeps

-----------------------------------------------------------------------------
(* The least and the greatest element of a set of positions.               *)
LEMMA LeastOf ==
    ASSUME NEW n \in Nat, NEW D, NEW d \in D, D \subseteq 1 .. n
    PROVE  \E m \in D : \A k \in 1 .. m - 1 : k \notin D
<1>1. SUFFICES ASSUME \A m \in D : \E k \in 1 .. m - 1 : k \in D PROVE FALSE
  OBVIOUS
<1>2. PICK S : S = (1 .. n) \ D
  OBVIOUS
<1>3. ASSUME NEW p \in 1 .. n, \A k \in 1 .. p - 1 : k \in S PROVE p \in S
  BY <1>1, <1>2, <1>3
<1>4. 1 .. n \subseteq S
  BY <1>3, UpTheRow
<1>5. QED
  BY <1>2, <1>4

LEMMA GreatestOf ==
    ASSUME NEW n \in Nat, NEW D, NEW d \in D, D \subseteq 1 .. n
    PROVE  \E m \in D : \A k \in m + 1 .. n : k \notin D
<1>1. PICK E : E = {k \in 1 .. n : n + 1 - k \in D}
  OBVIOUS
<1>2. E \subseteq 1 .. n /\ n + 1 - d \in E
  BY <1>1
<1>3. PICK e \in E : \A k \in 1 .. e - 1 : k \notin E
  BY <1>2, LeastOf
<1>4. n + 1 - e \in D /\ e \in 1 .. n
  BY <1>1, <1>3
<1>5. ASSUME NEW k \in n + 1 - e + 1 .. n PROVE k \notin D
  <2>1. n + 1 - k \in 1 .. e - 1 /\ n + 1 - k \in 1 .. n /\ n + 1 - (n + 1 - k) = k
    BY <1>4
  <2>2. QED
    BY <1>1, <1>3, <2>1
<1>6. QED
  BY <1>4, <1>5

(* What the loops over the leaves find.                                    *)
LEMMA NextLeafFacts ==
    ASSUME NEW f \in [Pos -> Block], NEW root \in Nat, 1 .. root \subseteq Pos, NEW p \in 1 .. root
    PROVE  LET x == NextLeaf(f, p, root) IN
           /\ x \in p .. root /\ (x = root \/ f[x].lvl = 0)
           /\ \A y \in p .. x - 1 : f[y].lvl > 0
<1>1. \A y \in 1 .. root : f[y].lvl \in Nat /\ (IsInterior(f, y) <=> f[y].lvl > 0)
  BY BlockTypes DEF IsInterior, Read
<1>2. \E x \in p .. root : /\ x = root \/ ~IsInterior(f, x)
                           /\ \A y \in p .. x - 1 : IsInterior(f, y)
  <2>1. PICK D : D = {x \in p .. root : x = root \/ ~IsInterior(f, x)}
    OBVIOUS
  <2>2. root \in D /\ D \subseteq 1 .. root
    BY <2>1
  <2>3. PICK m \in D : \A k \in 1 .. m - 1 : k \notin D
    BY <2>2, LeastOf
  <2>4. m \in p .. root /\ (m = root \/ ~IsInterior(f, m))
    BY <2>1, <2>3
  <2>5. ASSUME NEW y \in p .. m - 1 PROVE IsInterior(f, y)
    <3>1. y \in 1 .. m - 1 /\ y \in p .. root
      BY <2>4
    <3>2. QED
      BY <2>1, <2>3, <3>1
  <2>6. QED
    BY <2>4, <2>5
<1> DEFINE x == NextLeaf(f, p, root)
<1>3. /\ x \in p .. root /\ (x = root \/ ~IsInterior(f, x))
      /\ \A y \in p .. x - 1 : IsInterior(f, y)
  BY <1>2, Zenon DEF NextLeaf
<1> HIDE DEF x
<1>4. x \in 1 .. root /\ \A y \in p .. x - 1 : y \in 1 .. root
  BY <1>3
<1>5. x = root \/ f[x].lvl = 0
  BY <1>1, <1>3, <1>4
<1>6. \A y \in p .. x - 1 : f[y].lvl > 0
  BY <1>1, <1>3, <1>4
<1>7. QED
  BY <1>3, <1>5, <1>6 DEF x

LEMMA NextLeafIs ==
    ASSUME NEW f \in [Pos -> Block], NEW root \in Nat, 1 .. root \subseteq Pos, NEW p \in 1 .. root,
           NEW z \in p .. root, f[z].lvl = 0, \A y \in p .. z - 1 : f[y].lvl > 0
    PROVE  NextLeaf(f, p, root) = z
<1> DEFINE x == NextLeaf(f, p, root)
<1>1. /\ x \in p .. root /\ (x = root \/ f[x].lvl = 0)
      /\ \A y \in p .. x - 1 : f[y].lvl > 0
  BY NextLeafFacts
<1> HIDE DEF x
<1>2. ~(x < z) /\ ~(z < x)
  BY <1>1
<1>3. QED
  BY <1>1, <1>2 DEF x

(* The page the shift writes next is that of the leaf it wrote last.       *)
LEMMA ShiftMoves ==
    ASSUME ShiftType, NEW lo, BaseAt(lo), Copied, wroot = hdr.rno, NEW y, ShiftAt(y), MoreToShift
    PROVE  LET z == NextLeaf(file, wr + 1, wroot) IN
           /\ NextLeaf(copy, rd, croot) = wr /\ wr \in 1 .. croot - 1
           /\ z \in 1 .. hdr.rno - 1 /\ Neighbours(file, wr, z)
           /\ ~copy[wr].isn /\ copy[wr].lvl = 0
<1> DEFINE n == hdr.rno
           r == NextLeaf(copy, rd, croot)
           z == NextLeaf(file, wr + 1, wroot)
<1>1. /\ file \in [Pos -> Block] /\ copy \in [Pos -> Block] /\ n \in Nat /\ 1 .. n \subseteq Pos
      /\ croot \in Nat /\ rd \in Nat /\ wr \in Nat
  BY ShiftFacts, FormedFacts DEF BaseAt
<1>2. /\ croot \in 1 .. n /\ copy[croot].lvl > 0
      /\ \A x \in 1 .. croot : copy[x].lvl = file[x].lvl
  BY DEF BaseAt, CopyInv
<1>3. /\ wr \in 1 .. n /\ file[wr].lvl = 0 /\ rd \in 1 .. wr
      /\ \A x \in rd .. wr - 1 : x <= croot => copy[x].lvl > 0
  BY DEF ShiftAt, LeafAt
<1>4. wr + 1 < n /\ rd < croot /\ z < n /\ r < croot /\ ~copy[r].isn
  BY DEF MoreToShift
<1>5. 1 .. croot \subseteq Pos
  BY <1>1, <1>2
<1>6. r \in rd .. croot /\ (r = croot \/ copy[r].lvl = 0)
  BY <1>1, <1>3, <1>4, <1>5, NextLeafFacts
<1>7. /\ z \in wr + 1 .. n /\ (z = n \/ file[z].lvl = 0)
      /\ \A u \in wr + 1 .. z - 1 : file[u].lvl > 0
  <2>1. wr + 1 \in 1 .. n
    BY <1>1, <1>4
  <2>2. QED
    BY <1>1, <2>1, NextLeafFacts
<1> HIDE DEF r, z
<1>8. wr < croot
  BY <1>1, <1>3, <1>4, <1>6
<1>9. copy[wr].lvl = 0 /\ wr \in 1 .. croot - 1
  BY <1>1, <1>2, <1>3, <1>8
<1>10. r = wr
  <2>1. rd \in 1 .. croot /\ wr \in rd .. croot /\ \A x \in rd .. wr - 1 : copy[x].lvl > 0
    BY <1>1, <1>3, <1>8
  <2>2. QED
    BY <1>1, <1>5, <1>9, <2>1, NextLeafIs DEF r
<1>11. Neighbours(file, wr, z) /\ z \in 1 .. n - 1
  BY <1>1, <1>3, <1>4, <1>7 DEF Neighbours
<1>12. QED
  BY <1>4, <1>9, <1>10, <1>11 DEF r, z

(* The shift does not end before the leaf the header names was written.    *)
LEMMA ShiftPassesSlot ==
    ASSUME ShiftType, NEW lo, BaseAt(lo), Copied, wroot = hdr.rno, NEW y, ShiftAt(y),
           hdr.fslo # NoPos, wr < hdr.fslo
    PROVE  MoreToShift
<1> DEFINE n == hdr.rno
           s == hdr.fslo
           r == NextLeaf(copy, rd, croot)
           z == NextLeaf(file, wr + 1, wroot)
<1>1. /\ file \in [Pos -> Block] /\ copy \in [Pos -> Block] /\ n \in Nat /\ 1 .. n \subseteq Pos
      /\ croot \in Nat /\ rd \in Nat /\ wr \in Nat
      /\ s \in 1 .. n - 1 /\ file[s].lvl = 0 /\ FirstOpen(hdr) = s
  BY ShiftFacts, FormedFacts DEF BaseAt
<1>2. /\ croot \in 1 .. n /\ copy[croot].lvl > 0 /\ (croot = n \/ s = croot + 1)
      /\ \A x \in 1 .. croot : copy[x].lvl = file[x].lvl /\ (x < s => InUse(copy, x))
  BY <1>1 DEF BaseAt, CopyInv
<1>3. /\ wr \in 1 .. n /\ file[wr].lvl = 0 /\ rd \in 1 .. wr
      /\ \A x \in rd .. wr - 1 : x <= croot => copy[x].lvl > 0
  BY DEF ShiftAt, LeafAt
<1>4. wr < croot
  <2>1. wr # croot
    BY <1>2, <1>3
  <2>2. QED
    BY <1>1, <1>2, <1>3, <2>1
<1>5. copy[wr].lvl = 0 /\ wr \in 1 .. croot /\ ~copy[wr].isn
  BY <1>1, <1>2, <1>3, <1>4 DEF InUse
<1>6. r = wr
  <2>1. rd \in 1 .. croot /\ wr \in rd .. croot /\ 1 .. croot \subseteq Pos
        /\ \A x \in rd .. wr - 1 : copy[x].lvl > 0
    BY <1>1, <1>2, <1>3, <1>4
  <2>2. QED
    BY <1>1, <1>5, <2>1, NextLeafIs
<1>7. /\ z \in wr + 1 .. n /\ \A u \in wr + 1 .. z - 1 : file[u].lvl > 0
  <2>1. wr + 1 \in 1 .. n
    BY <1>1, <1>3
  <2>2. QED
    BY <1>1, <2>1, NextLeafFacts
<1> HIDE DEF r, z
<1>8. z <= s
  BY <1>1, <1>3, <1>7
<1>9. wr + 1 < wroot /\ rd < croot /\ z < wroot
  BY <1>1, <1>3, <1>4, <1>7, <1>8
<1>10. QED
  BY <1>4, <1>5, <1>6, <1>9 DEF MoreToShift, r, z

LEMMA NextBegins ==
    ASSUME ShiftType, NEW lo, DInvAt(lo), pc = "sepsDone", BeginScan(slot), pc' = "next",
           Disorder => wr >= slot,
           UNCHANGED <<file, hdr, op, ret, queueVars, storeVars, shiftVars>>
    PROVE  ShiftType' /\ DInvAt(lo)'
<1> DEFINE n == hdr.rno
<1>1. UNCHANGED <<slot, acked, cut, stage, cbd, hlev, glob, copy, croot, wroot, rd, wr, broken>>
  BY DEF storeVars, shiftVars, queueVars
<1>2. slot = hdr.fslo /\ slot # NoPos
  BY DEF DInvAt, CallAt, SlotAt, Working
<1>3. /\ n \in Nat /\ 1 .. n \subseteq Pos /\ slot \in 1 .. n - 1
      /\ \A x \in 1 .. n - 1 : file[x].rsvd = "R"
  BY <1>2, ShiftFacts, FormedFacts DEF DInvAt, BaseAt
<1>4. cur' = slot
  <2>1. slot # 1 => slot - 1 \in 1 .. n - 1 /\ slot - 1 \in Pos
    BY <1>3
  <2>2. QED
    BY <1>3, <2>1 DEF BeginScan, Read
<1>5. QueueTypeOK' /\ cur' \in Int
  BY <1>3, <1>4, QueueSame, ShiftFacts
<1>6. (Shifting' <=> Shifting) /\ cut \subseteq Exempt'
  BY <1>1 DEF Shifting, Exempt
<1>7. KindsAt' /\ SlotAt'
  BY <1>1 DEF DInvAt, CallAt, KindsAt, SlotAt, Working, Disorder, Copied, Known
<1>8. NextAt'
  <2>1. slot \in slot .. n /\ slot .. slot - 1 = {}
    BY <1>3
  <2>2. QED
    BY <1>1, <1>4, <2>1 DEF NextAt, Disorder
<1>9. CallAt(lo)'
  BY <1>1, <1>7, <1>8 DEF DInvAt, CallAt, SearchAt, PathAt, SepsAt, GrowAt, AtRest
<1>10. QED
  BY <1>5, <1>6, <1>9, WalkInv

LEMMA NextPadKeeps ==
    ASSUME ShiftType, NEW lo, DInvAt(lo), ~Disorder, NextPad, UNCHANGED shiftVars
    PROVE  ShiftType' /\ DInvAt(lo)'
  BY NextBegins DEF NextPad

(* The shift is over: it has passed the leaf that the header names.        *)
LEMMA ShiftEndsKeeps ==
    ASSUME ShiftType, NEW lo, DInvAt(lo), Disorder, ShiftEnds
    PROVE  ShiftType' /\ DInvAt(lo)'
<1>1. /\ pc = "sepsDone" /\ ~MoreToShift /\ BeginScan(slot) /\ pc' = "next"
      /\ UNCHANGED <<file, hdr, op, ret, queueVars, storeVars, shiftVars>>
  BY DEF ShiftEnds
<1>2. Copied /\ BaseAt(lo) /\ wroot = hdr.rno /\ slot = hdr.fslo /\ hdr.fslo # NoPos
  BY <1>1 DEF DInvAt, CallAt, KindsAt, SlotAt, Working
<1>3. PICK y \in 1 .. wr : ShiftAt(y)
  BY <1>1, <1>2 DEF BaseAt, CopyInv, Shifting
<1>4. wr \in Nat /\ hdr.fslo \in 0 .. MaxPos /\ MaxPos \in Nat
  BY ShiftFacts, DiskAssumption
<1>5. wr >= slot
  BY <1>1, <1>2, <1>3, <1>4, ShiftPassesSlot
<1>6. QED
  BY <1>1, <1>5, NextBegins

-----------------------------------------------------------------------------
(* A leaf is written: none before it is padding.                           *)
LEMMA LeafWritten ==
    ASSUME NEW f \in [Pos -> Block], NEW lo, NEW h \in Header, Formed(f, lo, h),
           NEW z \in 1 .. h.rno, f[z].lvl = 0, NEW b \in Block, SameLinks(b, f[z]), ~b.isn,
           NEW g, Puts(f, g, z, b), \A u \in 1 .. z - 1 : InUse(f, u),
           \A p \in Pos : f[p].pos \in Nat
    PROVE  /\ g \in [Pos -> Block] /\ Formed(g, lo, h) /\ g[z] = b
           /\ \A x \in Pos : x # z => g[x] = f[x]
           /\ \A x \in 1 .. h.rno : g[x].lvl = f[x].lvl
           /\ \A p \in Pos : g[p].pos \in Nat
<1> DEFINE n == h.rno
<1>1. /\ n \in Nat /\ 1 .. n \subseteq Pos /\ FileTree(f, lo, n) /\ z \in Pos
      /\ \A x \in 1 .. n : f[x].isn \in BOOLEAN
  BY FormedFacts DEF Formed
<1>2. g \in [Pos -> Block] /\ g[z] = b /\ \A x \in Pos : x # z => g[x] = f[x]
  BY <1>1, WriteFacts DEF Puts
<1>3. KeepsLinks(f, g, n) /\ g[n].rsvd = f[n].rsvd
  BY <1>1, LinksKept
<1>4. \A x \in 1 .. n : g[x].lvl = f[x].lvl
  BY <1>3 DEF KeepsLinks
<1>5. FillsUp(f, g, n)
  <2>1. ASSUME NEW x \in 1 .. n, f[x].lvl = 0
        PROVE  /\ g[x].isn => f[x].isn /\ g[x].pn = NoPage
               /\ f[x].isn /\ ~g[x].isn => \A u \in 1 .. x - 1 : InUse(f, u)
    <3>1. CASE x = z
      BY <1>2, <3>1
    <3>2. CASE x # z
      BY <1>1, <1>2, <2>1, <3>2 DEF Formed, PadsLast
    <3>3. QED
      BY <3>1, <3>2
  <2>2. ASSUME NEW p \in 1 .. n, f[p].lvl > 0 PROVE g[p].pn = f[p].pn
    BY <1>1, <1>2, <2>2
  <2>3. QED
    BY <2>1, <2>2 DEF FillsUp
<1>6. Formed(g, lo, h)
  BY <1>2, <1>3, <1>5, FormedFrame
<1>7. \A p \in Pos : g[p].pos \in Nat
  BY <1>2 DEF SameLinks
<1>8. QED
  BY <1>2, <1>4, <1>6, <1>7

(* insertNewMHTBlock fills the leaf that the header names; no reported     *)
(* page is in it that the account does not count as lost.                  *)
LEMMA FillKeeps ==
    ASSUME ShiftType, NEW lo, DInvAt(lo), ~Disorder, Fill, UNCHANGED shiftVars
    PROVE  ShiftType' /\ DInvAt(lo)'
<1> DEFINE n == hdr.rno
           b == [file[slot] EXCEPT !.pn = op.page, !.h = op.hash, !.isn = FALSE, !.izn = FALSE]
<1>1. /\ pc = "fill" /\ slot \in Pos /\ file' = [file EXCEPT ![slot] = b]
      /\ cur' = slot /\ pc' = "path"
      /\ UNCHANGED <<hdr, op, ret, queueVars, storeVars, shiftVars>>
  BY DEF Fill
<1>2. UNCHANGED <<slot, acked, cut, stage, cbd, hlev, glob, copy, croot, wroot, rd, wr, broken>>
  BY <1>1 DEF storeVars, shiftVars, queueVars
<1>3. /\ slot = hdr.fslo /\ slot # NoPos /\ glob.rno = n /\ op.kind = "insert"
      /\ op.page \notin Known /\ ~Copied
  BY <1>1, IdleNoCopy DEF DInvAt, CallAt, SlotAt, Working, KindsAt, Disorder
<1>4. /\ file \in [Pos -> Block] /\ hdr \in Header /\ Formed(file, lo, hdr) /\ Offsets
      /\ n \in Nat /\ 1 .. n \subseteq Pos /\ slot \in 1 .. n /\ file[slot].lvl = 0
      /\ FirstOpen(hdr) = slot /\ op.page \in Nat /\ op.hash \in Hash
  BY <1>3, ShiftFacts, FormedFacts DEF DInvAt, BaseAt
<1>5. /\ b \in Block /\ SameLinks(b, file[slot]) /\ ~b.isn /\ b.pn = op.page /\ b.h = op.hash
      /\ b.lvl = 0
  <2>1. file[slot] \in Block
    BY <1>1, <1>4
  <2>2. QED
    BY <1>4, <2>1 DEF Block, SameLinks
<1>6. Puts(file, file', slot, b)
  BY <1>1 DEF Puts
<1>7. \A u \in 1 .. slot - 1 : InUse(file, u)
  <2>1. ASSUME NEW u \in 1 .. slot - 1 PROVE InUse(file, u)
    <3>1. u \in 1 .. n /\ u < FirstOpen(hdr)
      BY <1>4
    <3>2. QED
      BY <1>4, <3>1 DEF Formed, PadsLast
  <2>2. QED
    BY <2>1
<1> HIDE DEF b
<1>8. /\ file' \in [Pos -> Block] /\ Formed(file', lo, hdr) /\ file'[slot] = b
      /\ \A x \in Pos : x # slot => file'[x] = file[x]
      /\ \A x \in 1 .. n : file'[x].lvl = file[x].lvl
      /\ \A p \in Pos : file'[p].pos \in Nat
  <2>1. PICK z : z = slot
    OBVIOUS
  <2>2. z \in 1 .. n /\ file[z].lvl = 0 /\ SameLinks(b, file[z]) /\ Puts(file, file', z, b)
        /\ \A u \in 1 .. z - 1 : InUse(file, u)
    BY <1>4, <1>5, <1>6, <1>7, <2>1
  <2>3. \A p \in Pos : file[p].pos \in Nat
    BY <1>4 DEF Offsets
  <2>4. /\ file' \in [Pos -> Block] /\ Formed(file', lo, hdr) /\ file'[z] = b
        /\ \A x \in Pos : x # z => file'[x] = file[x]
        /\ \A x \in 1 .. n : file'[x].lvl = file[x].lvl
        /\ \A p \in Pos : file'[p].pos \in Nat
    BY <1>4, <1>5, <2>2, <2>3, LeafWritten
  <2>5. QED
    BY <2>1, <2>4
<1>9. ~Copied'
  BY <1>2, <1>3 DEF Copied
<1>10. Ledger'
  <2>1. PICK W : /\ IsFiniteSet(W) /\ Cardinality(W) <= broken
                 /\ Account(file, n, slot, W, cut)
    BY <1>1, <1>3, <1>4 DEF DInvAt, BaseAt, Ledger, Source, SourceRoot, Exempt
  <2>2. ASSUME NEW x \in 1 .. n, file'[x].lvl = 0, x >= slot, file'[x].pn \in Known
        PROVE  file'[x].pn \in W
    <3>1. x # slot
      BY <1>3, <1>5, <1>8, <2>2
    <3>2. file'[x] = file[x]
      BY <1>4, <1>8, <3>1
    <3>3. QED
      BY <2>1, <2>2, <3>2 DEF Account
  <2>3. ASSUME NEW p \in Known \ (W \cup cut) PROVE \E x \in 1 .. n : HoldsPage(file', x, slot, p)
    <3>1. PICK x \in 1 .. n : HoldsPage(file, x, slot, p)
      BY <2>1 DEF Account
    <3>2. file'[x] = file[x]
      BY <1>4, <1>8, <3>1 DEF HoldsPage
    <3>3. QED
      BY <3>1, <3>2 DEF HoldsPage
  <2>4. Account(file', n, slot, W, cut)
    BY <2>2, <2>3 DEF Account
  <2>5. Exempt' = cut
    BY <1>1, <1>2, <1>3 DEF Exempt
  <2>6. FirstOpen(hdr)' = slot /\ Source' = file' /\ SourceRoot' = n
    BY <1>1, <1>4, <1>9 DEF Source, SourceRoot
  <2>7. Account(Source, SourceRoot, FirstOpen(hdr), W, Exempt)'
    BY <1>2, <2>4, <2>5, <2>6 DEF Account, HoldsPage, Known
  <2>8. QED
    BY <1>2, <2>1, <2>7 DEF Ledger
<1>11. BaseAt(lo)'
  <2>1. CopyInv'
    BY <1>9 DEF CopyInv
  <2>2. QED
    BY <1>1, <1>8, <1>10, <2>1 DEF BaseAt, Offsets
<1>12. CallType'
  BY <1>1, <1>2, <1>4 DEF ShiftType, CallType
<1>13. WorldType'
  <2>1. DiskTypeOK' /\ QueueTypeOK'
    BY <1>1, <1>4, <1>8, QueueSame, ShiftFacts DEF DiskTypeOK
  <2>2. QED
    BY <1>1, <1>2, <2>1, WorldSame
<1>14. KindsAt'
  BY <1>1, <1>2, <1>3 DEF DInvAt, CallAt, KindsAt, Disorder, Known
<1>15. PathAt' /\ SlotAt'
  BY <1>1, <1>2, <1>3, <1>4, <1>5, <1>8 DEF PathAt, SlotAt, Disorder
<1>16. CallAt(lo)'
  BY <1>1, <1>2, <1>14, <1>15 DEF DInvAt, CallAt, SearchAt, SepsAt, NextAt, GrowAt, AtRest
<1>17. QED
  BY <1>11, <1>12, <1>13, <1>16 DEF ShiftType, DInvAt

(* The insertion in page order writes a leaf.                              *)
LEMMA PutLeafFacts ==
    ASSUME ShiftType, NEW lo, Formed(file, lo, hdr), Offsets,
           NEW z \in 1 .. hdr.rno, file[z].lvl = 0, \A u \in 1 .. z - 1 : InUse(file, u),
           NEW page \in Nat, NEW hash \in Hash, PutLeaf(z, page, hash, FALSE)
    PROVE  /\ file' \in [Pos -> Block] /\ Formed(file', lo, hdr) /\ Offsets'
           /\ file'[z].pn = page /\ file'[z].h = hash /\ ~file'[z].isn
           /\ \A x \in 1 .. hdr.rno : x # z => file'[x] = file[x]
           /\ \A x \in 1 .. hdr.rno : file'[x].lvl = file[x].lvl
<1> DEFINE b == [file[z] EXCEPT !.pn = page, !.h = hash, !.isn = FALSE]
<1>1. file \in [Pos -> Block] /\ hdr \in Header /\ 1 .. hdr.rno \subseteq Pos
  BY ShiftFacts, FormedFacts
<1>2. /\ b \in Block /\ SameLinks(b, file[z]) /\ ~b.isn /\ b.pn = page /\ b.h = hash
  <2>1. file[z] \in Block
    BY <1>1
  <2>2. QED
    BY <2>1 DEF Block, SameLinks
<1>3. Puts(file, file', z, b)
  BY DEF PutLeaf, Puts
<1> HIDE DEF b
<1>4. /\ file' \in [Pos -> Block] /\ Formed(file', lo, hdr) /\ file'[z] = b
      /\ \A x \in Pos : x # z => file'[x] = file[x]
      /\ \A x \in 1 .. hdr.rno : file'[x].lvl = file[x].lvl
      /\ \A p \in Pos : file'[p].pos \in Nat
  <2>1. \A p \in Pos : file[p].pos \in Nat
    BY DEF Offsets
  <2>2. QED
    BY <1>1, <1>2, <1>3, <2>1, LeafWritten
<1>5. QED
  BY <1>1, <1>2, <1>4 DEF Offsets

LEMMA PutLeafKeeps ==
    ASSUME ShiftType, NEW lo, DInvAt(lo), Disorder, Copied, pc \in {"search", "sepsDone"},
           file' \in [Pos -> Block], Formed(file', lo, hdr), Offsets', CopyInv',
           pc' = "path", cur' = wr', wr' \in 1 .. hdr.rno, rd' \in 1 .. wr',
           UNCHANGED <<hdr, op, ret, queueVars, storeVars, copy, croot, wroot, broken>>
    PROVE  ShiftType' /\ DInvAt(lo)'
<1>1. UNCHANGED <<slot, acked, cut, stage, cbd, hlev, glob>>
  BY DEF storeVars, queueVars
<1>2. Copied' /\ Exempt' = cut /\ Exempt = cut /\ hdr.rno \in Nat /\ hdr.rno <= MaxPos
      /\ MaxPos \in Nat
  BY <1>1, ShiftFacts, FormedFacts, DiskAssumption DEF Copied, Exempt, Disorder, DInvAt, BaseAt
<1>3. Ledger'
  <2>1. SameLeaves(Source, Source', SourceRoot) /\ SourceRoot' = SourceRoot
    BY <1>2 DEF Source, SourceRoot, SameLeaves, SameLeaf
  <2>2. QED
    BY <1>1, <1>2, <2>1, LedgerFrame DEF DInvAt, BaseAt
<1>4. BaseAt(lo)'
  BY <1>3 DEF BaseAt
<1>5. CallType'
  <2>1. cur' \in Int
    BY <1>2
  <2>2. QED
    BY <1>1, <2>1 DEF ShiftType, CallType
<1>6. WorldType'
  <2>1. wr' \in 0 .. MaxPos /\ rd' \in 0 .. MaxPos + 1
    BY <1>2
  <2>2. DiskTypeOK' /\ QueueTypeOK'
    BY QueueSame DEF DiskTypeOK, ShiftType, WorldType
  <2>3. QED
    BY <1>1, <2>1, <2>2 DEF ShiftType, WorldType, Known
<1>7. KindsAt'
  BY <1>1, <1>2 DEF DInvAt, CallAt, KindsAt, Disorder, Known
<1>8. PathAt' /\ SlotAt'
  <2>1. cur' \in Int /\ cur' >= 1
    BY <1>2
  <2>2. QED
    BY <1>1, <2>1 DEF DInvAt, CallAt, PathAt, SlotAt, Working, Disorder
<1>9. CallAt(lo)'
  BY <1>1, <1>7, <1>8 DEF DInvAt, CallAt, SearchAt, SepsAt, NextAt, GrowAt, AtRest
<1>10. QED
  BY <1>4, <1>5, <1>6, <1>9 DEF ShiftType, DInvAt

(* The page takes the leaf that the search found.                          *)
LEMMA PutPageKeeps ==
    ASSUME ShiftType, NEW lo, DInvAt(lo), Disorder, PutPage
    PROVE  ShiftType' /\ DInvAt(lo)'
<1> DEFINE n == hdr.rno
<1>1. /\ pc = "search" /\ ~IsInterior(file, cur) /\ Copied
      /\ PutLeaf(cur, op.page, op.hash, FALSE) /\ rd' = cur /\ wr' = cur /\ cur' = cur /\ pc' = "path"
      /\ UNCHANGED <<hdr, op, ret, queueVars, storeVars, copy, croot, wroot, broken>>
  BY DEF PutPage, AtLeaf, PutLeaf
<1>2. /\ file \in [Pos -> Block] /\ hdr \in Header /\ Formed(file, lo, hdr) /\ Offsets
      /\ n \in Nat /\ 1 .. n \subseteq Pos /\ op.page \in Nat /\ op.hash \in Hash
      /\ \A x \in 1 .. n : file[x].lvl \in Nat
  BY ShiftFacts, FormedFacts DEF DInvAt, BaseAt
<1>3. cur \in 1 .. n /\ \A x \in 1 .. lo[cur] - 1 : InUse(file, x)
  BY <1>1 DEF DInvAt, CallAt, SearchAt
<1>4. file[cur].lvl = 0 /\ lo[cur] = cur
  <2>1. file[cur].lvl = 0
    BY <1>1, <1>2, <1>3 DEF IsInterior, Read
  <2>2. QED
    BY <1>2, <1>3, <2>1 DEF Formed, FileTree, TreeAt
<1>5. /\ file' \in [Pos -> Block] /\ Formed(file', lo, hdr) /\ Offsets'
      /\ file'[cur].pn = op.page /\ file'[cur].h = op.hash /\ ~file'[cur].isn
      /\ \A x \in 1 .. n : x # cur => file'[x] = file[x]
      /\ \A x \in 1 .. n : file'[x].lvl = file[x].lvl
  <2>1. PICK z, page, hash : z = cur /\ page = op.page /\ hash = op.hash
    OBVIOUS
  <2>2. /\ z \in 1 .. n /\ file[z].lvl = 0 /\ page \in Nat /\ hash \in Hash
        /\ \A u \in 1 .. z - 1 : InUse(file, u)
    BY <1>2, <1>3, <1>4, <2>1
  <2>3. PutLeaf(z, page, hash, FALSE)
    BY <1>1, <2>1 DEF PutLeaf
  <2>4. /\ file' \in [Pos -> Block] /\ Formed(file', lo, hdr) /\ Offsets'
        /\ file'[z].pn = page /\ file'[z].h = hash /\ ~file'[z].isn
        /\ \A x \in 1 .. n : x # z => file'[x] = file[x]
        /\ \A x \in 1 .. n : file'[x].lvl = file[x].lvl
    BY <1>2, <2>2, <2>3, PutLeafFacts
  <2>5. QED
    BY <2>1, <2>4
<1>6. /\ croot \in 1 .. n /\ copy[croot].lvl > 0 /\ (croot = n \/ hdr.fslo = croot + 1)
      /\ \A x \in 1 .. croot : copy[x].lvl = file[x].lvl /\ (x < FirstOpen(hdr) => InUse(copy, x))
      /\ \A x \in 1 .. croot : file[x].lvl = copy[x].lvl
                               /\ (copy[x].lvl = 0 => SameLeaf(file[x], copy[x]))
      /\ \A x \in croot + 1 .. n : file[x].lvl = 0 => file[x].isn
  BY <1>1 DEF DInvAt, BaseAt, CopyInv, Shifting, SameLeaves
<1>7. UNCHANGED <<hdr, copy, croot, op>> /\ Copied' /\ Disorder' /\ Shifting'
  BY <1>1 DEF Copied, Disorder, Shifting
<1>8. PICK y : y = cur
  OBVIOUS
<1>9. y = wr' /\ rd' = y /\ y \in 1 .. n /\ y \in Nat
  BY <1>1, <1>2, <1>3, <1>8
<1>10. ShiftAt(y)'
  <2>1. LeafAt(file', n, y) /\ LeafAt(file', n, wr') /\ y <= wr'
    BY <1>4, <1>5, <1>8, <1>9 DEF LeafAt
  <2>2. file'[y].pn = op.page /\ file'[y].h = op.hash /\ ~file'[y].isn /\ ~file'[wr'].isn
    BY <1>5, <1>8, <1>9
  <2>3. ASSUME NEW x \in 1 .. croot, file'[x].lvl = 0, x < y \/ x > wr' PROVE SameLeaf(file'[x], copy[x])
    <3>1. x \in 1 .. n /\ x # cur
      BY <1>2, <1>6, <1>8, <1>9, <2>3
    <3>2. file'[x] = file[x] /\ copy[x].lvl = 0
      BY <1>5, <1>6, <2>3, <3>1
    <3>3. QED
      BY <1>6, <3>2
  <2>4. ASSUME NEW x \in 1 .. n, NEW z \in 1 .. n, Neighbours(file', x, z), y <= x, z <= wr'
        PROVE  FALSE
    BY <1>2, <1>9, <2>4 DEF Neighbours
  <2>5. rd' \in 1 .. wr' /\ \A x \in rd' .. wr' - 1 : FALSE
    <3>1. \A v \in Nat : v >= 1 => v \in 1 .. v /\ \A x \in v .. v - 1 : FALSE
      OBVIOUS
    <3>2. y \in Nat /\ y >= 1
      BY <1>2, <1>9
    <3>3. y \in 1 .. y /\ \A x \in y .. y - 1 : FALSE
      BY <3>1, <3>2
    <3>4. QED
      BY <1>9, <3>3
  <2>6. ASSUME NEW x \in 1 .. y - 1, file'[x].lvl = 0 PROVE x <= croot
    <3>1. x \in 1 .. cur - 1
      BY <1>8, <2>6
    <3>2. x \in 1 .. n
      BY <1>2, <1>3, <3>1
    <3>3. InUse(file, x) /\ file[x].lvl = 0
      BY <1>3, <1>4, <1>5, <2>6, <3>1, <3>2
    <3>4. ~file[x].isn
      BY <3>3 DEF InUse
    <3>5. QED
      BY <1>2, <1>6, <3>2, <3>3, <3>4
  <2>7. QED
    BY <1>7, <2>1, <2>2, <2>3, <2>4, <2>5, <2>6 DEF ShiftAt
<1>11. CopyInv'
  <2>1. y \in 1 .. wr'
    BY <1>9
  <2>2. \A x \in 1 .. croot : copy[x].lvl = file'[x].lvl /\ (x < FirstOpen(hdr) => InUse(copy, x))
    BY <1>2, <1>5, <1>6
  <2>3. ASSUME NEW x \in croot + 1 .. n, file'[x].lvl = 0, x > wr' PROVE file'[x].isn
    <3>1. x \in 1 .. n /\ x # cur
      BY <1>2, <1>6, <1>8, <1>9, <2>3
    <3>2. QED
      BY <1>5, <1>6, <2>3, <3>1
  <2>4. QED
    BY <1>6, <1>7, <1>10, <2>1, <2>2, <2>3 DEF CopyInv
<1>12. pc \in {"search", "sepsDone"} /\ cur' = wr' /\ wr' \in 1 .. n /\ rd' \in 1 .. wr'
  BY <1>1, <1>2, <1>3
<1>13. QED
  BY <1>1, <1>5, <1>11, <1>12, PutLeafKeeps

(* A turn of the shift.                                                    *)
LEMMA ShiftTurnKeeps ==
    ASSUME ShiftType, NEW lo, DInvAt(lo), Disorder, Shift
    PROVE  ShiftType' /\ DInvAt(lo)'
<1> DEFINE n == hdr.rno
<1>1. PICK z, r : z = NextLeaf(file, wr + 1, wroot) /\ r = NextLeaf(copy, rd, croot)
  OBVIOUS
<1>2. /\ pc = "sepsDone" /\ MoreToShift /\ PutLeaf(z, copy[r].pn, copy[r].h, copy[r].isn)
      /\ rd' = r + 1 /\ wr' = z /\ cur' = z /\ pc' = "path"
      /\ UNCHANGED <<hdr, op, ret, queueVars, storeVars, copy, croot, wroot, broken>>
  BY <1>1 DEF Shift, PutLeaf
<1>3. Copied /\ BaseAt(lo) /\ wroot = n
  BY <1>2 DEF DInvAt, CallAt, KindsAt, SlotAt, Working
<1>4. PICK y \in 1 .. wr : ShiftAt(y)
  BY <1>2, <1>3 DEF BaseAt, CopyInv, Shifting
<1>5. /\ r = wr /\ wr \in 1 .. croot - 1 /\ z \in 1 .. n - 1 /\ Neighbours(file, wr, z)
      /\ ~copy[wr].isn /\ copy[wr].lvl = 0
  BY <1>1, <1>2, <1>3, <1>4, ShiftMoves
<1>6. /\ file \in [Pos -> Block] /\ hdr \in Header /\ Formed(file, lo, hdr) /\ Offsets
      /\ n \in Nat /\ 1 .. n \subseteq Pos /\ copy \in [Pos -> Block] /\ wr \in Nat /\ croot \in Nat
      /\ \A x \in 1 .. n : file[x].lvl \in Nat /\ file[x].isn \in BOOLEAN
  BY <1>3, ShiftFacts, FormedFacts DEF BaseAt
<1>7. /\ croot \in 1 .. n /\ copy[croot].lvl > 0 /\ (croot = n \/ hdr.fslo = croot + 1)
      /\ \A x \in 1 .. croot : copy[x].lvl = file[x].lvl /\ (x < FirstOpen(hdr) => InUse(copy, x))
      /\ \A x \in croot + 1 .. n : file[x].lvl = 0 /\ x > wr => file[x].isn
  BY <1>2, <1>3 DEF BaseAt, CopyInv, Shifting
<1>8. /\ z \in 1 .. n /\ z \in Nat /\ file[z].lvl = 0 /\ file[wr].lvl = 0 /\ wr < z
      /\ \A u \in wr + 1 .. z - 1 : file[u].lvl > 0
  BY <1>5, <1>6 DEF Neighbours
<1>9. wr \in 1 .. n /\ wr \in Pos /\ ~file[wr].isn
  BY <1>4, <1>6 DEF ShiftAt, LeafAt
<1>10. ASSUME NEW u \in 1 .. z - 1 PROVE InUse(file, u)
  <2>1. u \in 1 .. n /\ u \in Nat
    BY <1>6, <1>8
  <2>2. CASE u < wr
    BY <1>6, <1>8, <1>9, <2>1, <2>2 DEF Formed, PadsLast, InUse
  <2>3. CASE u = wr
    BY <1>9, <2>3 DEF InUse
  <2>4. CASE u > wr
    BY <1>6, <1>8, <2>1, <2>4 DEF InUse
  <2>5. QED
    BY <1>6, <2>1, <2>2, <2>3, <2>4
<1>11. PICK page, hash : page = copy[wr].pn /\ hash = copy[wr].h
  OBVIOUS
<1>12. page \in Nat /\ hash \in Hash /\ copy[wr].isn = FALSE
  <2>1. copy[wr] \in Block
    BY <1>6, <1>9
  <2>2. QED
    BY <1>5, <1>11, <2>1 DEF Block
<1>13. PutLeaf(z, page, hash, FALSE)
  BY <1>2, <1>5, <1>11, <1>12
<1>14. /\ file' \in [Pos -> Block] /\ Formed(file', lo, hdr) /\ Offsets'
       /\ file'[z].pn = page /\ file'[z].h = hash /\ ~file'[z].isn
       /\ \A x \in 1 .. n : x # z => file'[x] = file[x]
       /\ \A x \in 1 .. n : file'[x].lvl = file[x].lvl
  BY <1>6, <1>8, <1>10, <1>12, <1>13, PutLeafFacts
<1>15. UNCHANGED <<hdr, copy, croot, op>> /\ Copied' /\ Disorder' /\ Shifting'
  BY <1>2, <1>3 DEF Copied, Disorder, Shifting
<1>16. rd' = wr + 1 /\ wr' = z
  BY <1>2, <1>5
<1>17. ShiftAt(y)'
  <2>1. y \in 1 .. n /\ y < z /\ y \in Nat /\ file[y].lvl = 0
    BY <1>4, <1>6, <1>8 DEF ShiftAt, LeafAt
  <2>2. LeafAt(file', n, y) /\ LeafAt(file', n, wr') /\ y <= wr'
    BY <1>8, <1>14, <1>16, <2>1 DEF LeafAt
  <2>3. file'[y].pn = op.page /\ file'[y].h = op.hash /\ ~file'[y].isn /\ ~file'[wr'].isn
    <3>1. file'[y] = file[y]
      BY <1>14, <2>1
    <3>2. QED
      BY <1>4, <1>14, <1>16, <3>1 DEF ShiftAt
  <2>4. ASSUME NEW x \in 1 .. croot, file'[x].lvl = 0, x < y \/ x > wr' PROVE SameLeaf(file'[x], copy[x])
    <3>1. x \in 1 .. n /\ x # z /\ (x < y \/ x > wr)
      BY <1>6, <1>7, <1>8, <1>16, <2>1, <2>4
    <3>2. file'[x] = file[x] /\ file[x].lvl = 0
      BY <1>14, <2>4, <3>1
    <3>3. QED
      BY <1>4, <3>1, <3>2 DEF ShiftAt
  <2>5. ASSUME NEW x \in 1 .. n, NEW u \in 1 .. n, Neighbours(file', x, u), y <= x, u <= wr'
        PROVE  x <= croot /\ SameLeaf(file'[u], copy[x])
    <3>1. /\ file[x].lvl = 0 /\ file[u].lvl = 0 /\ x < u /\ u <= z
          /\ \A v \in x + 1 .. u - 1 : file[v].lvl > 0
      <4>1. \A v \in x + 1 .. u - 1 : v \in 1 .. n
        BY <1>6
      <4>2. QED
        BY <1>14, <1>16, <2>5, <4>1 DEF Neighbours
    <3>2. CASE u <= wr
      <4>1. Neighbours(file, x, u)
        BY <3>1 DEF Neighbours
      <4>2. x <= croot /\ SameLeaf(file[u], copy[x])
        BY <1>4, <2>5, <3>2, <4>1 DEF ShiftAt
      <4>3. file'[u] = file[u]
        BY <1>6, <1>8, <1>14, <3>2
      <4>4. QED
        BY <4>2, <4>3
    <3>3. CASE u > wr
      <4>1. u = z
        BY <1>6, <1>8, <3>1, <3>3
      <4>2. ~(x < wr)
        BY <1>6, <1>8, <3>1, <4>1
      <4>3. ~(x > wr)
        BY <1>6, <1>8, <3>1, <4>1
      <4>4. x = wr
        BY <1>6, <4>2, <4>3
      <4>5. file'[z].isn = FALSE
        BY <1>8, <1>14, BlockTypes
      <4>6. SameLeaf(file'[z], copy[wr])
        BY <1>11, <1>12, <1>14, <4>5 DEF SameLeaf
      <4>7. wr <= croot
        BY <1>5, <1>6
      <4>8. QED
        BY <4>1, <4>4, <4>6, <4>7
    <3>4. QED
      BY <1>6, <3>2, <3>3
  <2>6. rd' \in 1 .. wr' /\ \A x \in rd' .. wr' - 1 : x <= croot => copy[x].lvl > 0
    <3>1. wr + 1 \in 1 .. z
      BY <1>6, <1>8
    <3>2. ASSUME NEW x \in wr + 1 .. z - 1, x <= croot PROVE copy[x].lvl > 0
      BY <1>6, <1>7, <1>8, <3>2
    <3>3. QED
      BY <1>16, <3>1, <3>2
  <2>7. \A x \in 1 .. y - 1 : file'[x].lvl = 0 => x <= croot
    BY <1>4, <1>6, <1>14, <2>1 DEF ShiftAt
  <2>8. QED
    BY <1>15, <2>2, <2>3, <2>4, <2>5, <2>6, <2>7 DEF ShiftAt
<1>18. CopyInv'
  <2>1. y \in 1 .. wr'
    BY <1>4, <1>6, <1>8, <1>16
  <2>2. \A x \in 1 .. croot : copy[x].lvl = file'[x].lvl /\ (x < FirstOpen(hdr) => InUse(copy, x))
    BY <1>6, <1>7, <1>14
  <2>3. ASSUME NEW x \in croot + 1 .. n, file'[x].lvl = 0, x > wr' PROVE file'[x].isn
    <3>1. x \in 1 .. n /\ x # z /\ x > wr
      BY <1>6, <1>7, <1>8, <1>16, <2>3
    <3>2. QED
      BY <1>7, <1>14, <2>3, <3>1
  <2>4. QED
    BY <1>7, <1>15, <1>17, <2>1, <2>2, <2>3 DEF CopyInv
<1>19. pc \in {"search", "sepsDone"} /\ cur' = wr' /\ wr' \in 1 .. n /\ rd' \in 1 .. wr'
  BY <1>2, <1>6, <1>8, <1>16
<1>20. QED
  BY <1>2, <1>3, <1>14, <1>18, <1>19, PutLeafKeeps

-----------------------------------------------------------------------------
(* The scan for the next padding leaf ends on the first one behind the     *)
(* pages, if there is one.                                                 *)
LEMMA NextEnds ==
    ASSUME ShiftType, NEW lo, DInvAt(lo), pc = "next", ScanEnded,
           NEW h, h = [rno |-> hdr.rno, fslo |-> NewHeader.fslo]
    PROVE  /\ h \in Header /\ h.rno = hdr.rno /\ Formed(file, lo, h)
           /\ slot \in 1 .. hdr.rno - 1 /\ slot = FirstOpen(hdr) /\ slot <= FirstOpen(h)
           /\ \A x \in 1 .. hdr.rno : file[x].lvl = 0 /\ ~file[x].isn => x < FirstOpen(h)
           /\ \A x \in 1 .. hdr.rno : file[x].lvl = 0 /\ x >= FirstOpen(h) => file[x].pn = NoPage
<1> DEFINE n == hdr.rno
<1>1. slot = hdr.fslo /\ slot # NoPos
  BY DEF DInvAt, CallAt, SlotAt, Working
<1>2. cur \in slot .. n /\ \A x \in slot .. cur - 1 : InUse(file, x)
  BY DEF DInvAt, CallAt, NextAt
<1>3. /\ file \in [Pos -> Block] /\ hdr \in Header /\ Formed(file, lo, hdr) /\ n \in Nat /\ n > 1
      /\ 1 .. n \subseteq Pos /\ n <= MaxPos /\ slot \in 1 .. n - 1 /\ FirstOpen(hdr) = slot
      /\ file[n].lvl > 0 /\ file[n].rsvd = "root" /\ MaxPos \in Nat
      /\ \A x \in 1 .. n - 1 : file[x].rsvd = "R"
      /\ \A x \in 1 .. n : file[x].lvl \in Nat /\ (file[x].lvl = 0 => x < n)
  BY <1>1, ShiftFacts, FormedFacts, DiskAssumption DEF DInvAt, BaseAt
<1>4. /\ \A x \in 1 .. n : file[x].lvl = 0 /\ file[x].isn => file[x].pn = NoPage
      /\ \A x \in 1 .. n : x < slot => InUse(file, x)
      /\ \A x, y \in 1 .. n : file[x].lvl = 0 /\ file[x].isn /\ x < y /\ file[y].lvl = 0 => file[y].isn
  BY <1>3 DEF Formed, PadsLast
<1>5. cur \in 1 .. n /\ cur \in Nat /\ cur # Nowhere /\ Read(file, cur) = file[cur]
  BY <1>2, <1>3 DEF Nowhere, Read
<1>6. \A x \in 1 .. n : x < cur => InUse(file, x)
  BY <1>2, <1>3, <1>4, <1>5
<1>7. CASE ScanFails
  <2>1. cur = n
    BY <1>3, <1>5, <1>7 DEF ScanFails
  <2>2. h.rno = n /\ h.fslo = NoPos
    BY <1>7 DEF NewHeader, ScanFound
  <2>3. h \in Header /\ FirstOpen(h) = n + 1
    BY <1>3, <2>2 DEF Header, FirstOpen, NoPos
  <2>4. \A x \in 1 .. n : InUse(file, x)
    BY <1>3, <1>6, <2>1 DEF InUse
  <2>5. PadsLast(file, n, n + 1)
    BY <1>4, <2>4 DEF PadsLast
  <2>6. Formed(file, lo, h)
    BY <1>3, <2>2, <2>3, <2>5 DEF Formed
  <2>7. QED
    BY <1>3, <2>2, <2>3, <2>6
<1>8. CASE ~ScanFails
  <2>1. file[cur].lvl = 0 /\ file[cur].isn
    BY <1>3, <1>5, <1>8 DEF ScanEnded, AtPadLeaf, IsInterior
  <2>2. h.rno = n /\ h.fslo = cur
    BY <1>5, <1>8 DEF NewHeader, ScanFound
  <2>3. h \in Header /\ FirstOpen(h) = cur /\ h.fslo # NoPos
    BY <1>3, <1>5, <2>2 DEF Header, FirstOpen, NoPos
  <2>4. PadsLast(file, n, cur)
    BY <1>4, <1>6 DEF PadsLast
  <2>5. LeafAt(file, n, cur)
    BY <1>5, <2>1 DEF LeafAt
  <2>6. Formed(file, lo, h)
    BY <1>3, <2>2, <2>3, <2>4, <2>5 DEF Formed
  <2>7. slot <= cur
    BY <1>2, <1>3
  <2>8. \A x \in 1 .. n : file[x].lvl = 0 /\ ~file[x].isn => x < cur
    BY <1>3, <1>4, <1>5, <2>1
  <2>9. \A x \in 1 .. n : file[x].lvl = 0 /\ x >= cur => file[x].pn = NoPage
    BY <1>3, <1>4, <1>5, <2>1
  <2>10. QED
    BY <1>3, <2>2, <2>3, <2>6, <2>7, <2>8, <2>9
<1>9. QED
  BY <1>7, <1>8

(* The header was written, and the call returns.                           *)
LEMMA ReturnKeeps ==
    ASSUME ShiftType, NEW lo, DInvAt(lo), pc = "next", ScanEnded,
           hdr' = [rno |-> hdr.rno, fslo |-> NewHeader.fslo], Return,
           acked' = [p \in Known \cup {op.page} |-> IF p = op.page THEN op.hash ELSE acked[p]],
           UNCHANGED <<file, queueVars, broken>>,
           copy' \in [Pos -> Block], croot' \in 0 .. MaxPos, wroot' = NoPos,
           rd' \in 0 .. MaxPos + 1, wr' \in 0 .. MaxPos,
           Ledger'
    PROVE  ShiftType' /\ DInvAt(lo)'
<1>1. stage' = "idle" /\ cbd' = 0 /\ hlev' = NoPad
  BY DEF DInvAt, CallAt, AtRest, queueVars
<1>2. CallType' /\ CallAt(lo)'
  BY <1>1, CallOver
<1>3. hdr' \in Header /\ Formed(file, lo, hdr')
  <2>1. PICK h : h = [rno |-> hdr.rno, fslo |-> NewHeader.fslo]
    OBVIOUS
  <2>2. h \in Header /\ Formed(file, lo, h)
    BY <2>1, NextEnds
  <2>3. QED
    BY <2>1, <2>2
<1>4. ~Copied' /\ CopyInv'
  BY DEF Copied, CopyInv
<1>5. BaseAt(lo)'
  BY <1>3, <1>4 DEF DInvAt, BaseAt, Offsets
<1>6. WorldType'
  <2>1. DiskTypeOK' /\ QueueTypeOK'
    BY <1>3, QueueSame, ShiftFacts DEF DiskTypeOK
  <2>2. 0 \in 0 .. MaxPos
    BY DiskAssumption
  <2>3. Known' \subseteq Pages
    BY ShiftFacts DEF Known, DInvAt, CallAt, KindsAt
  <2>4. QED
    BY <2>1, <2>2, <2>3 DEF ShiftType, WorldType, NoPos
<1>7. QED
  BY <1>2, <1>5, <1>6 DEF ShiftType, DInvAt

(* The header names the next padding leaf, and the page inserted is        *)
(* reported.                                                               *)
LEMMA InsertReturnsKeeps ==
    ASSUME ShiftType, NEW lo, DInvAt(lo), ~Disorder, InsertReturns, UNCHANGED shiftVars
    PROVE  ShiftType' /\ DInvAt(lo)'
<1> DEFINE n == hdr.rno
<1>1. /\ pc = "next" /\ ScanEnded /\ hdr' = NewHeader /\ Return
      /\ acked' = [p \in Known \cup {op.page} |-> IF p = op.page THEN op.hash ELSE acked[p]]
      /\ cut' = cut \cap Known /\ pc' = "idle"
      /\ UNCHANGED <<file, queueVars, shiftVars>>
  BY DEF InsertReturns, Known, Return
<1>2. UNCHANGED <<copy, croot, wroot, rd, wr, broken>>
  BY <1>1 DEF shiftVars
<1>3. /\ glob.rno = n /\ op.kind = "insert" /\ op.page \notin Known /\ ~Copied
      /\ file[slot].pn = op.page /\ file[slot].h = op.hash /\ ~file[slot].isn
  BY <1>1, IdleNoCopy DEF DInvAt, CallAt, SlotAt, Working, KindsAt, Disorder
<1>4. hdr' = [rno |-> n, fslo |-> NewHeader.fslo]
  BY <1>1, <1>3 DEF NewHeader
<1>5. PICK h : h = [rno |-> n, fslo |-> NewHeader.fslo]
  OBVIOUS
<1>6. /\ h \in Header /\ h.rno = n /\ slot = FirstOpen(hdr) /\ slot <= FirstOpen(h)
      /\ slot \in 1 .. n - 1
      /\ \A x \in 1 .. n : file[x].lvl = 0 /\ ~file[x].isn => x < FirstOpen(h)
      /\ \A x \in 1 .. n : file[x].lvl = 0 /\ x >= FirstOpen(h) => file[x].pn = NoPage
  BY <1>1, <1>5, NextEnds
<1>7. /\ n \in Nat /\ file[slot].lvl = 0 /\ FirstOpen(h) \in Int /\ slot \in 1 .. n
  <2>1. hdr.fslo # NoPos
    BY <1>1 DEF DInvAt, CallAt, SlotAt, Working
  <2>2. n \in Nat /\ file[hdr.fslo].lvl = 0 /\ FirstOpen(hdr) = hdr.fslo
    BY <2>1, ShiftFacts, FormedFacts DEF DInvAt, BaseAt
  <2>3. FirstOpen(h) \in Int
    BY <1>6, DiskAssumption DEF FirstOpen, Header
  <2>4. QED
    BY <1>6, <2>2, <2>3
<1>8. PICK s : s = FirstOpen(h)
  OBVIOUS
<1>9. PICK W : /\ IsFiniteSet(W) /\ Cardinality(W) <= broken
               /\ Account(file, n, slot, W, cut)
  BY <1>1, <1>3, <1>6 DEF DInvAt, BaseAt, Ledger, Source, SourceRoot, Exempt
<1>10. Known' = Known \cup {op.page} /\ Exempt' = cut \cap Known
  BY <1>1 DEF Known, Exempt
<1>11. NoPage \notin Known'
  <2>1. op.page \in Pages
    BY <1>1 DEF DInvAt, CallAt, KindsAt
  <2>2. QED
    BY <1>10, <2>1, ShiftFacts
<1>12. \A x \in 1 .. n : file[x].lvl = 0 /\ x >= s => file[x].pn \notin Known'
  BY <1>6, <1>8, <1>11
<1>13. ASSUME NEW p \in Known' \ (W \cup Exempt') PROVE \E x \in 1 .. n : HoldsPage(file, x, s, p)'
  <2>1. CASE p = op.page
    <3>1. PICK x : x = slot
      OBVIOUS
    <3>2. acked'[p] = op.hash
      BY <1>1, <2>1
    <3>3. x \in 1 .. n /\ x < s /\ file[x].lvl = 0 /\ ~file[x].isn /\ file[x].pn = p
          /\ file[x].h = acked'[p]
      BY <1>3, <1>6, <1>7, <1>8, <2>1, <3>1, <3>2
    <3>4. HoldsPage(file, x, s, p)'
      BY <1>1, <3>3 DEF HoldsPage
    <3>5. QED
      BY <3>3, <3>4
  <2>2. CASE p # op.page
    <3>1. p \in Known /\ p \notin W \cup cut /\ acked'[p] = acked[p]
      BY <1>1, <1>10, <2>2
    <3>2. PICK x \in 1 .. n : HoldsPage(file, x, slot, p)
      BY <1>9, <3>1 DEF Account
    <3>3. x < s
      BY <1>6, <1>7, <1>8, <3>2 DEF HoldsPage
    <3>4. HoldsPage(file, x, s, p)'
      BY <1>1, <3>1, <3>2, <3>3 DEF HoldsPage
    <3>5. QED
      BY <3>4
  <2>3. QED
    BY <2>1, <2>2
<1>14. Ledger'
  <2>1. hdr' = h /\ FirstOpen(hdr)' = s /\ Source' = file' /\ SourceRoot' = n
    BY <1>2, <1>3, <1>4, <1>5, <1>6, <1>8 DEF Source, SourceRoot, Copied
  <2>2. Account(Source, SourceRoot, FirstOpen(hdr), W, Exempt)'
    BY <1>1, <1>12, <1>13, <2>1 DEF Account, HoldsPage
  <2>3. QED
    BY <1>2, <1>9, <2>2 DEF Ledger
<1>15. copy' \in [Pos -> Block] /\ croot' \in 0 .. MaxPos /\ wroot' = NoPos
       /\ rd' \in 0 .. MaxPos + 1 /\ wr' \in 0 .. MaxPos
  BY <1>2, <1>3 DEF ShiftType, WorldType, Copied
<1>16. QED
  BY <1>1, <1>2, <1>4, <1>14, <1>15, ReturnKeeps

(* The leaf that follows a leaf, and the one before.                       *)
LEMMA NextOf ==
    ASSUME NEW f \in [Pos -> Block], NEW w \in Nat, 1 .. w \subseteq Pos, NEW x \in 1 .. w - 1,
           f[x].lvl = 0, f[w].lvl = 0
    PROVE  \E z \in 1 .. w : Neighbours(f, x, z)
<1>1. PICK z : z = NextLeaf(f, x + 1, w)
  OBVIOUS
<1>2. x + 1 \in 1 .. w
  OBVIOUS
<1>3. /\ z \in x + 1 .. w /\ (z = w \/ f[z].lvl = 0)
      /\ \A u \in x + 1 .. z - 1 : f[u].lvl > 0
  BY <1>1, <1>2, NextLeafFacts
<1>4. z \in 1 .. w /\ Neighbours(f, x, z)
  BY <1>3 DEF Neighbours
<1>5. QED
  BY <1>4

LEMMA LastBefore ==
    ASSUME NEW f \in [Pos -> Block], NEW w \in Nat, 1 .. w \subseteq Pos, NEW x \in 1 .. w - 1,
           f[x].lvl = 0
    PROVE  \E u \in 1 .. w - 1 : f[u].lvl = 0 /\ \A v \in u + 1 .. w - 1 : f[v].lvl > 0
<1>1. PICK D : D = {v \in 1 .. w - 1 : f[v].lvl = 0}
  OBVIOUS
<1>2. PICK m : m = w - 1
  OBVIOUS
<1>3. m \in Nat /\ x \in D /\ D \subseteq 1 .. m
  BY <1>1, <1>2
<1>4. PICK u \in D : \A k \in u + 1 .. m : k \notin D
  BY <1>3, GreatestOf
<1>5. u \in 1 .. w - 1 /\ f[u].lvl = 0
  BY <1>1, <1>4
<1>6. ASSUME NEW v \in u + 1 .. w - 1 PROVE f[v].lvl > 0
  <2>1. v \in 1 .. w - 1 /\ v \notin D /\ v \in Pos
    BY <1>2, <1>4, <1>5
  <2>2. f[v].lvl \in Nat /\ f[v].lvl # 0
    BY <1>1, <2>1, BlockTypes
  <2>3. QED
    BY <2>2
<1>7. QED
  BY <1>5, <1>6

(* Where the shift has put the page of a leaf of the copy.                 *)
LEMMA CopyShown ==
    ASSUME ShiftType, NEW lo, BaseAt(lo), Copied, Shifting, NEW y, ShiftAt(y),
           NEW x \in 1 .. croot, copy[x].lvl = 0, x # wr
    PROVE  /\ x \in 1 .. hdr.rno /\ file[x].lvl = 0
           /\ \/ (x < y \/ x > wr) /\ SameLeaf(file[x], copy[x])
              \/ y <= x /\ x < wr
                 /\ \E z \in 1 .. wr : Neighbours(file, x, z) /\ SameLeaf(file[z], copy[x])
<1>1. /\ file \in [Pos -> Block] /\ copy \in [Pos -> Block] /\ hdr.rno \in Nat
      /\ 1 .. hdr.rno \subseteq Pos /\ croot \in Nat /\ wr \in Nat
  BY ShiftFacts, FormedFacts DEF BaseAt
<1>2. /\ croot \in 1 .. hdr.rno /\ \A v \in 1 .. croot : copy[v].lvl = file[v].lvl
  BY DEF BaseAt, CopyInv
<1>3. /\ y \in 1 .. hdr.rno /\ wr \in 1 .. hdr.rno /\ file[wr].lvl = 0
  BY DEF ShiftAt, LeafAt
<1>4. x \in 1 .. hdr.rno /\ file[x].lvl = 0
  BY <1>1, <1>2
<1>5. CASE x < y \/ x > wr
  BY <1>4, <1>5 DEF ShiftAt
<1>6. CASE ~(x < y \/ x > wr)
  <2>1. y <= x /\ x < wr /\ x \in 1 .. wr - 1 /\ 1 .. wr \subseteq Pos
    BY <1>1, <1>3, <1>4, <1>6
  <2>2. PICK z \in 1 .. wr : Neighbours(file, x, z)
    BY <1>1, <1>3, <1>4, <2>1, NextOf
  <2>3. z \in 1 .. hdr.rno /\ z <= wr
    BY <1>1, <1>3
  <2>4. SameLeaf(file[z], copy[x])
    BY <1>4, <2>1, <2>2, <2>3 DEF ShiftAt
  <2>5. QED
    BY <1>4, <2>1, <2>2, <2>4
<1>7. QED
  BY <1>5, <1>6

(* The header is written and the copy forgotten: nothing of the copy is    *)
(* left to be written, so the account of the copy is that of the file.     *)
LEMMA DisorderReturnsKeeps ==
    ASSUME ShiftType, NEW lo, DInvAt(lo), Disorder, DisorderReturns
    PROVE  ShiftType' /\ DInvAt(lo)'
<1> DEFINE n == hdr.rno
<1>1. /\ pc = "next" /\ ScanEnded /\ hdr' = [NewHeader EXCEPT !.rno = wroot] /\ Return
      /\ acked' = [p \in Known \cup {op.page} |-> IF p = op.page THEN op.hash ELSE acked[p]]
      /\ cut' = cut \cap Known /\ pc' = "idle"
      /\ copy' = NoCopy /\ croot' = NoPos /\ wroot' = NoPos /\ rd' = NoPos /\ wr' = NoPos
      /\ UNCHANGED <<file, queueVars, broken>>
  BY DEF DisorderReturns, Known, Return, Forget
<1>2. /\ wroot = n /\ Copied /\ Shifting /\ BaseAt(lo) /\ wr >= slot
  BY <1>1 DEF DInvAt, CallAt, SlotAt, Working, KindsAt, NextAt, Shifting
<1>3. PICK y \in 1 .. wr : ShiftAt(y)
  BY <1>2 DEF BaseAt, CopyInv
<1>4. hdr' = [rno |-> n, fslo |-> NewHeader.fslo]
  BY <1>1, <1>2 DEF NewHeader
<1>5. PICK h : h = [rno |-> n, fslo |-> NewHeader.fslo]
  OBVIOUS
<1>6. /\ h \in Header /\ h.rno = n /\ slot = FirstOpen(hdr)
      /\ slot \in 1 .. n - 1
      /\ \A x \in 1 .. n : file[x].lvl = 0 /\ ~file[x].isn => x < FirstOpen(h)
      /\ \A x \in 1 .. n : file[x].lvl = 0 /\ x >= FirstOpen(h) => file[x].pn = NoPage
  BY <1>1, <1>5, NextEnds
<1>7. /\ file \in [Pos -> Block] /\ copy \in [Pos -> Block] /\ n \in Nat /\ 1 .. n \subseteq Pos
      /\ croot \in Nat /\ wr \in Nat /\ croot \in 1 .. n
  BY <1>2, ShiftFacts, FormedFacts DEF BaseAt, CopyInv
<1>8. PICK s : s = FirstOpen(h)
  OBVIOUS
<1>9. PICK W : /\ IsFiniteSet(W) /\ Cardinality(W) <= broken
               /\ Account(copy, croot, slot, W, cut)
  BY <1>1, <1>2, <1>6 DEF BaseAt, Ledger, Source, SourceRoot, Exempt
<1>10. Known' = Known \cup {op.page} /\ Exempt' = cut \cap Known
  BY <1>1 DEF Known, Exempt
<1>11. NoPage \notin Known'
  <2>1. op.page \in Pages
    BY <1>1 DEF DInvAt, CallAt, KindsAt
  <2>2. QED
    BY <1>10, <2>1, ShiftFacts
<1>12. \A x \in 1 .. n : file[x].lvl = 0 /\ x >= s => file[x].pn \notin Known'
  BY <1>6, <1>8, <1>11
<1>13. ASSUME NEW p \in Known' \ (W \cup Exempt')
       PROVE  \E x \in 1 .. n : /\ file[x].lvl = 0 /\ ~file[x].isn /\ file[x].pn = p
                                /\ file[x].h = acked'[p]
  <2>1. CASE p = op.page
    <3>1. acked'[p] = op.hash
      BY <1>1, <2>1
    <3>2. y \in 1 .. n /\ file[y].lvl = 0 /\ ~file[y].isn /\ file[y].pn = p
          /\ file[y].h = acked'[p]
      BY <1>3, <2>1, <3>1 DEF ShiftAt, LeafAt
    <3>3. QED
      BY <3>2
  <2>2. CASE p # op.page
    <3>1. p \in Known /\ p \notin W \cup cut /\ acked'[p] = acked[p]
      BY <1>1, <1>10, <2>2
    <3>2. PICK x \in 1 .. croot : HoldsPage(copy, x, slot, p)
      BY <1>9, <3>1 DEF Account
    <3>3. /\ copy[x].lvl = 0 /\ x # wr /\ ~copy[x].isn /\ copy[x].pn = p /\ copy[x].h = acked'[p]
      BY <1>2, <1>6, <1>7, <3>1, <3>2 DEF HoldsPage
    <3>4. /\ x \in 1 .. n /\ file[x].lvl = 0
          /\ \/ SameLeaf(file[x], copy[x])
             \/ \E z \in 1 .. wr : Neighbours(file, x, z) /\ SameLeaf(file[z], copy[x])
      BY <1>2, <1>3, <3>3, CopyShown
    <3>5. CASE SameLeaf(file[x], copy[x])
      BY <3>3, <3>4, <3>5 DEF SameLeaf
    <3>6. CASE \E z \in 1 .. wr : Neighbours(file, x, z) /\ SameLeaf(file[z], copy[x])
      <4>1. PICK z \in 1 .. wr : Neighbours(file, x, z) /\ SameLeaf(file[z], copy[x])
        BY <3>6
      <4>2. wr \in 1 .. n
        BY <1>3 DEF ShiftAt, LeafAt
      <4>3. z \in 1 .. n /\ file[z].lvl = 0
        BY <1>7, <4>1, <4>2 DEF Neighbours
      <4>4. QED
        BY <3>3, <4>1, <4>3 DEF SameLeaf
    <3>7. QED
      BY <3>4, <3>5, <3>6
  <2>3. QED
    BY <2>1, <2>2
<1>14. ASSUME NEW p \in Known' \ (W \cup Exempt') PROVE \E x \in 1 .. n : HoldsPage(file, x, s, p)'
  <2>1. PICK x \in 1 .. n : /\ file[x].lvl = 0 /\ ~file[x].isn /\ file[x].pn = p
                            /\ file[x].h = acked'[p]
    BY <1>13
  <2>2. x < s
    BY <1>6, <1>8, <2>1
  <2>3. HoldsPage(file, x, s, p)'
    BY <1>1, <2>1, <2>2 DEF HoldsPage
  <2>4. QED
    BY <2>3
<1>15. Ledger'
  <2>1. hdr' = h /\ FirstOpen(hdr)' = s /\ Source' = file' /\ SourceRoot' = n
    BY <1>1, <1>4, <1>5, <1>6, <1>8 DEF Source, SourceRoot, Copied
  <2>2. Account(Source, SourceRoot, FirstOpen(hdr), W, Exempt)'
    BY <1>1, <1>12, <1>14, <2>1 DEF Account, HoldsPage
  <2>3. QED
    BY <1>1, <1>9, <2>2 DEF Ledger
<1>16. copy' \in [Pos -> Block] /\ croot' \in 0 .. MaxPos /\ wroot' = NoPos
       /\ rd' \in 0 .. MaxPos + 1 /\ wr' \in 0 .. MaxPos
  <2>1. ZeroBlock \in Block
    BY DEF ZeroBlock, Block, NullHash, Hash, Byte, Mark
  <2>2. QED
    BY <1>1, <2>1, DiskAssumption DEF NoCopy, NoPos
<1>17. QED
  BY <1>1, <1>4, <1>15, <1>16, ReturnKeeps

-----------------------------------------------------------------------------
(* A crash inside the shift: what the file shows of the pages of the copy. *)
LEMMA BehindSlot ==
    ASSUME ShiftType, NEW lo, BaseAt(lo), Copied, Shifting, NEW y, ShiftAt(y),
           NEW W, Account(copy, croot, FirstOpen(hdr), W, cut),
           NEW x \in 1 .. hdr.rno, file[x].lvl = 0, x >= FirstOpen(hdr), file[x].pn \in Known,
           file[x].pn \notin W, x # y
    PROVE  /\ y < x /\ x <= wr
           /\ \E u \in 1 .. croot : /\ Neighbours(file, u, x) /\ y <= u /\ u < FirstOpen(hdr)
                                    /\ file[x].pn = copy[u].pn
<1> DEFINE n == hdr.rno
           s == FirstOpen(hdr)
<1>1. /\ file \in [Pos -> Block] /\ copy \in [Pos -> Block] /\ hdr \in Header /\ n \in Nat
      /\ 1 .. n \subseteq Pos /\ croot \in Nat /\ wr \in Nat /\ Formed(file, lo, hdr) /\ s \in Nat
      /\ NoPage \notin Known
  BY ShiftFacts, FormedFacts DEF BaseAt
<1>2. /\ croot \in 1 .. n /\ \A v \in 1 .. croot : copy[v].lvl = file[v].lvl
      /\ \A v \in croot + 1 .. n : file[v].lvl = 0 /\ v > wr => file[v].isn
  BY DEF BaseAt, CopyInv
<1>3. /\ y \in 1 .. n /\ wr \in 1 .. n /\ file[wr].lvl = 0 /\ file[y].lvl = 0 /\ y <= wr
      /\ \A v \in 1 .. croot : file[v].lvl = 0 /\ (v < y \/ v > wr) => SameLeaf(file[v], copy[v])
      /\ \A v \in 1 .. y - 1 : file[v].lvl = 0 => v <= croot
  BY DEF ShiftAt, LeafAt
<1>4. \A v \in 1 .. croot : file[v].lvl = 0 /\ v >= s /\ copy[v].pn \in Known => copy[v].pn \in W
  BY <1>2 DEF Account
<1>5. ~(x > wr)
  <2>1. SUFFICES ASSUME x > wr PROVE FALSE
    OBVIOUS
  <2>2. CASE x <= croot
    BY <1>1, <1>3, <1>4, <2>1, <2>2 DEF SameLeaf
  <2>3. CASE x > croot
    <3>1. file[x].isn
      BY <1>1, <1>2, <2>1, <2>3
    <3>2. QED
      BY <1>1, <3>1 DEF Formed, PadsLast
  <2>4. QED
    BY <1>1, <2>2, <2>3
<1>6. ~(x < y)
  <2>1. SUFFICES ASSUME x < y PROVE FALSE
    OBVIOUS
  <2>2. x \in 1 .. croot
    BY <1>1, <1>3, <2>1
  <2>3. QED
    BY <1>3, <1>4, <2>1, <2>2 DEF SameLeaf
<1>7. y < x /\ x <= wr
  BY <1>1, <1>3, <1>5, <1>6
<1>8. PICK u \in 1 .. x - 1 : file[u].lvl = 0 /\ \A v \in u + 1 .. x - 1 : file[v].lvl > 0
  <2>1. x \in Nat /\ 1 .. x \subseteq Pos /\ y \in 1 .. x - 1
    BY <1>1, <1>3, <1>7
  <2>2. QED
    BY <1>1, <1>3, <2>1, LastBefore
<1>9. u \in 1 .. n /\ y <= u
  BY <1>1, <1>3, <1>7, <1>8
<1>10. Neighbours(file, u, x)
  BY <1>1, <1>8 DEF Neighbours
<1>11. u \in 1 .. croot /\ SameLeaf(file[x], copy[u])
  BY <1>1, <1>7, <1>9, <1>10 DEF ShiftAt
<1>12. u < s
  BY <1>1, <1>4, <1>8, <1>11 DEF SameLeaf
<1>13. QED
  BY <1>7, <1>9, <1>10, <1>11, <1>12 DEF SameLeaf

LEMMA BeforeSlot ==
    ASSUME ShiftType, NEW lo, BaseAt(lo), Copied, Shifting, NEW y, ShiftAt(y),
           NEW x \in 1 .. croot, NEW p, HoldsPage(copy, x, FirstOpen(hdr), p)
    PROVE  \/ \E z \in 1 .. hdr.rno : HoldsPage(file, z, FirstOpen(hdr), p)
           \/ x = wr
           \/ y <= x /\ \E z \in 1 .. wr : Neighbours(file, x, z) /\ FirstOpen(hdr) <= z
<1>1. SUFFICES ASSUME x # wr
               PROVE  \/ \E z \in 1 .. hdr.rno : HoldsPage(file, z, FirstOpen(hdr), p)
                      \/ y <= x /\ \E z \in 1 .. wr : Neighbours(file, x, z) /\ FirstOpen(hdr) <= z
  OBVIOUS
<1>2. copy[x].lvl = 0
  BY DEF HoldsPage
<1>3. /\ x \in 1 .. hdr.rno /\ file[x].lvl = 0
      /\ \/ SameLeaf(file[x], copy[x])
         \/ y <= x /\ \E z \in 1 .. wr : Neighbours(file, x, z) /\ SameLeaf(file[z], copy[x])
  BY <1>1, <1>2, CopyShown
<1>4. CASE SameLeaf(file[x], copy[x])
  BY <1>3, <1>4 DEF SameLeaf, HoldsPage
<1>5. CASE y <= x /\ \E z \in 1 .. wr : Neighbours(file, x, z) /\ SameLeaf(file[z], copy[x])
  <2>1. PICK z \in 1 .. wr : Neighbours(file, x, z) /\ SameLeaf(file[z], copy[x])
    BY <1>5
  <2>2. hdr.rno \in Nat /\ wr \in 1 .. hdr.rno /\ FirstOpen(hdr) \in Nat
    BY ShiftFacts, FormedFacts DEF BaseAt, ShiftAt, LeafAt
  <2>3. z \in 1 .. hdr.rno /\ file[z].lvl = 0
    BY <2>1, <2>2 DEF Neighbours
  <2>4. CASE z < FirstOpen(hdr)
    BY <2>1, <2>3, <2>4 DEF SameLeaf, HoldsPage
  <2>5. CASE ~(z < FirstOpen(hdr))
    BY <1>5, <2>1, <2>2, <2>5
  <2>6. QED
    BY <2>4, <2>5
<1>6. QED
  BY <1>3, <1>4, <1>5

(* A crash while a copy exists: the account of the file is that of the     *)
(* copy, less one page.                                                    *)
LEMMA CrashLoses ==
    ASSUME ShiftType, NEW lo, BaseAt(lo), Copied,
           NEW W, Account(copy, croot, FirstOpen(hdr), W, cut)
    PROVE  \E d : Account(file, hdr.rno, FirstOpen(hdr), W \cup {d}, cut)
<1> DEFINE n == hdr.rno
           s == FirstOpen(hdr)
<1>1. /\ file \in [Pos -> Block] /\ copy \in [Pos -> Block] /\ hdr \in Header /\ n \in Nat
      /\ 1 .. n \subseteq Pos /\ croot \in Nat /\ wr \in Nat /\ Formed(file, lo, hdr) /\ s \in Nat
      /\ NoPage \notin Known /\ s >= 1
  BY ShiftFacts, FormedFacts DEF BaseAt
<1>2. /\ croot \in 1 .. n /\ \A v \in 1 .. croot : copy[v].lvl = file[v].lvl
  BY DEF BaseAt, CopyInv
<1>3. \A p \in Known \ (W \cup cut) : \E x \in 1 .. croot : HoldsPage(copy, x, s, p)
  BY DEF Account
<1>4. CASE ~Shifting
  <2>1. /\ SameLeaves(copy, file, croot)
        /\ \A v \in croot + 1 .. n : file[v].lvl = 0 => file[v].isn
    BY <1>4 DEF BaseAt, CopyInv
  <2>2. ASSUME NEW x \in 1 .. n, file[x].lvl = 0, x >= s, file[x].pn \in Known PROVE file[x].pn \in W
    <3>1. CASE x <= croot
      <4>1. x \in 1 .. croot
        BY <1>1, <3>1
      <4>2. SameLeaf(file[x], copy[x]) /\ copy[x].lvl = 0
        BY <1>2, <2>1, <2>2, <4>1 DEF SameLeaves
      <4>3. QED
        BY <2>2, <4>1, <4>2 DEF Account, SameLeaf
    <3>2. CASE x > croot
      <4>1. file[x].isn
        BY <1>1, <2>1, <2>2, <3>2
      <4>2. QED
        BY <1>1, <2>2, <4>1 DEF Formed, PadsLast
    <3>3. QED
      BY <1>1, <3>1, <3>2
  <2>3. ASSUME NEW p \in Known \ (W \cup cut) PROVE \E x \in 1 .. n : HoldsPage(file, x, s, p)
    <3>1. PICK x \in 1 .. croot : HoldsPage(copy, x, s, p)
      BY <1>3
    <3>2. x \in 1 .. n /\ HoldsPage(file, x, s, p)
      BY <1>1, <1>2, <2>1, <3>1 DEF HoldsPage, SameLeaves, SameLeaf
    <3>3. QED
      BY <3>2
  <2>4. Account(file, n, s, W \cup {n}, cut)
    BY <2>2, <2>3 DEF Account
  <2>5. QED
    BY <2>4
<1>5. CASE Shifting
  <2>1. PICK y \in 1 .. wr : ShiftAt(y)
    BY <1>5 DEF BaseAt, CopyInv
  <2>2. /\ y \in 1 .. n /\ wr \in 1 .. n /\ file[y].lvl = 0 /\ file[wr].lvl = 0 /\ y <= wr
        /\ file[y].pn = op.page
    BY <2>1 DEF ShiftAt, LeafAt
  <2>3. ASSUME NEW x \in 1 .. n, file[x].lvl = 0, x >= s, file[x].pn \in Known, file[x].pn \notin W
        PROVE  \/ x = y
               \/ /\ y < x /\ x <= wr
                  /\ \E u \in 1 .. croot : /\ Neighbours(file, u, x) /\ y <= u /\ u < s
                                           /\ file[x].pn = copy[u].pn
    BY <1>5, <2>1, <2>3, BehindSlot
  <2>4. ASSUME NEW p \in Known \ (W \cup cut), ~\E z \in 1 .. n : HoldsPage(file, z, s, p)
        PROVE  \E x \in 1 .. croot :
                  /\ x < s /\ copy[x].pn = p
                  /\ \/ x = wr
                     \/ y <= x /\ \E z \in 1 .. wr : Neighbours(file, x, z) /\ s <= z
    <3>1. PICK x \in 1 .. croot : HoldsPage(copy, x, s, p)
      BY <1>3
    <3>2. \/ \E z \in 1 .. n : HoldsPage(file, z, s, p)
          \/ x = wr
          \/ y <= x /\ \E z \in 1 .. wr : Neighbours(file, x, z) /\ s <= z
      BY <1>5, <2>1, <3>1, BeforeSlot
    <3>3. x < s /\ copy[x].pn = p
      BY <3>1 DEF HoldsPage
    <3>4. QED
      BY <2>4, <3>2, <3>3
  <2>5. CASE wr < s
    <3>1. \A x \in 1 .. n :
             file[x].lvl = 0 /\ x >= s /\ file[x].pn \in Known => file[x].pn \in W
      BY <1>1, <2>2, <2>3, <2>5
    <3>2. ASSUME NEW p \in Known \ (W \cup {copy[wr].pn} \cup cut)
          PROVE  \E z \in 1 .. n : HoldsPage(file, z, s, p)
      BY <1>1, <2>4, <2>5, <3>2
    <3>3. Account(file, n, s, W \cup {copy[wr].pn}, cut)
      BY <3>1, <3>2 DEF Account
    <3>4. QED
      BY <3>3
  <2>6. CASE s <= y
    <3>1. \A x \in 1 .. n : file[x].lvl = 0 /\ x >= s /\ file[x].pn \in Known
                            => file[x].pn \in W \cup {op.page}
      BY <1>1, <2>2, <2>3, <2>6
    <3>2. ASSUME NEW p \in Known \ (W \cup {op.page} \cup cut)
          PROVE  \E z \in 1 .. n : HoldsPage(file, z, s, p)
      BY <1>1, <2>2, <2>4, <2>6, <3>2
    <3>3. Account(file, n, s, W \cup {op.page}, cut)
      BY <3>1, <3>2 DEF Account
    <3>4. QED
      BY <3>3
  <2>7. CASE y < s /\ s <= wr
    <3>1. PICK e \in 1 .. s - 1 : file[e].lvl = 0 /\ \A v \in e + 1 .. s - 1 : file[v].lvl > 0
      <4>1. 1 .. s \subseteq Pos /\ y \in 1 .. s - 1
        BY <1>1, <2>2, <2>7
      <4>2. QED
        BY <1>1, <2>2, <4>1, LastBefore
    <3>2. ASSUME NEW u \in 1 .. n, NEW x \in 1 .. n, Neighbours(file, u, x), u < s, s <= x PROVE u = e
      <4>1. ~(u < e) /\ ~(e < u)
        BY <1>1, <3>1, <3>2 DEF Neighbours
      <4>2. QED
        BY <1>1, <3>1, <4>1
    <3>3. ASSUME NEW x \in 1 .. n, file[x].lvl = 0, x >= s, file[x].pn \in Known, file[x].pn \notin W
          PROVE  file[x].pn = copy[e].pn
      <4>1. x # y
        BY <1>1, <2>2, <2>7, <3>3
      <4>2. PICK u \in 1 .. croot : Neighbours(file, u, x) /\ u < s /\ file[x].pn = copy[u].pn
        BY <2>3, <3>3, <4>1
      <4>3. u \in 1 .. n /\ s <= x
        BY <1>1, <1>2, <3>3
      <4>4. QED
        BY <3>2, <4>2, <4>3
    <3>4. ASSUME NEW p \in Known \ (W \cup {copy[e].pn} \cup cut)
          PROVE  \E z \in 1 .. n : HoldsPage(file, z, s, p)
      <4>1. SUFFICES ASSUME ~\E z \in 1 .. n : HoldsPage(file, z, s, p) PROVE FALSE
        OBVIOUS
      <4>2. PICK x \in 1 .. croot :
                  /\ x < s /\ copy[x].pn = p
                  /\ \/ x = wr
                     \/ y <= x /\ \E z \in 1 .. wr : Neighbours(file, x, z) /\ s <= z
        BY <2>4, <4>1
      <4>3. PICK z \in 1 .. wr : Neighbours(file, x, z) /\ s <= z
        BY <1>1, <2>2, <2>7, <4>2
      <4>4. x \in 1 .. n /\ z \in 1 .. n
        BY <1>1, <1>2, <2>2
      <4>5. QED
        BY <3>2, <3>4, <4>2, <4>3, <4>4
    <3>5. Account(file, n, s, W \cup {copy[e].pn}, cut)
      BY <3>3, <3>4 DEF Account
    <3>6. QED
      BY <3>5
  <2>8. wr < s \/ s <= y \/ (y < s /\ s <= wr)
    BY <1>1, <2>2
  <2>9. QED
    BY <2>5, <2>6, <2>7, <2>8
<1>6. QED
  BY <1>4, <1>5

LEMMA DiesKeeps ==
    ASSUME ShiftType, NEW lo, DInvAt(lo), NEW left, Dies(left), Ledger', broken' \in Nat,
           copy' \in [Pos -> Block], croot' \in 0 .. MaxPos, wroot' = NoPos,
           rd' \in 0 .. MaxPos + 1, wr' \in 0 .. MaxPos
    PROVE  ShiftType' /\ DInvAt(lo)'
<1>1. /\ Return /\ stage' = "idle" /\ q' = <<>> /\ at' = 0 /\ cbd' = 0 /\ hlev' = NoPad
      /\ wpos' = 1 /\ glob' = NoGlobals
      /\ UNCHANGED <<file, hdr, acked>>
  BY DEF Dies
<1>2. CallType' /\ CallAt(lo)'
  BY <1>1, CallOver
<1>3. ~Copied' /\ CopyInv'
  BY DEF Copied, CopyInv
<1>4. BaseAt(lo)'
  BY <1>1, <1>3 DEF DInvAt, BaseAt, Offsets
<1>5. WorldType'
  <2>1. QueueTypeOK'
    <3>1. MaxPos \in Nat
      BY DiskAssumption
    <3>2. NoGlobals \in Globals
      BY <3>1 DEF NoGlobals, Globals, NoPos
    <3>3. q' \in Seq(QNode)
      BY <1>1
    <3>4. QED
      BY <1>1, <3>1, <3>2, <3>3 DEF QueueTypeOK, NoPad
  <2>2. DiskTypeOK' /\ Known' \subseteq Pages /\ 0 \in 0 .. MaxPos
    BY <1>1, ShiftFacts, DiskAssumption DEF DiskTypeOK, Known
  <2>3. QED
    BY <2>1, <2>2 DEF WorldType, NoPos
<1>6. QED
  BY <1>2, <1>4, <1>5 DEF ShiftType, DInvAt

LEMMA OtherCrashKeeps ==
    ASSUME ShiftType, NEW lo, DInvAt(lo), OtherCrash
    PROVE  ShiftType' /\ DInvAt(lo)'
<1>1. ~Disorder /\ UNCHANGED <<copy, croot, wroot, rd, wr, broken>>
  BY DEF OtherCrash, shiftVars
<1>2. PICK left : left = IF pc = "search" THEN {} ELSE {op.page}
  OBVIOUS
<1>3. Dies(left) /\ pc' = "idle" /\ cut' = cut \cup left /\ UNCHANGED <<file, hdr, acked>>
  BY <1>2 DEF OtherCrash, Crash, Dies, Return
<1>4. ~Copied /\ ~Copied'
  BY <1>1, IdleNoCopy DEF Disorder, Copied
<1>5. Exempt \subseteq Exempt'
  BY <1>2, <1>3 DEF Exempt
<1>6. Ledger'
  <2>1. SameLeaves(Source, Source', SourceRoot) /\ SourceRoot' = SourceRoot
    BY <1>3, <1>4 DEF Source, SourceRoot, SameLeaves, SameLeaf
  <2>2. QED
    BY <1>1, <1>3, <1>5, <2>1, LedgerFrame DEF DInvAt, BaseAt
<1>7. /\ copy' \in [Pos -> Block] /\ croot' \in 0 .. MaxPos /\ wroot' = NoPos
      /\ rd' \in 0 .. MaxPos + 1 /\ wr' \in 0 .. MaxPos /\ broken' \in Nat
  BY <1>1, <1>4 DEF ShiftType, WorldType, Copied
<1>8. QED
  BY <1>3, <1>6, <1>7, DiesKeeps

(* A crash inside insertNewPageDisorder costs one page at most.            *)
LEMMA DisorderCrashKeeps ==
    ASSUME ShiftType, NEW lo, DInvAt(lo), DisorderCrash
    PROVE  ShiftType' /\ DInvAt(lo)'
<1> DEFINE n == hdr.rno
<1>1. /\ Disorder /\ broken' = (IF Copied THEN broken + 1 ELSE broken)
      /\ copy' = NoCopy /\ croot' = NoPos /\ wroot' = NoPos /\ rd' = NoPos /\ wr' = NoPos
      /\ Dies({}) /\ pc # "idle" /\ pc' = "idle" /\ cut' = cut /\ UNCHANGED <<file, hdr, acked>>
  BY DEF DisorderCrash, Dies, Return, Forget
<1>2. ~Copied' /\ Exempt = cut /\ Exempt' = cut /\ broken \in Nat /\ BaseAt(lo)
  BY <1>1, ShiftFacts DEF Copied, Exempt, Disorder, DInvAt
<1>3. ASSUME ~Copied PROVE Ledger'
  <2>1. SameLeaves(Source, Source', SourceRoot) /\ SourceRoot' = SourceRoot
    BY <1>1, <1>2, <1>3 DEF Source, SourceRoot, SameLeaves, SameLeaf
  <2>2. Ledger'
    BY <1>1, <1>2, <1>3, <2>1, LedgerFrame DEF BaseAt
  <2>3. QED
    BY <2>2
<1>4. ASSUME Copied PROVE Ledger'
  <2>1. PICK W : /\ IsFiniteSet(W) /\ Cardinality(W) <= broken
                 /\ Account(copy, croot, FirstOpen(hdr), W, cut)
    BY <1>2, <1>4 DEF BaseAt, Ledger, Source, SourceRoot
  <2>2. PICK d : Account(file, n, FirstOpen(hdr), W \cup {d}, cut)
    BY <1>2, <1>4, <2>1, CrashLoses
  <2>3. PICK V : V = W \cup {d}
    OBVIOUS
  <2>4. IsFiniteSet(V) /\ Cardinality(V) <= broken'
    <3>1. /\ IsFiniteSet(V) /\ Cardinality(W) \in Nat
          /\ Cardinality(V) = IF d \in W THEN Cardinality(W) ELSE Cardinality(W) + 1
      BY <2>1, <2>3, FS_AddElement, FS_CardinalityType
    <3>2. QED
      BY <1>1, <1>2, <1>4, <2>1, <3>1
  <2>5. Source' = file /\ SourceRoot' = n /\ FirstOpen(hdr)' = FirstOpen(hdr)
    BY <1>1, <1>2 DEF Source, SourceRoot
  <2>6. Account(Source, SourceRoot, FirstOpen(hdr), V, Exempt)'
    BY <1>1, <1>2, <2>2, <2>3, <2>5 DEF Account, HoldsPage, Known
  <2>7. QED
    BY <2>4, <2>6 DEF Ledger
<1>5. /\ copy' \in [Pos -> Block] /\ croot' \in 0 .. MaxPos
      /\ rd' \in 0 .. MaxPos + 1 /\ wr' \in 0 .. MaxPos /\ broken' \in Nat
  <2>1. ZeroBlock \in Block
    BY DEF ZeroBlock, Block, NullHash, Hash, Byte, Mark
  <2>2. QED
    BY <1>1, <1>2, <2>1, DiskAssumption DEF NoCopy, NoPos
<1>6. PICK left : left = {}
  OBVIOUS
<1>7. Dies(left)
  BY <1>1, <1>6
<1>8. QED
  BY <1>1, <1>3, <1>4, <1>5, <1>7, DiesKeeps

-----------------------------------------------------------------------------
(* Every step.                                                             *)
LEMMA BeginsKeep ==
    ASSUME ShiftType, NEW lo, DInvAt(lo),
           NEW args \in Args("update") \cup Args("disorder") \cup Args("verify"),
           pc = "idle", BeginSearch(args), UNCHANGED <<queueVars, storeVars, shiftVars>>
    PROVE  ShiftType' /\ DInvAt(lo)'
<1>1. args \in [kind : {"update", "disorder", "verify"}, page : Pages, hash : Hash]
  BY StoreAssumption DEF Args, StoreAssumption
<1>2. ~Copied
  <2>1. op.kind # "disorder"
    BY DEF DInvAt, CallAt, KindsAt, NoOp
  <2>2. QED
    BY <2>1, IdleNoCopy
<1>3. args = op'
  BY DEF BeginSearch
<1>4. QED
  BY <1>1, <1>2, <1>3, BeginInv

LEMMA BecomeUpdateKeeps ==
    ASSUME ShiftType, NEW lo, DInvAt(lo), BecomeUpdate
    PROVE  ShiftType' /\ DInvAt(lo)'
<1>1. PICK args : args = [op EXCEPT !.kind = "update"]
  OBVIOUS
<1>2. /\ pc = "search" /\ ~Copied /\ BeginSearch(args)
      /\ UNCHANGED <<queueVars, storeVars, shiftVars>>
  BY <1>1 DEF BecomeUpdate, Found, AtLeaf
<1>3. op.page \in Pages
  BY <1>2 DEF DInvAt, CallAt, KindsAt
<1>4. args \in [kind : {"update", "disorder", "verify"}, page : Pages, hash : Hash]
  BY <1>1, <1>3, ShiftFacts
<1>5. args = op'
  BY <1>2 DEF BeginSearch
<1>6. QED
  BY <1>2, <1>4, <1>5, BeginInv

LEMMA ExtensionKeeps ==
    ASSUME ShiftType, NEW lo, DInvAt(lo), ExtensionStep,
           UNCHANGED <<copy, croot, rd, wr, broken>>,
           wroot' = IF Disorder /\ pc' = "fill" THEN glob.rno ELSE wroot
    PROVE  ShiftType' /\ \E lo2 : DInvAt(lo2)'
<1>1. CASE ExtendHeader
  <2>1. pc' = "fill"
    BY <1>1 DEF ExtendHeader
  <2>2. QED
    BY <1>1, <2>1, ExtendHeaderKeeps
<1>2. CASE ~ExtendHeader
  <2>1. pc' # "fill"
    BY <1>2 DEF ExtensionStep, ExtendBegin, ExtendStep, ExtendScan, ExtendRescan, walkVars
  <2>2. UNCHANGED shiftVars
    BY <2>1 DEF shiftVars
  <2>3. QED
    BY <1>2, <2>2, ExtendBeginKeeps, ExtendStepKeeps, ExtendScanKeeps, ExtendRescanKeeps
       DEF ExtensionStep
<1>3. QED
  BY <1>1, <1>2

LEMMA DisorderStepKeeps ==
    ASSUME ShiftType, NEW lo, DInvAt(lo), DisorderStep
    PROVE  ShiftType' /\ \E lo2 : DInvAt(lo2)'
<1>1. Disorder
  BY DEF DisorderStep
<1>2. CASE (Search \/ Climb \/ ScanStep) /\ UNCHANGED shiftVars
  BY <1>2, SearchDownInv, ClimbKeepsInv, ScanStepKeeps
<1>3. CASE BecomeUpdate
  BY <1>3, BecomeUpdateKeeps
<1>4. CASE MakeCopy
  BY <1>1, <1>4, MakeCopyKeeps
<1>5. CASE Extend
  BY <1>1, <1>5, ExtensionKeeps DEF Extend
<1>6. CASE SearchAgain
  BY <1>1, <1>6, SearchAgainKeeps
<1>7. CASE PutPage
  BY <1>1, <1>7, PutPageKeeps
<1>8. CASE BeginSeps
  BY <1>1, <1>8, BeginSepsKeeps
<1>9. CASE Separators
  BY <1>9, SepsBeginKeeps, SepParentStays, SepLeftKeeps, SepRightKeeps DEF Separators
<1>10. CASE Shift
  BY <1>1, <1>10, ShiftTurnKeeps
<1>11. CASE ShiftEnds
  BY <1>1, <1>11, ShiftEndsKeeps
<1>12. CASE DisorderReturns
  BY <1>1, <1>12, DisorderReturnsKeeps
<1>13. QED
  BY <1>2, <1>3, <1>4, <1>5, <1>6, <1>7, <1>8, <1>9, <1>10, <1>11, <1>12 DEF DisorderStep

LEMMA OtherStepKeeps ==
    ASSUME ShiftType, NEW lo, DInvAt(lo), OtherStep
    PROVE  ShiftType' /\ \E lo2 : DInvAt(lo2)'
<1>1. CASE op.kind = "verify" /\ Search /\ UNCHANGED shiftVars
  BY <1>1, SearchDownInv
<1>2. CASE VerifyReturns
  BY <1>2, SearchReturnsInv DEF VerifyReturns, AtLeaf, Disorder
<1>3. CASE ~Disorder /\ op.kind # "verify" /\ Step /\ UNCHANGED shiftVars
  <2>1. pc = "search" => op.kind = "update"
    BY <1>3 DEF DInvAt, CallAt, KindsAt, Disorder
  <2>2. CASE UpdateStep
    <3>1. CASE Search
      BY <1>3, <3>1, SearchDownInv
    <3>2. CASE Fail
      BY <1>3, <3>2, SearchReturnsInv DEF Fail, NotFound, AtLeaf
    <3>3. CASE UpdateLeaf
      BY <1>3, <2>1, <3>3, UpdateLeafKeeps DEF UpdateLeaf, Found, AtLeaf
    <3>4. CASE UpdateReturns
      BY <1>3, <3>4, UpdateReturnsKeeps DEF UpdateReturns
    <3>5. QED
      BY <2>2, <3>1, <3>2, <3>3, <3>4 DEF UpdateStep
  <2>3. CASE Climb
    BY <1>3, <2>3, ClimbKeepsInv
  <2>4. CASE ExtensionStep
    <3>1. UNCHANGED <<copy, croot, rd, wr, broken>> /\ wroot' = wroot
      BY <1>3 DEF shiftVars
    <3>2. QED
      BY <1>3, <2>4, <3>1, ExtensionKeeps
  <2>5. CASE ScanStep
    BY <1>3, <2>5, ScanStepKeeps
  <2>6. CASE InsertStep
    BY <1>3, <2>6, FillKeeps, PathDoneKeeps, SepsBeginKeeps, SepParentStays, SepLeftKeeps,
       SepRightKeeps, NextPadKeeps, InsertReturnsKeeps DEF InsertStep
  <2>7. QED
    BY <1>3, <2>2, <2>3, <2>4, <2>5, <2>6 DEF Step
<1>4. QED
  BY <1>1, <1>2, <1>3 DEF OtherStep

LEMMA ExtendStill ==
    ASSUME NEW lo, NEW A, UNCHANGED <<file, hdr, stage, q, at, cbd, hlev, wpos, glob>>
    PROVE  (ExtendAt(lo, A)' <=> ExtendAt(lo, A)) /\ (NewTree(lo, A)' <=> NewTree(lo, A))
<1>1. Row' = Row /\ StreamEnd' = StreamEnd
  BY RowNow, RowNext
<1>2. NewTree(lo, A)' <=> NewTree(lo, A)
  BY DEF NewTree
<1>3. RowInv(lo, A)' <=> RowInv(lo, A)
  BY <1>1 DEF RowInv, PaddingQueued, OldRoot
<1>4. ExtendStage(lo, A)' <=> ExtendStage(lo, A)
  BY <1>1, <1>2 DEF ExtendStage
<1>5. (DiskTypeOK' <=> DiskTypeOK) /\ (QueueTypeOK' <=> QueueTypeOK) /\ (Offsets' <=> Offsets)
  BY DEF DiskTypeOK, QueueTypeOK, Offsets
<1>6. QED
  BY <1>2, <1>3, <1>4, <1>5 DEF ExtendAt

LEMMA StillKeeps ==
    ASSUME ShiftType, NEW lo, DInvAt(lo), UNCHANGED disorderVars
    PROVE  ShiftType' /\ DInvAt(lo)'
<1>1. /\ UNCHANGED <<file, hdr, pc, op, cur, ret, stage, q, at, cbd, hlev, wpos, glob>>
      /\ UNCHANGED <<slot, acked, cut, copy, croot, wroot, rd, wr, broken>>
  BY DEF disorderVars, vars, shiftVars
<1>2. WorldType'
  BY <1>1, WorldStill DEF queueVars, shiftVars
<1>3. CallType'
  BY <1>1 DEF ShiftType, CallType
<1>4. BaseAt(lo)'
  <2>1. Exempt \subseteq Exempt' /\ (Shifting' <=> Shifting)
    BY <1>1 DEF Exempt, Shifting
  <2>2. QED
    BY <1>1, <2>1, BaseStill DEF DInvAt
<1>5. KindsAt' /\ SearchAt(lo)' /\ PathAt' /\ SlotAt' /\ SepsAt'
  BY <1>1 DEF DInvAt, CallAt, KindsAt, SearchAt, PathAt, SlotAt, SepsAt, Disorder, Copied, Known,
     Working, InUse, LeafAt
<1>6. NextAt' /\ AtRest'
  BY <1>1 DEF DInvAt, CallAt, NextAt, AtRest, Disorder, InUse
<1>7. GrowAt(lo)'
  <2>1. GrowAt(lo)
    BY DEF DInvAt, CallAt
  <2>2. (ExtendAt(lo, EndPages)' <=> ExtendAt(lo, EndPages))
        /\ (NewTree(lo, EndPages)' <=> NewTree(lo, EndPages))
    <3>1. PICK A : A = EndPages
      OBVIOUS
    <3>2. A = EndPages'
      BY <1>1, <3>1 DEF EndPages, LastLeaf
    <3>3. (ExtendAt(lo, A)' <=> ExtendAt(lo, A)) /\ (NewTree(lo, A)' <=> NewTree(lo, A))
      BY <1>1, ExtendStill
    <3>4. QED
      BY <3>1, <3>2, <3>3, ExtendArgs
  <2>3. QED
    BY <1>1, <2>1, <2>2 DEF GrowAt, Copied
<1>8. QED
  BY <1>2, <1>3, <1>4, <1>5, <1>6, <1>7 DEF ShiftType, DInvAt, CallAt

(* The invariant is inductive.                                             *)
LEMMA NextShift == DInv /\ [DisorderNext]_disorderVars => DInv'
<1>1. SUFFICES ASSUME ShiftType, NEW lo, DInvAt(lo), [DisorderNext]_disorderVars
               PROVE  ShiftType' /\ \E lo2 : DInvAt(lo2)'
  BY DEF DInv
<1>2. CASE UNCHANGED disorderVars
  BY <1>1, <1>2, StillKeeps
<1>3. ASSUME NEW args \in Calls("disorder"), StartDisorder(args)
      PROVE  ShiftType' /\ DInvAt(lo)'
  BY <1>1, <1>3, BeginsKeep DEF StartDisorder, Calls
<1>4. ASSUME NEW args \in Calls("update"), Update(args) PROVE ShiftType' /\ DInvAt(lo)'
  BY <1>1, <1>4, BeginsKeep DEF Update, StartUpdate, Calls
<1>5. ASSUME NEW args \in Calls("insert"), Insert(args) PROVE ShiftType' /\ DInvAt(lo)'
  BY <1>1, <1>5, StartInsertKeeps DEF Insert, Calls
<1>6. ASSUME NEW args \in Calls("verify"), StartVerify(args) PROVE ShiftType' /\ DInvAt(lo)'
  BY <1>1, <1>6, BeginsKeep DEF StartVerify, Calls
<1>7. CASE DisorderStep
  BY <1>1, <1>7, DisorderStepKeeps
<1>8. CASE OtherStep
  BY <1>1, <1>8, OtherStepKeeps
<1>9. CASE DisorderCrash
  BY <1>1, <1>9, DisorderCrashKeeps
<1>10. CASE OtherCrash
  BY <1>1, <1>10, OtherCrashKeeps
<1>11. QED
  BY <1>1, <1>2, <1>3, <1>4, <1>5, <1>6, <1>7, <1>8, <1>9, <1>10 DEF DisorderNext

-----------------------------------------------------------------------------
(* The file that the builder left.                                         *)
LEMMA StartFormed ==
    ASSUME LeavesFork, Init, TypeOK, NEW lo, Sound(lo)
    PROVE  Formed(file, lo, hdr)
<1> DEFINE n == hdr.rno
           s == FirstOpen(hdr)
<1>1. PICK leaves \in InitLeaves : file = L!LayoutFile(leaves) /\ hdr = L!LayoutHeader(leaves)
  BY DEF Init
<1>2. n > 1 /\ PagesLeft(file, n) /\ \A p \in 1 .. n - 1 : file[p].pos > 0
  <2>1. PagesLeft(file, n)
    BY <1>1, ShiftAssumption DEF ShiftAssumption
  <2>2. QED
    BY <1>1, <2>1, StoreAssumption DEF LeavesFork, StoreAssumption, Climbable
<1>3. \A x \in 1 .. n : LeafAt(file, n, x) /\ x >= s => file[x].pn = NoPage
  BY <1>1, StoreAssumption DEF StoreAssumption, LaidOut
<1>4. /\ FileTree(file, lo, n) /\ PageRow(file, n, s, Known)
      /\ hdr.fslo # NoPos => OpenAt(file, n, hdr.fslo)
  BY DEF Sound, Holds
<1>5. n \in Nat /\ s \in 1 .. n + 1 /\ file \in [Pos -> Block]
  BY TypeFacts, FirstOpenType DEF Sound
<1>6. hdr.fslo # NoPos => LeafAt(file, n, hdr.fslo) /\ file[n].rsvd = "root"
  BY <1>4, <1>5 DEF OpenAt, LeafAt
<1>7. PadsLast(file, n, s)
  <2>1. ASSUME NEW x \in 1 .. n, file[x].lvl = 0
        PROVE  /\ LeafAt(file, n, x) /\ x \in Nat
               /\ x < s => ~file[x].isn
               /\ x > s => file[x].isn
               /\ file[x].isn => file[x].pn = NoPage
    <3>1. LeafAt(file, n, x) /\ x \in Nat
      BY <1>5, <2>1 DEF LeafAt
    <3>2. (x < s => ~file[x].isn) /\ (x > s => file[x].isn)
      BY <1>4, <3>1 DEF PageRow
    <3>3. x >= s => file[x].pn = NoPage
      BY <1>3, <3>1
    <3>4. QED
      BY <1>5, <3>1, <3>2, <3>3
  <2>2. \A x \in 1 .. n : file[x].lvl = 0 /\ file[x].isn => file[x].pn = NoPage
    BY <2>1
  <2>3. \A x \in 1 .. n : x < s => InUse(file, x)
    BY <2>1 DEF InUse
  <2>4. ASSUME NEW x \in 1 .. n, NEW y \in 1 .. n,
               file[x].lvl = 0, file[x].isn, x < y, file[y].lvl = 0
        PROVE  file[y].isn
    BY <1>5, <2>1, <2>4
  <2>5. QED
    BY <2>2, <2>3, <2>4 DEF PadsLast
<1>8. QED
  BY <1>2, <1>4, <1>6, <1>7 DEF Formed

(* The files that the builder leaves of more than one page meet it.        *)
LEMMA InitShift == ASSUME LeavesFork PROVE DisorderInit => DInv
<1> SUFFICES ASSUME DisorderInit PROVE DInv
  OBVIOUS
<1> DEFINE s == FirstOpen(hdr)
<1>1. /\ Init /\ copy = NoCopy /\ croot = NoPos /\ wroot = NoPos /\ rd = NoPos /\ wr = NoPos
      /\ broken = 0 /\ ~Copied
  BY DEF DisorderInit, Copied
<1>2. IInv
  BY <1>1, InitInvariant
<1>3. PICK lo : IInvAt(lo)
  BY <1>2 DEF IInv
<1>4. TypeOK /\ Sound(lo) /\ Offsets
  BY <1>2, <1>3, InvParts DEF IInv
<1>5. /\ pc = "idle" /\ op = NoOp /\ cur = NoPos /\ ret = NoPos /\ slot = NoPos
      /\ cut = {} /\ QueueAtRest
  BY <1>1 DEF Init
<1>6. Formed(file, lo, hdr)
  BY <1>1, <1>4, StartFormed
<1>7. WorldType
  <2>1. ZeroBlock \in Block
    BY DEF ZeroBlock, Block, NullHash, Hash, Byte, Mark
  <2>2. DiskTypeOK /\ QueueTypeOK /\ Known \subseteq Pages
    BY <1>4, TypeFacts DEF TypeOK
  <2>3. QED
    BY <1>1, <2>1, <2>2, DiskAssumption DEF WorldType, NoCopy, NoPos
<1>8. CallType
  BY <1>5, DiskAssumption DEF CallType, NoOp, NullHash, Hash, Byte, NoPos
<1>9. Ledger
  <2>1. IsFiniteSet({}) /\ Cardinality({}) = 0
    BY FS_EmptySet
  <2>2. PageRow(file, hdr.rno, s, Known)
    BY <1>4 DEF Sound, Holds
  <2>3. hdr.rno \in Nat /\ s \in 1 .. hdr.rno + 1 /\ file \in [Pos -> Block]
    BY <1>4, TypeFacts, FirstOpenType DEF Sound
  <2>4. ASSUME NEW x \in 1 .. hdr.rno, file[x].lvl = 0, x >= s, file[x].pn \in Known PROVE FALSE
    <3>1. LeafAt(file, hdr.rno, x)
      BY <2>4 DEF LeafAt
    <3>2. file[x].pn < file[x].pn
      BY <2>2, <2>4, <3>1 DEF PageRow
    <3>3. file[x].pn \in Nat
      BY <1>4, <2>4, TypeFacts, StoreAssumption DEF StoreAssumption
    <3>4. QED
      BY <3>2, <3>3
  <2>5. ASSUME NEW p \in Known PROVE \E x \in 1 .. hdr.rno : HoldsPage(file, x, s, p)
    <3>1. PICK x \in 1 .. hdr.rno : LeafAt(file, hdr.rno, x) /\ x < s /\ file[x].pn = p
      BY <2>2 DEF PageRow
    <3>2. ~file[x].isn
      BY <2>2, <3>1 DEF PageRow
    <3>3. file[x].h = acked[p]
      BY <1>4, <1>5, <3>1 DEF Sound, HashesShown, Busy
    <3>4. QED
      BY <3>1, <3>2, <3>3 DEF HoldsPage, LeafAt
  <2>6. Account(Source, SourceRoot, s, {}, Exempt)
    BY <1>1, <2>4, <2>5 DEF Account, Source, SourceRoot
  <2>7. QED
    BY <1>1, <2>1, <2>6 DEF Ledger
<1>10. CallAt(lo)
  BY <1>1, <1>5 DEF CallAt, KindsAt, SearchAt, PathAt, SlotAt, Working, SepsAt, NextAt, GrowAt,
     AtRest, QueueAtRest, NoOp, Disorder
<1>11. DInvAt(lo)
  BY <1>1, <1>4, <1>6, <1>9, <1>10 DEF DInvAt, BaseAt, CopyInv
<1>12. QED
  BY <1>7, <1>8, <1>11 DEF DInv, ShiftType

-----------------------------------------------------------------------------
(* What the invariant says of the pages reported.                          *)
LEMMA HeldAt ==
    ASSUME NEW f \in [Pos -> Block], NEW from \in Nat, NEW n \in Nat, 1 .. n \subseteq Pos,
           NEW x \in from .. n, x >= 1, NEW s, NEW p, HoldsPage(f, x, s, p)
    PROVE  <<p, acked[p]>> \in Held(f, from, n)
<1>1. x \in Pos
  OBVIOUS
<1>2. ~IsInterior(f, x) /\ ~f[x].isn /\ <<f[x].pn, f[x].h>> = <<p, acked[p]>>
  BY <1>1 DEF HoldsPage, IsInterior, Read
<1>3. QED
  BY <1>2 DEF Held

(* A page reported that is in no leaf of the file, and that no call is or  *)
(* was at work on, is one of those the account lost, or it is the page of  *)
(* the leaf the shift wrote last, in the copy.                             *)
LEMMA AwayShown ==
    ASSUME ShiftType, NEW lo, BaseAt(lo),
           NEW W, Account(Source, SourceRoot, FirstOpen(hdr), W, Exempt),
           NEW p \in Missing \ ({op.page} \cup cut), p \notin W
    PROVE  /\ Copied /\ Disorder /\ p = copy[wr].pn
           /\ <<p, acked[p]>> \in Held(copy, rd, croot)
<1> DEFINE n == hdr.rno
           s == FirstOpen(hdr)
<1>1. /\ file \in [Pos -> Block] /\ copy \in [Pos -> Block] /\ n \in Nat /\ 1 .. n \subseteq Pos
      /\ croot \in Nat /\ wr \in Nat /\ rd \in Nat
  BY ShiftFacts, FormedFacts DEF BaseAt
<1>2. p \in Known /\ <<p, acked[p]>> \notin Held(file, 1, n)
  BY DEF Missing, Known
<1>3. PICK x \in 1 .. SourceRoot : HoldsPage(Source, x, s, p)
  <2>1. p \in Known \ (W \cup Exempt)
    BY <1>2 DEF Exempt
  <2>2. QED
    BY <2>1 DEF Account
<1>4. ASSUME NEW z \in 1 .. n, NEW t, HoldsPage(file, z, t, p) PROVE FALSE
  <2>1. 1 \in Nat /\ z >= 1
    BY <1>1
  <2>2. QED
    BY <1>1, <1>2, <1>4, <2>1, HeldAt
<1>5. Copied
  BY <1>3, <1>4 DEF Source, SourceRoot
<1>6. /\ x \in 1 .. croot /\ HoldsPage(copy, x, s, p) /\ copy[x].lvl = 0
  BY <1>3, <1>5 DEF Source, SourceRoot, HoldsPage
<1>7. /\ Disorder /\ croot \in 1 .. n /\ \A v \in 1 .. croot : copy[v].lvl = file[v].lvl
  BY <1>5 DEF BaseAt, CopyInv
<1>8. ASSUME NEW z \in 1 .. n, SameLeaf(file[z], copy[x]), file[z].lvl = 0 PROVE FALSE
  <2>1. HoldsPage(file, z, z + 1, p)
    BY <1>1, <1>6, <1>8 DEF HoldsPage, SameLeaf
  <2>2. QED
    BY <1>4, <2>1
<1>9. x \in 1 .. n /\ file[x].lvl = 0
  BY <1>1, <1>6, <1>7
<1>10. Shifting
  <2>1. ASSUME ~Shifting PROVE FALSE
    <3>1. SameLeaf(file[x], copy[x])
      BY <1>5, <1>6, <1>9, <2>1 DEF BaseAt, CopyInv, SameLeaves, SameLeaf
    <3>2. QED
      BY <1>8, <1>9, <3>1
  <2>2. QED
    BY <2>1
<1>11. PICK y \in 1 .. wr : ShiftAt(y)
  BY <1>5, <1>10 DEF BaseAt, CopyInv
<1>12. x = wr
  <2>1. SUFFICES ASSUME x # wr PROVE FALSE
    OBVIOUS
  <2>2. PICK z \in 1 .. n : file[z].lvl = 0 /\ SameLeaf(file[z], copy[x])
    <3>1. CASE SameLeaf(file[x], copy[x])
      BY <1>9, <3>1
    <3>2. CASE \E z \in 1 .. wr : Neighbours(file, x, z) /\ SameLeaf(file[z], copy[x])
      <4>1. wr \in 1 .. n
        BY <1>11 DEF ShiftAt, LeafAt
      <4>2. PICK z \in 1 .. wr : Neighbours(file, x, z) /\ SameLeaf(file[z], copy[x])
        BY <3>2
      <4>3. z \in 1 .. n /\ file[z].lvl = 0
        BY <1>1, <4>1, <4>2 DEF Neighbours
      <4>4. QED
        BY <4>2, <4>3
    <3>3. QED
      BY <1>5, <1>6, <1>10, <1>11, <2>1, <3>1, <3>2, CopyShown
  <2>3. QED
    BY <1>8, <2>2
<1>13. <<p, acked[p]>> \in Held(copy, rd, croot)
  <2>1. rd \in 1 .. wr
    BY <1>11 DEF ShiftAt
  <2>2. x \in rd .. croot /\ x >= 1 /\ 1 .. croot \subseteq Pos
    BY <1>1, <1>6, <1>7, <1>12, <2>1
  <2>3. QED
    BY <1>1, <1>6, <2>2, HeldAt
<1>14. QED
  BY <1>5, <1>6, <1>7, <1>12, <1>13 DEF HoldsPage

(* It implies what the run checks.                                         *)
LEMMA InvKeepsPages ==
    ASSUME DInv
    PROVE  ShiftInv
<1>1. PICK lo : DInvAt(lo)
  BY DEF DInv
<1>2. ShiftType /\ BaseAt(lo)
  BY <1>1 DEF DInv, DInvAt
<1>3. ShiftTypeOK
  BY <1>2 DEF ShiftType, WorldType, CallType, ShiftTypeOK
<1>4. PICK W : /\ IsFiniteSet(W) /\ Cardinality(W) <= broken
               /\ Account(Source, SourceRoot, FirstOpen(hdr), W, Exempt)
  BY <1>2 DEF BaseAt, Ledger
<1>5. PICK A : A = Missing \ ({op.page} \cup cut)
  OBVIOUS
<1>6. ASSUME NEW p \in A, p \notin W
      PROVE  /\ Copied /\ Disorder /\ p = copy[wr].pn
             /\ <<p, acked[p]>> \in Held(copy, rd, croot)
  BY <1>2, <1>4, <1>5, <1>6, AwayShown
<1>7. PICK V : V = IF Disorder THEN W \cup {copy[wr].pn} ELSE W
  OBVIOUS
<1>8. /\ IsFiniteSet(V) /\ Cardinality(V) \in Nat
      /\ Cardinality(V) <= broken + (IF Disorder THEN 1 ELSE 0)
  <2>1. broken \in Nat /\ Cardinality(W) \in Nat
    BY <1>2, <1>4, ShiftFacts, FS_CardinalityType
  <2>2. CASE Disorder
    <3>1. PICK d : d = copy[wr].pn
      OBVIOUS
    <3>2. V = W \cup {d}
      BY <1>7, <2>2, <3>1
    <3>3. /\ IsFiniteSet(V)
          /\ Cardinality(V) = IF d \in W THEN Cardinality(W) ELSE Cardinality(W) + 1
      BY <1>4, <3>2, FS_AddElement
    <3>4. QED
      BY <1>4, <2>1, <2>2, <3>3
  <2>3. CASE ~Disorder
    BY <1>4, <1>7, <2>1, <2>3
  <2>4. QED
    BY <2>2, <2>3
<1>9. A \subseteq V
  BY <1>6, <1>7
<1>10. Cardinality(A) <= Cardinality(V) /\ Cardinality(A) \in Nat
  <2>1. IsFiniteSet(A) /\ Cardinality(A) <= Cardinality(V)
    BY <1>8, <1>9, FS_Subset
  <2>2. QED
    BY <2>1, FS_CardinalityType
<1>11. Cardinality(A) <= broken + (IF Disorder THEN 1 ELSE 0)
  <2>1. broken \in Nat
    BY <1>2, ShiftFacts
  <2>2. QED
    BY <1>8, <1>10, <2>1
<1>12. broken = 0 => \A p \in A : Copied /\ <<p, acked[p]>> \in Held(copy, rd, croot)
  <2>1. ASSUME broken = 0 PROVE W = {}
    <3>1. Cardinality(W) = 0
      BY <1>4, <2>1, FS_CardinalityType
    <3>2. QED
      BY <1>4, <3>1, FS_EmptySet
  <2>2. QED
    BY <1>6, <2>1
<1>13. ShiftKeepsPages
  BY <1>5, <1>11, <1>12 DEF ShiftKeepsPages
<1>14. QED
  BY <1>3, <1>13 DEF ShiftInv

(* On every file of more than one page, and whatever calls run on it: the  *)
(* invariant of the proofs holds of insertNewPageDisorder, of the other    *)
(* insertion, of updates and of searches, with a crash between any two     *)
(* writes.                                                                 *)
THEOREM ShiftInvariance == ASSUME LeavesFork PROVE DisorderSpec => []DInv
<1>1. DisorderInit => DInv
  BY InitShift
<1>2. DInv /\ [DisorderNext]_disorderVars => DInv'
  BY NextShift
<1>3. QED
  BY <1>1, <1>2, PTL DEF DisorderSpec

(* insertNewPageDisorder overwrites the leaves in place from its copy of   *)
(* the file, and loses no page that was reported: at any moment one at     *)
(* most is missing from the leaves, which the copy still holds, and every  *)
(* crash of a shift costs one page at most, for good.                      *)
THEOREM ShiftSafety == ASSUME LeavesFork PROVE DisorderSpec => []ShiftInv
<1>1. DInv => ShiftInv
  BY InvKeepsPages
<1>2. DisorderSpec => []DInv
  BY ShiftInvariance
<1>3. QED
  BY <1>1, <1>2, PTL

-----------------------------------------------------------------------------
(* The order of the pages, while no crash has cut a call that writes.      *)
(*                                                                         *)
(* The pages of the leaves in use ascend at every moment of an insertion,  *)
(* also while the shift runs: the leaf written last holds the page that    *)
(* was before its own, and the page to be written next is greater than all *)
(* before it.  A separator is the page of the last leaf on its left, but   *)
(* for those above the leaf written last that the walk to the root has not *)
(* come to.                                                                *)
Ascends(f, n) ==
    \A x, z \in 1 .. n :
        x < z /\ f[x].lvl = 0 /\ f[z].lvl = 0 /\ ~f[z].isn => ~f[x].isn /\ f[x].pn < f[z].pn

Reported(f, n, S) == \A x \in 1 .. n : f[x].lvl = 0 /\ ~f[x].isn => f[x].pn \in S

(* An insertion has written a leaf; the last one it wrote.                 *)
Inserts == Shifting /\ op.kind # "update"
LastPut == IF Disorder THEN wr ELSE slot

(* The walk up from that leaf has not set the separator of block a.        *)
Unset(a) ==
    \/ pc = "path"
    \/ pc = "sepParent" /\ a = cur
    \/ pc \in {"seps", "sepParent", "sepLeft", "sepRight"} /\ a > cur

(* Block a separates behind the leaf z.                                    *)
EndsAt(f, a, z) == f[a].lvl > 0 /\ LastLeaf(f, a + f[a].lcos, z)

Separates ==
    \A a, z \in 1 .. hdr.rno :
        EndsAt(file, a, z) /\ ~(Inserts /\ z = LastPut /\ Unset(a)) => file[a].pn = file[z].pn

FileOrdered ==
    /\ Ascends(file, hdr.rno)
    /\ Reported(file, hdr.rno, Known \cup (IF Inserts THEN {op.page} ELSE {}))
    /\ hdr.fslo # NoPos /\ ~Inserts => file[hdr.fslo].isn

CopyOrdered ==
    Copied =>
        /\ Ascends(copy, croot) /\ Reported(copy, croot, Known)
        /\ op.page \notin Known
        /\ hdr.fslo \in 1 .. croot => copy[hdr.fslo].isn

(* What an insertion has written fits the pages to come.                   *)
Fits ==
    /\ op.kind = "insert" => \A p \in Known : p < op.page
    /\ Inserts /\ Disorder =>
          /\ wr <= slot /\ (wr < slot => file[slot].isn)
          /\ wr <= croot /\ ~copy[wr].isn =>
                \A x \in 1 .. wr : file[x].lvl = 0 => file[x].pn < copy[wr].pn

(* The walk up is above the leaf; the search is between smaller and        *)
(* greater pages.                                                          *)
AboveTarget(lo) ==
    pc \in {"seps", "sepParent", "sepLeft", "sepRight"} =>
        lo[cur] <= LastPut /\ LastPut <= cur /\ (pc # "seps" => LastPut < cur)

Beside(lo) ==
    pc = "search" =>
        /\ \A x \in 1 .. hdr.rno : file[x].lvl = 0 /\ ~file[x].isn =>
              /\ x < lo[cur] => file[x].pn < op.page
              /\ x > cur => op.page < file[x].pn
        /\ \A z \in 1 .. cur : LastLeaf(file, cur, z) =>
              op.page <= file[z].pn \/ \A u \in cur + 1 .. hdr.rno : file[u].lvl > 0
        /\ ret = NoPos => cur = hdr.rno

OrdAt(lo) == FileOrdered /\ Separates /\ CopyOrdered /\ Fits /\ AboveTarget(lo) /\ Beside(lo)

OInvAt(lo) == cut = {} /\ (broken = 0 => OrdAt(lo))

OInv == ShiftType /\ \E lo : DInvAt(lo) /\ OInvAt(lo)

-----------------------------------------------------------------------------
(* Leaves keep their place, their page and their mark as padding.          *)
SamePages(f, g, n) ==
    \A x \in 1 .. n : g[x].lvl = f[x].lvl /\ g[x].lcos = f[x].lcos
                      /\ (f[x].lvl = 0 => g[x].pn = f[x].pn /\ g[x].isn = f[x].isn)

(* There is one last leaf.                                                 *)
LEMMA OneLastLeaf ==
    ASSUME NEW f, NEW m \in Nat, NEW y, NEW z, LastLeaf(f, m, y), LastLeaf(f, m, z)
    PROVE  y = z
<1>1. y \in 1 .. m /\ z \in 1 .. m
  BY DEF LastLeaf
<1>2. ~(y < z) /\ ~(z < y)
  BY <1>1 DEF LastLeaf
<1>3. QED
  BY <1>1, <1>2

(* The subtree of a block ends in a leaf.                                  *)
LEMMA LastLeafIn ==
    ASSUME NEW f \in [Pos -> Block], NEW lo, NEW n \in Nat, FileTree(f, lo, n), NEW p \in 1 .. n
    PROVE  \E z \in lo[p] .. p : z \in 1 .. n /\ LastLeaf(f, p, z)
<1> DEFINE D == {x \in lo[p] .. p : f[x].lvl = 0}
<1>1. /\ 1 .. n \subseteq Pos /\ p \in Nat
      /\ \A x \in 1 .. n : f[x].lvl \in Nat /\ f[x].lcos \in Int /\ f[x].pos \in Nat
  <2>1. 1 .. n \subseteq Pos
    BY PosFacts DEF FileTree
  <2>2. QED
    BY <2>1, BlockTypes DEF FileTree, UpAt
<1>2. TreeRow(f, lo, n)
  BY <1>1 DEF TreeRow, FileTree
<1>3. lo[p] \in 1 .. p /\ f[lo[p]].lvl = 0
  BY <1>2, BelowInTree
<1>4. lo[p] \in D /\ D \subseteq 1 .. p
  BY <1>1, <1>3
<1> HIDE DEF D
<1>5. PICK z \in D : \A k \in z + 1 .. p : k \notin D
  BY <1>1, <1>4, GreatestOf
<1>6. z \in lo[p] .. p /\ f[z].lvl = 0 /\ z \in 1 .. p /\ z \in 1 .. n
  BY <1>1, <1>3, <1>5 DEF D
<1>7. ASSUME NEW u \in z + 1 .. p PROVE f[u].lvl > 0
  <2>1. u \in 1 .. n /\ u \in lo[p] .. p
    BY <1>1, <1>3, <1>6
  <2>2. f[u].lvl # 0
    BY <1>5, <2>1 DEF D
  <2>3. QED
    BY <1>1, <2>1, <2>2
<1>8. QED
  BY <1>6, <1>7 DEF LastLeaf

(* The left subtree of an interior block.                                  *)
LEMMA EndsIn ==
    ASSUME NEW f \in [Pos -> Block], NEW lo, NEW h \in Header, Formed(f, lo, h),
           NEW a \in 1 .. h.rno, f[a].lvl > 0
    PROVE  LET l == a + f[a].lcos IN
           /\ l \in Nat /\ l \in 1 .. a - 2 /\ l \in 1 .. h.rno /\ l <= h.rno
           /\ lo[l] = lo[a] /\ lo[a - 1] = l + 1 /\ a - 1 \in 1 .. h.rno /\ lo[a] \in 1 .. l
           /\ \E z \in lo[l] .. l : z \in 1 .. h.rno /\ LastLeaf(f, l, z)
<1> DEFINE n == h.rno
           l == a + f[a].lcos
<1>1. l \in 1 .. a - 2 /\ l \in 1 .. n /\ lo[l] = lo[a] /\ lo[a - 1] = l + 1 /\ a - 1 \in 1 .. n
  BY ChildrenIn DEF Lchild, Rchild
<1>2. n \in Nat /\ FileTree(f, lo, n)
  BY FormedFacts DEF Formed
<1>3. lo[l] \in 1 .. l
  BY <1>1, <1>2 DEF FileTree, TreeAt
<1>4. \E z \in lo[l] .. l : z \in 1 .. n /\ LastLeaf(f, l, z)
  BY <1>1, <1>2, LastLeafIn
<1>5. QED
  BY <1>1, <1>2, <1>3, <1>4

LEMMA EndsSame ==
    ASSUME NEW f \in [Pos -> Block], NEW g, NEW lo, NEW h \in Header, Formed(f, lo, h),
           \A x \in 1 .. h.rno : g[x].lvl = f[x].lvl /\ g[x].lcos = f[x].lcos,
           NEW a \in 1 .. h.rno, NEW z
    PROVE  EndsAt(g, a, z) <=> EndsAt(f, a, z)
<1>1. SUFFICES ASSUME f[a].lvl > 0 PROVE LastLeaf(g, a + g[a].lcos, z) <=> LastLeaf(f, a + f[a].lcos, z)
  BY DEF EndsAt
<1>2. h.rno \in Nat /\ a + f[a].lcos \in Nat /\ a + f[a].lcos <= h.rno
  BY <1>1, EndsIn, FormedFacts
<1>3. g[a].lcos = f[a].lcos /\ \A x \in 1 .. h.rno : g[x].lvl = f[x].lvl
  OBVIOUS
<1>4. PICK m \in Nat, n \in Nat : m = a + f[a].lcos /\ n = h.rno /\ m <= n
  BY <1>2
<1>5. LastLeaf(g, m, z) <=> LastLeaf(f, m, z)
  <2>1. SUFFICES ASSUME z \in 1 .. m PROVE LastLeaf(g, m, z) <=> LastLeaf(f, m, z)
    BY DEF LastLeaf
  <2>2. z \in 1 .. n /\ \A u \in z + 1 .. m : u \in 1 .. n
    BY <1>4, <2>1
  <2>3. QED
    BY <1>3, <1>4, <2>2 DEF LastLeaf
<1>6. QED
  BY <1>3, <1>4, <1>5

(* The leaf behind which a block separates is in its left subtree.         *)
LEMMA EndsWhere ==
    ASSUME NEW f \in [Pos -> Block], NEW lo, NEW h \in Header, Formed(f, lo, h),
           NEW a \in 1 .. h.rno, NEW z, EndsAt(f, a, z)
    PROVE  /\ z \in lo[a] .. a + f[a].lcos /\ z \in 1 .. h.rno /\ f[z].lvl = 0 /\ z < a
           /\ \A x \in 1 .. h.rno : f[x].lvl = 0 /\ x <= a + f[a].lcos => x <= z
<1> DEFINE l == a + f[a].lcos
<1>1. /\ l \in Nat /\ l \in 1 .. a - 2 /\ l \in 1 .. h.rno /\ lo[l] = lo[a] /\ LastLeaf(f, l, z)
      /\ \E y \in lo[l] .. l : y \in 1 .. h.rno /\ LastLeaf(f, l, y)
  BY EndsIn DEF EndsAt
<1> HIDE DEF l
<1>2. z \in lo[a] .. l /\ z \in 1 .. h.rno /\ f[z].lvl = 0
  BY <1>1, OneLastLeaf DEF LastLeaf
<1>3. ASSUME NEW x \in 1 .. h.rno, f[x].lvl = 0, x <= l PROVE x <= z
  BY <1>1, <1>2, <1>3 DEF LastLeaf
<1>4. QED
  BY <1>1, <1>2, <1>3 DEF l

(* Steps that keep the pages of the leaves.                                *)
LEMMA SeparatesStays ==
    ASSUME ShiftType, NEW lo, DInvAt(lo), Separates, SamePages(file, file', hdr.rno), hdr' = hdr,
           UNCHANGED <<op, slot, wr>>, Inserts' <=> Inserts,
           \A a \in 1 .. hdr.rno : file[a].lvl > 0 => file'[a].pn = file[a].pn,
           \A a \in 1 .. hdr.rno :
               Inserts /\ EndsAt(file, a, LastPut) /\ Unset(a) => Unset(a)'
    PROVE  Separates'
<1>1. file \in [Pos -> Block] /\ hdr \in Header /\ Formed(file, lo, hdr)
  BY ShiftFacts DEF DInvAt, BaseAt
<1>2. LastPut' = LastPut
  BY DEF LastPut, Disorder
<1>3. SUFFICES ASSUME NEW a \in 1 .. hdr.rno, NEW z \in 1 .. hdr.rno, EndsAt(file', a, z),
                      ~(Inserts /\ z = LastPut /\ Unset(a)')
               PROVE  file'[a].pn = file'[z].pn
  BY <1>2 DEF Separates, EndsAt, LastLeaf, Unset
<1>4. EndsAt(file, a, z)
  BY <1>1, <1>3, EndsSame DEF SamePages
<1>5. file[a].pn = file[z].pn
  BY <1>3, <1>4 DEF Separates
<1>6. file[a].lvl > 0 /\ file[z].lvl = 0
  BY <1>4 DEF EndsAt, LastLeaf
<1>7. QED
  BY <1>5, <1>6 DEF SamePages

LEMMA OrderStays ==
    ASSUME ShiftType, NEW lo, DInvAt(lo), OrdAt(lo), SamePages(file, file', hdr.rno), hdr' = hdr,
           UNCHANGED <<op, slot, acked, copy, croot, wroot, wr>>, Inserts' <=> Inserts,
           NEW lo2, Separates', AboveTarget(lo2)', Beside(lo2)'
    PROVE  OrdAt(lo2)'
<1> DEFINE n == hdr.rno
<1>1. /\ file \in [Pos -> Block] /\ hdr \in Header /\ Formed(file, lo, hdr) /\ n \in Nat
      /\ hdr.fslo # NoPos => hdr.fslo \in 1 .. n /\ file[hdr.fslo].lvl = 0
      /\ wr \in Nat
  BY ShiftFacts, FormedFacts DEF DInvAt, BaseAt
<1>2. (Copied' <=> Copied) /\ (Disorder' <=> Disorder) /\ Known' = Known
  BY DEF Copied, Disorder, Known
<1>3. FileOrdered'
  BY <1>1, <1>2 DEF OrdAt, FileOrdered, Ascends, Reported, SamePages
<1>4. CopyOrdered'
  BY <1>2 DEF OrdAt, CopyOrdered, Ascends, Reported
<1>5. Fits'
  <2>1. ASSUME Inserts, Disorder
        PROVE  /\ wr <= slot /\ (wr < slot => file'[slot].isn)
               /\ wr <= croot /\ ~copy[wr].isn =>
                     \A x \in 1 .. wr : file'[x].lvl = 0 => file'[x].pn < copy[wr].pn
    <3>1. CopyInv /\ Copied /\ slot = hdr.fslo /\ slot # NoPos
      BY <2>1 DEF DInvAt, BaseAt, CallAt, KindsAt, SlotAt, Working, Inserts, Shifting
    <3>2. PICK y : ShiftAt(y)
      BY <2>1, <3>1 DEF CopyInv, Inserts
    <3>3. wr \in 1 .. n
      BY <3>2 DEF ShiftAt, LeafAt
    <3>4. \A x \in 1 .. wr : x \in 1 .. n
      BY <1>1, <3>3
    <3>5. wr <= slot /\ (wr < slot => file[slot].isn)
          /\ (wr <= croot /\ ~copy[wr].isn =>
                \A x \in 1 .. wr : file[x].lvl = 0 => file[x].pn < copy[wr].pn)
      BY <2>1 DEF OrdAt, Fits
    <3>6. QED
      BY <1>1, <3>1, <3>4, <3>5 DEF SamePages
  <2>2. op.kind = "insert" => \A p \in Known : p < op.page
    BY DEF OrdAt, Fits
  <2>3. QED
    BY <1>2, <2>1, <2>2 DEF Fits
<1>6. QED
  BY <1>3, <1>4, <1>5 DEF OrdAt

(* The ends of calls and the beginnings of calls that copy no file.        *)
LEMMA OrderAnew ==
    ASSUME ShiftType, NEW lo, DInvAt(lo), OrdAt(lo), file' = file, hdr'.rno = hdr.rno,
           hdr'.fslo # NoPos => file[hdr'.fslo].isn, ~Copied', ~Inserts',
           \A a \in 1 .. hdr.rno : Inserts => ~Unset(a),
           Reported(file, hdr.rno, Known'),
           op'.kind = "insert" => \A p \in Known' : p < op'.page,
           AboveTarget(lo)', Beside(lo)'
    PROVE  OrdAt(lo)'
<1>1. FileOrdered'
  <2>1. Ascends(file, hdr.rno)
    BY DEF OrdAt, FileOrdered
  <2>2. Ascends(file, hdr.rno)'
    BY <2>1 DEF Ascends
  <2>3. Reported(file, hdr.rno, Known)'
    BY DEF Reported
  <2>4. Reported(file, hdr.rno, Known \cup (IF Inserts THEN {op.page} ELSE {}))'
    BY <2>3 DEF Reported
  <2>5. QED
    BY <2>2, <2>4 DEF FileOrdered
<1>2. Separates'
  BY DEF OrdAt, Separates, EndsAt, LastLeaf
<1>3. CopyOrdered' /\ Fits'
  BY DEF CopyOrdered, Fits
<1>4. QED
  BY <1>1, <1>2, <1>3 DEF OrdAt

-----------------------------------------------------------------------------
(* The beginnings and ends of calls.                                       *)
LEMMA SearchStarts ==
    ASSUME ShiftType, NEW lo, DInvAt(lo), pc' = "search", cur' = hdr.rno, UNCHANGED <<file, hdr>>
    PROVE  AboveTarget(lo)' /\ Beside(lo)' /\ ~Inserts'
<1>1. hdr.rno \in Nat /\ lo[hdr.rno] = 1
  BY ShiftFacts, FormedFacts DEF DInvAt, BaseAt, Formed, FileTree
<1>2. \A x \in 1 .. hdr.rno : ~(x < 1) /\ ~(x > hdr.rno)
  BY <1>1
<1>3. hdr.rno + 1 .. hdr.rno = {}
  BY <1>1
<1>4. QED
  BY <1>1, <1>2, <1>3 DEF AboveTarget, Beside, Inserts, Shifting

LEMMA BeginsOrder ==
    ASSUME ShiftType, NEW lo, DInvAt(lo), OrdAt(lo), NEW args, BeginSearch(args),
           args.kind # "insert", pc \in {"idle", "search"}, ~Copied,
           UNCHANGED <<storeVars, shiftVars>>
    PROVE  OrdAt(lo)'
<1>1. /\ pc' = "search" /\ op' = args /\ cur' = hdr.rno
      /\ UNCHANGED <<file, hdr, acked, wroot>>
  BY DEF BeginSearch, storeVars, shiftVars
<1>2. AboveTarget(lo)' /\ Beside(lo)' /\ ~Inserts'
  BY <1>1, SearchStarts
<1>3. ~Inserts /\ ~Copied'
  BY <1>1 DEF Inserts, Shifting, Copied
<1>4. Reported(file, hdr.rno, Known') /\ (hdr.fslo # NoPos => file[hdr.fslo].isn)
  BY <1>1, <1>3 DEF OrdAt, FileOrdered, Reported, Known
<1>5. QED
  BY <1>1, <1>2, <1>3, <1>4, OrderAnew

LEMMA EndsOrder ==
    ASSUME ShiftType, NEW lo, DInvAt(lo), OrdAt(lo), Return, ~Copied', ~Inserts, Known' = Known,
           UNCHANGED <<file, hdr>>
    PROVE  OrdAt(lo)'
<1>1. pc' = "idle" /\ op'.kind = "none"
  BY DEF Return, NoOp
<1>2. AboveTarget(lo)' /\ Beside(lo)' /\ ~Inserts'
  BY <1>1 DEF AboveTarget, Beside, Inserts, Shifting
<1>3. Reported(file, hdr.rno, Known') /\ (hdr.fslo # NoPos => file[hdr.fslo].isn)
  BY DEF OrdAt, FileOrdered, Reported
<1>4. QED
  BY <1>1, <1>2, <1>3, OrderAnew

LEMMA StartInsertOrder ==
    ASSUME ShiftType, NEW lo, DInvAt(lo), OrdAt(lo), NEW args, StartInsert(args), UNCHANGED shiftVars
    PROVE  OrdAt(lo)'
<1>1. /\ pc = "idle" /\ \A p \in Known : p < args.page
      /\ op' = args /\ pc' \in {"fill", "extend"} /\ UNCHANGED <<file, hdr, acked, wroot>>
  BY DEF StartInsert, Known, shiftVars
<1>2. AboveTarget(lo)' /\ Beside(lo)' /\ ~Inserts' /\ ~Inserts
  BY <1>1 DEF AboveTarget, Beside, Inserts, Shifting
<1>3. ~Copied'
  <2>1. op.kind = "none"
    BY <1>1 DEF DInvAt, CallAt, KindsAt, NoOp
  <2>2. ~Copied
    BY <2>1 DEF DInvAt, BaseAt, CopyInv, Disorder
  <2>3. QED
    BY <1>1, <2>2 DEF Copied
<1>4. Reported(file, hdr.rno, Known') /\ (hdr.fslo # NoPos => file[hdr.fslo].isn)
  BY <1>1, <1>2 DEF OrdAt, FileOrdered, Reported, Known
<1>5. QED
  BY <1>1, <1>2, <1>3, <1>4, OrderAnew DEF Known

(* The header names a leaf that the scan found to be padding.              *)
LEMMA ReturnsOrder ==
    ASSUME ShiftType, NEW lo, DInvAt(lo), OrdAt(lo), pc = "next", ScanEnded, Return, ~Copied',
           file' = file, hdr'.rno = hdr.rno, hdr'.fslo = NewHeader.fslo,
           Known' = Known \cup {op.page}
    PROVE  OrdAt(lo)'
<1>1. pc' = "idle" /\ op'.kind = "none"
  BY DEF Return, NoOp
<1>2. AboveTarget(lo)' /\ Beside(lo)' /\ ~Inserts'
  BY <1>1 DEF AboveTarget, Beside, Inserts, Shifting
<1>3. Reported(file, hdr.rno, Known')
  BY DEF OrdAt, FileOrdered, Reported
<1>4. \A a \in 1 .. hdr.rno : ~Unset(a)
  BY DEF Unset
<1>5. ASSUME hdr'.fslo # NoPos PROVE file[hdr'.fslo].isn
  <2>1. /\ file \in [Pos -> Block] /\ hdr.rno \in Nat /\ 1 .. hdr.rno \subseteq Pos
        /\ cur \in slot .. hdr.rno /\ slot \in 1 .. hdr.rno
    BY ShiftFacts, FormedFacts DEF DInvAt, BaseAt, CallAt, NextAt, SlotAt, Working
  <2>2. ~ScanFails /\ hdr'.fslo = cur /\ AtPadLeaf
    BY <1>5 DEF NewHeader, ScanFound, ScanEnded
  <2>3. cur \in Pos
    BY <2>1
  <2>4. QED
    BY <2>2, <2>3 DEF AtPadLeaf, Read
<1>6. QED
  BY <1>1, <1>2, <1>3, <1>4, <1>5, OrderAnew

-----------------------------------------------------------------------------
(* One turn of the search: the separator is the page of the last leaf on   *)
(* its left, which is smaller than all pages on its right.                 *)
LEMMA SearchOrder ==
    ASSUME ShiftType, NEW lo, DInvAt(lo), OrdAt(lo), Search, UNCHANGED shiftVars
    PROVE  OrdAt(lo)'
<1> DEFINE n == hdr.rno
           l == cur + file[cur].lcos
<1>1. /\ pc = "search" /\ IsInterior(file, cur)
      /\ cur' = IF op.page <= Read(file, cur).pn THEN Lchild(file, cur) ELSE Rchild(file, cur)
      /\ ret' = cur'
      /\ UNCHANGED <<file, hdr, pc, op, slot, acked, copy, croot, wroot, wr>>
  BY DEF Search, SearchStep, storeVars, shiftVars
<1>2. /\ file \in [Pos -> Block] /\ hdr \in Header /\ Formed(file, lo, hdr)
      /\ 1 .. n \subseteq Pos /\ op.page \in Nat /\ op.page < NoPage /\ n \in Nat
      /\ \A x \in 1 .. n : file[x].pn \in Nat /\ file[x].lvl \in Nat
  BY <1>1, ShiftFacts, FormedFacts DEF DInvAt, BaseAt, CallAt, KindsAt
<1>3. cur \in 1 .. n
  BY <1>1 DEF DInvAt, CallAt, SearchAt
<1>4. Read(file, cur) = file[cur] /\ file[cur].lvl > 0
  BY <1>1, <1>2, <1>3 DEF Read, IsInterior
<1>5. /\ l \in Nat /\ l \in 1 .. cur - 2 /\ l \in 1 .. n
      /\ lo[l] = lo[cur] /\ lo[cur - 1] = l + 1 /\ cur - 1 \in 1 .. n
      /\ \E z \in lo[l] .. l : z \in 1 .. n /\ LastLeaf(file, l, z)
  BY <1>2, <1>3, <1>4, EndsIn
<1>6. PICK z \in 1 .. n : LastLeaf(file, l, z)
  BY <1>5
<1>7. Lchild(file, cur) = l /\ Rchild(file, cur) = cur - 1
  BY <1>2, <1>3, <1>4, ChildrenIn
<1>8. EndsAt(file, cur, z)
  BY <1>4, <1>6 DEF EndsAt
<1> HIDE DEF l
<1>9. z \in 1 .. l /\ file[z].lvl = 0 /\ file[cur].pn = file[z].pn /\ z < cur
      /\ \A x \in 1 .. n : file[x].lvl = 0 /\ x <= l => x <= z
  <2>1. ~Inserts
    BY <1>1 DEF Inserts, Shifting
  <2>2. file[cur].pn = file[z].pn
    BY <1>3, <1>8, <2>1 DEF OrdAt, Separates
  <2>3. QED
    BY <1>2, <1>3, <1>5, <1>6, <2>2 DEF LastLeaf
<1>10. /\ \A x \in 1 .. n : file[x].lvl = 0 /\ ~file[x].isn =>
             /\ x < lo[cur] => file[x].pn < op.page
             /\ x > cur => op.page < file[x].pn
       /\ \A y \in 1 .. cur : LastLeaf(file, cur, y) =>
             op.page <= file[y].pn \/ \A u \in cur + 1 .. n : file[u].lvl > 0
  BY <1>1 DEF OrdAt, Beside
<1>11. Ascends(file, n)
  BY DEF OrdAt, FileOrdered
<1>12. cur' \in 1 .. n
  BY <1>1, <1>4, <1>5, <1>7
<1>13. /\ \A x \in 1 .. n : file[x].lvl = 0 /\ ~file[x].isn =>
              /\ x < lo[cur'] => file[x].pn < op.page
              /\ x > cur' => op.page < file[x].pn
       /\ \A y \in 1 .. cur' : LastLeaf(file, cur', y) =>
              op.page <= file[y].pn \/ \A u \in cur' + 1 .. n : file[u].lvl > 0
  <2>1. CASE op.page <= file[cur].pn
    <3>1. cur' = l
      BY <1>1, <1>4, <1>7, <2>1
    <3>2. ASSUME NEW x \in 1 .. n, file[x].lvl = 0, ~file[x].isn, x > l PROVE op.page < file[x].pn
      <4>1. z < x /\ file[z].pn < file[x].pn
        BY <1>5, <1>9, <1>11, <3>2 DEF Ascends
      <4>2. QED
        BY <1>2, <1>9, <2>1, <4>1
    <3>3. ASSUME NEW y \in 1 .. l, LastLeaf(file, l, y) PROVE op.page <= file[y].pn
      BY <1>5, <1>6, <1>9, <2>1, <3>3, OneLastLeaf
    <3>4. QED
      BY <1>5, <1>10, <3>1, <3>2, <3>3
  <2>2. CASE ~(op.page <= file[cur].pn)
    <3>1. cur' = cur - 1 /\ lo[cur'] = l + 1
      BY <1>1, <1>4, <1>5, <1>7, <2>2
    <3>2. ~file[z].isn
      <4>1. file[z].pn # NoPage
        BY <1>2, <1>3, <1>9, <2>2
      <4>2. QED
        BY <1>2, <1>9, <4>1 DEF Formed, PadsLast
    <3>3. ASSUME NEW x \in 1 .. n, file[x].lvl = 0, ~file[x].isn, x < l + 1 PROVE file[x].pn < op.page
      <4>1. x <= z
        BY <1>5, <1>9, <3>3
      <4>2. x < z => file[x].pn < file[z].pn
        BY <1>9, <1>11, <3>2, <3>3 DEF Ascends
      <4>3. QED
        BY <1>2, <1>3, <1>9, <2>2, <4>1, <4>2
    <3>4. ASSUME NEW x \in 1 .. n, file[x].lvl = 0, ~file[x].isn, x > cur - 1 PROVE op.page < file[x].pn
      BY <1>3, <1>4, <1>10, <3>4
    <3>5. ASSUME NEW y \in 1 .. cur - 1, LastLeaf(file, cur - 1, y)
          PROVE  op.page <= file[y].pn \/ \A u \in cur .. n : file[u].lvl > 0
      <4>1. y \in 1 .. cur /\ LastLeaf(file, cur, y)
        BY <1>2, <1>3, <1>4, <3>5 DEF LastLeaf
      <4>2. QED
        BY <1>3, <1>4, <1>10, <4>1
    <3>6. cur - 1 + 1 = cur
      BY <1>3
    <3>7. QED
      BY <3>1, <3>3, <3>4, <3>5, <3>6
  <2>3. QED
    BY <2>1, <2>2
<1>14. Beside(lo)' /\ AboveTarget(lo)'
  <2>1. ret' # NoPos
    BY <1>1, <1>12 DEF NoPos
  <2>2. Beside(lo)'
    BY <1>1, <1>13, <2>1 DEF Beside, LastLeaf
  <2>3. QED
    BY <1>1, <2>2 DEF AboveTarget
<1>15. Separates' /\ (Inserts' <=> Inserts) /\ SamePages(file, file', n)
  BY <1>1 DEF OrdAt, Separates, Inserts, Shifting, LastPut, Disorder, Unset, EndsAt, LastLeaf, SamePages
<1>16. QED
  BY <1>1, <1>14, <1>15, OrderStays

-----------------------------------------------------------------------------
(* Steps that leave all pages where they are.                              *)
LEMMA PagesStay ==
    ASSUME ShiftType, NEW lo, DInvAt(lo), OrdAt(lo),
           \A x \in 1 .. hdr.rno : SameShape(file, file', x), hdr' = hdr,
           UNCHANGED <<op, slot, acked, copy, croot, wroot, wr>>, Inserts' <=> Inserts,
           \A a \in 1 .. hdr.rno :
               Inserts /\ EndsAt(file, a, LastPut) /\ Unset(a) => Unset(a)',
           NEW lo2, AboveTarget(lo2)', Beside(lo2)'
    PROVE  OrdAt(lo2)'
<1>1. SamePages(file, file', hdr.rno)
  BY DEF SamePages, SameShape
<1>2. Separates'
  BY <1>1, SeparatesStays DEF SameShape, OrdAt
<1>3. QED
  BY <1>1, <1>2, OrderStays

(* Steps within a phase of a call that is no walk.                         *)
LEMMA PhaseOrder ==
    ASSUME ShiftType, NEW lo, DInvAt(lo), OrdAt(lo),
           \A x \in 1 .. hdr.rno : SameShape(file, file', x), hdr' = hdr,
           UNCHANGED <<op, slot, acked, copy, croot, wroot, wr>>,
           pc' \notin {"search", "seps", "sepParent", "sepLeft", "sepRight"},
           Inserts' <=> Inserts, pc = "path" => pc' = "path",
           pc \notin {"seps", "sepParent", "sepLeft", "sepRight"},
           NEW lo2
    PROVE  OrdAt(lo2)'
<1>1. AboveTarget(lo2)' /\ Beside(lo2)'
  BY DEF AboveTarget, Beside
<1>2. \A a \in 1 .. hdr.rno : Unset(a) => Unset(a)'
  BY DEF Unset
<1>3. QED
  BY <1>1, <1>2, PagesStay

LEMMA HashKeeps ==
    ASSUME NEW f \in [Pos -> Block], NEW g, NEW p, NEW v, Rewritten(f, g, p, v)
    PROVE  \A x \in Pos : SameShape(f, g, x)
<1>1. SUFFICES ASSUME NEW x \in Pos PROVE SameShape(f, g, x)
  OBVIOUS
<1>2. CASE x = p
  <2>1. g[x] = [f[x] EXCEPT !.h = v] /\ f[x] \in Block
    BY <1>1, <1>2 DEF Rewritten
  <2>2. QED
    BY <2>1 DEF SameShape, Block
<1>3. CASE x # p
  BY <1>1, <1>3 DEF SameShape, Rewritten
<1>4. QED
  BY <1>2, <1>3

LEMMA UpdateLeafOrder ==
    ASSUME ShiftType, NEW lo, DInvAt(lo), OrdAt(lo), op.kind = "update", UpdateLeaf,
           UNCHANGED shiftVars
    PROVE  OrdAt(lo)'
<1>1. /\ pc = "search" /\ pc' = "path" /\ file' = [file EXCEPT ![ret].h = op.hash]
      /\ UNCHANGED <<hdr, op, slot, acked, copy, croot, wroot, wr>>
  BY DEF UpdateLeaf, Found, AtLeaf, storeVars, shiftVars
<1>2. file \in [Pos -> Block] /\ hdr \in Header /\ 1 .. hdr.rno \subseteq Pos
  BY ShiftFacts, FormedFacts DEF DInvAt, BaseAt
<1>3. \A x \in Pos : SameShape(file, file', x)
  <2>1. Rewritten(file, file', ret, op.hash)
    BY <1>1 DEF Rewritten
  <2>2. QED
    BY <1>2, <2>1, HashKeeps
<1>4. ~Inserts' /\ ~Inserts
  BY <1>1 DEF Inserts, Shifting
<1>5. QED
  BY <1>1, <1>2, <1>3, <1>4, PhaseOrder

LEMMA ClimbOrder ==
    ASSUME ShiftType, NEW lo, DInvAt(lo), OrdAt(lo), Climb, UNCHANGED shiftVars
    PROVE  OrdAt(lo)'
<1>1. /\ pc = "path" /\ pc' = pc /\ Climbs(file, cur) /\ cur' = Parent(file, cur)
      /\ file' = [file EXCEPT ![cur'] = Rehashed(file, cur')]
      /\ UNCHANGED <<hdr, op, slot, acked, copy, croot, wroot, wr>>
  BY DEF Climb, PathStep, storeVars, shiftVars
<1>2. file \in [Pos -> Block] /\ hdr \in Header /\ 1 .. hdr.rno \subseteq Pos
  BY ShiftFacts, FormedFacts DEF DInvAt, BaseAt
<1>3. \A x \in Pos : SameShape(file, file', x)
  <2>1. CASE cur' \in Pos
    <3>1. Rewritten(file, file', cur', ChildrenHash(file, cur'))
      BY <1>1, <2>1 DEF Rewritten, Rehashed, Read
    <3>2. QED
      BY <1>2, <3>1, HashKeeps
  <2>2. CASE cur' \notin Pos
    BY <1>1, <1>2, <2>2 DEF SameShape
  <2>3. QED
    BY <2>1, <2>2
<1>4. Inserts' <=> Inserts
  BY <1>1 DEF Inserts, Shifting
<1>5. QED
  BY <1>1, <1>2, <1>3, <1>4, PhaseOrder

LEMMA ScanOrder ==
    ASSUME ShiftType, NEW lo, DInvAt(lo), OrdAt(lo), UNCHANGED <<file, hdr, op, storeVars, shiftVars>>,
           \/ pc \in {"scan", "rescan", "next"} /\ pc' = pc
           \/ pc = "extend" /\ pc' = "scan"
           \/ pc = "scan" /\ pc' = "rescan"
           \/ pc = "sepsDone" /\ pc' = "next"
    PROVE  OrdAt(lo)'
<1>1. UNCHANGED <<op, slot, acked, copy, croot, wroot, wr>>
  BY DEF storeVars, shiftVars
<1>2. (Inserts' <=> Inserts) /\ pc # "path"
      /\ pc' \notin {"search", "seps", "sepParent", "sepLeft", "sepRight"}
      /\ pc \notin {"seps", "sepParent", "sepLeft", "sepRight"}
  BY <1>1 DEF Inserts, Shifting
<1>3. \A x \in 1 .. hdr.rno : SameShape(file, file', x)
  BY DEF SameShape
<1>4. QED
  BY <1>1, <1>2, <1>3, PhaseOrder

LEMMA GrowsOrder ==
    ASSUME ShiftType, NEW lo, DInvAt(lo), OrdAt(lo), ExtendBegin \/ ExtendStep, UNCHANGED shiftVars,
           NEW lo2
    PROVE  OrdAt(lo2)'
<1>1. pc = "extend" /\ UNCHANGED <<pc, op, slot, acked, copy, croot, wroot, wr>>
  BY DEF ExtendBegin, ExtendStep, walkVars, storeVars, shiftVars
<1>2. PICK A : A = EndPages
  OBVIOUS
<1>3. ExtendAt(lo, A)
  BY <1>1, <1>2 DEF DInvAt, CallAt, GrowAt
<1>4. \E lo3 : Grows(lo, lo3, A)
  BY <1>3, BeginGrows, QueueGrows DEF ExtendBegin, ExtendStep
<1>5. hdr' = hdr /\ \A x \in 1 .. hdr.rno : SameShape(file, file', x)
  BY <1>4 DEF Grows, KeepsOld
<1>6. (Inserts' <=> Inserts)
  BY <1>1 DEF Inserts, Shifting
<1>7. QED
  BY <1>1, <1>5, <1>6, PhaseOrder

(* The second search.                                                      *)
LEMMA SearchAgainOrder ==
    ASSUME ShiftType, NEW lo, DInvAt(lo), OrdAt(lo), SearchAgain
    PROVE  OrdAt(lo)'
<1>1. /\ pc = "fill" /\ pc' = "search" /\ cur' = hdr.rno
      /\ UNCHANGED <<file, hdr, op, slot, acked, copy, croot, wroot, wr>>
  BY DEF SearchAgain, storeVars, shiftVars
<1>2. AboveTarget(lo)' /\ Beside(lo)' /\ ~Inserts' /\ ~Inserts
  BY <1>1, SearchStarts DEF Inserts, Shifting
<1>3. \A x \in 1 .. hdr.rno : SameShape(file, file', x)
  BY <1>1 DEF SameShape
<1>4. QED
  BY <1>1, <1>2, <1>3, PagesStay

-----------------------------------------------------------------------------
(* The walk from the leaf written last up to the root.                     *)
LEMMA TargetFacts ==
    ASSUME ShiftType, NEW lo, DInvAt(lo), Inserts
    PROVE  LET n == hdr.rno IN
           /\ file \in [Pos -> Block] /\ hdr \in Header /\ Formed(file, lo, hdr) /\ n \in Nat
           /\ 1 .. n \subseteq Pos /\ FileTree(file, lo, n)
           /\ LastPut \in 1 .. n /\ file[LastPut].lvl = 0 /\ LastPut < n
           /\ slot = hdr.fslo /\ slot # NoPos /\ slot \in 1 .. n - 1 /\ file[slot].lvl = 0
           /\ file[n].rsvd = "root"
           /\ Disorder => Copied /\ wr \in 1 .. n /\ \E y \in 1 .. wr : ShiftAt(y)
<1>1. /\ file \in [Pos -> Block] /\ hdr \in Header /\ Formed(file, lo, hdr) /\ hdr.rno \in Nat
      /\ 1 .. hdr.rno \subseteq Pos /\ FileTree(file, lo, hdr.rno)
      /\ \A x \in 1 .. hdr.rno : file[x].lvl = 0 => x < hdr.rno
  BY ShiftFacts, FormedFacts DEF DInvAt, BaseAt, Formed
<1>2. slot = hdr.fslo /\ slot # NoPos
  BY DEF Inserts, Shifting, DInvAt, CallAt, SlotAt, Working
<1>3. slot \in 1 .. hdr.rno - 1 /\ slot \in 1 .. hdr.rno /\ file[slot].lvl = 0 /\ file[hdr.rno].rsvd = "root"
  BY <1>1, <1>2, FormedFacts
<1>4. ASSUME Disorder
      PROVE  Copied /\ wr \in 1 .. hdr.rno /\ file[wr].lvl = 0 /\ \E y \in 1 .. wr : ShiftAt(y)
  <2>1. Copied /\ CopyInv
    BY <1>4 DEF Inserts, Shifting, DInvAt, BaseAt, CallAt, KindsAt
  <2>2. PICK y \in 1 .. wr : ShiftAt(y)
    BY <2>1 DEF CopyInv, Inserts
  <2>3. QED
    BY <2>1, <2>2 DEF ShiftAt, LeafAt
<1>5. LastPut \in 1 .. hdr.rno /\ file[LastPut].lvl = 0
  BY <1>3, <1>4 DEF LastPut
<1>6. QED
  BY <1>1, <1>2, <1>3, <1>4, <1>5

LEMMA InsertsKinds ==
    ASSUME ShiftType, NEW lo, DInvAt(lo),
           pc \in {"seps", "sepParent", "sepLeft", "sepRight", "sepsDone", "next"}
    PROVE  Inserts
  BY DEF DInvAt, CallAt, KindsAt, Inserts, Shifting

LEMMA SepsStartOrder ==
    ASSUME ShiftType, NEW lo, DInvAt(lo), OrdAt(lo), pc = "path", op.kind # "update",
           pc' = "seps", cur' = LastPut,
           UNCHANGED <<file, hdr, op, storeVars, shiftVars>>
    PROVE  OrdAt(lo)'
<1>1. UNCHANGED <<file, hdr, op, slot, acked, copy, croot, wroot, wr>>
  BY DEF storeVars, shiftVars
<1>2. Inserts /\ Inserts' /\ LastPut' = LastPut
  BY <1>1 DEF Inserts, Shifting, LastPut, Disorder
<1>3. /\ file \in [Pos -> Block] /\ hdr \in Header /\ Formed(file, lo, hdr)
      /\ LastPut \in 1 .. hdr.rno /\ file[LastPut].lvl = 0 /\ FileTree(file, lo, hdr.rno)
  BY <1>2, TargetFacts
<1>4. lo[LastPut] = LastPut
  BY <1>3 DEF FileTree, TreeAt
<1>5. AboveTarget(lo)' /\ Beside(lo)'
  BY <1>1, <1>2, <1>3, <1>4 DEF AboveTarget, Beside
<1>6. ASSUME NEW a \in 1 .. hdr.rno, EndsAt(file, a, LastPut) PROVE Unset(a)'
  <2>1. LastPut < a
    BY <1>3, <1>6, EndsWhere
  <2>2. QED
    BY <1>3, <2>1 DEF Unset
<1>7. \A x \in 1 .. hdr.rno : SameShape(file, file', x)
  BY <1>1 DEF SameShape
<1>8. QED
  BY <1>1, <1>2, <1>5, <1>6, <1>7, PagesStay

LEMMA PathEndsOrder ==
    ASSUME ShiftType, NEW lo, DInvAt(lo), OrdAt(lo),
           \/ ~Disorder /\ PathDone /\ UNCHANGED shiftVars
           \/ Disorder /\ BeginSeps
    PROVE  OrdAt(lo)'
<1>1. /\ pc = "path" /\ op.kind # "update" /\ pc' = "seps" /\ cur' = LastPut
      /\ UNCHANGED <<file, hdr, op, storeVars, shiftVars>>
  BY DEF PathDone, BeginSeps, PathEnded, Disorder, LastPut
<1>2. QED
  BY <1>1, SepsStartOrder

(* Between a block and its parent no separator has the leaf on its left.   *)
LEMMA SepsBeginOrder ==
    ASSUME ShiftType, NEW lo, DInvAt(lo), OrdAt(lo), SepsBegin, UNCHANGED shiftVars
    PROVE  OrdAt(lo)'
<1> DEFINE n == hdr.rno
           u == Parent(file, cur)
<1>1. /\ pc = "seps" /\ cur' = Parent(file, cur) /\ pc' = "sepParent"
      /\ UNCHANGED <<file, hdr, op, slot, acked, copy, croot, wroot, wr>>
  BY DEF SepsBegin, storeVars, shiftVars
<1>2. Inserts /\ Inserts' /\ LastPut' = LastPut
  BY <1>1, InsertsKinds DEF Inserts, Shifting, LastPut, Disorder
<1>3. /\ file \in [Pos -> Block] /\ hdr \in Header /\ Formed(file, lo, hdr) /\ n \in Nat
      /\ LastPut \in 1 .. n /\ file[LastPut].lvl = 0 /\ FileTree(file, lo, n)
  BY <1>2, TargetFacts
<1>4. cur \in 1 .. n - 1 /\ lo[cur] <= LastPut /\ LastPut <= cur
  BY <1>1 DEF OrdAt, AboveTarget, DInvAt, CallAt, SepsAt
<1>5. file[cur].pos > 0
  BY <1>3, <1>4, FormedFacts
<1>6. /\ u \in cur + 1 .. n /\ lo[u] <= LastPut
      /\ \A a \in Int : cur < a /\ a < u => lo[a] > LastPut
  BY <1>3, <1>4, <1>5, ParentAbove
<1> HIDE DEF u
<1>7. AboveTarget(lo)' /\ Beside(lo)'
  BY <1>1, <1>2, <1>3, <1>4, <1>6 DEF AboveTarget, Beside, u
<1>8. ASSUME NEW a \in 1 .. n, EndsAt(file, a, LastPut), Unset(a) PROVE Unset(a)'
  <2>1. a > cur
    BY <1>1, <1>8 DEF Unset
  <2>2. ~(a < u)
    <3>1. SUFFICES ASSUME a < u PROVE FALSE
      OBVIOUS
    <3>2. lo[a] > LastPut
      BY <1>6, <2>1, <3>1
    <3>3. LastPut \in lo[a] .. a + file[a].lcos
      BY <1>3, <1>8, EndsWhere
    <3>4. lo[a] \in Int
      BY <1>3 DEF FileTree, TreeAt
    <3>5. QED
      BY <1>3, <3>2, <3>3, <3>4
  <2>3. cur' = u /\ a >= u
    BY <1>1, <1>6, <2>2 DEF u
  <2>4. QED
    BY <1>1, <1>6, <2>3 DEF Unset
<1>9. \A x \in 1 .. n : SameShape(file, file', x)
  BY <1>1 DEF SameShape
<1>10. QED
  BY <1>1, <1>2, <1>7, <1>8, <1>9, PagesStay

(* The separator of the block is the page of the last leaf on its left.    *)
LEMMA SepParentOrder ==
    ASSUME ShiftType, NEW lo, DInvAt(lo), OrdAt(lo), SepParent, UNCHANGED shiftVars
    PROVE  OrdAt(lo)'
<1> DEFINE n == hdr.rno
           l == Lchild(file, cur)
           r == Rchild(file, cur)
           y == Rightmost(file, l)
           b == [file[cur] EXCEPT !.pn = Read(file, y).pn, !.lcpn = Read(file, l).pn,
                                  !.rcpn = Read(file, r).pn]
<1>1. /\ pc = "sepParent" /\ pc' = "sepLeft"
      /\ file' = Written(cur, [Read(file, cur) EXCEPT !.pn = Read(file, y).pn,
                       !.lcpn = Read(file, l).pn, !.rcpn = Read(file, r).pn])
      /\ UNCHANGED <<hdr, op, cur, slot, acked, copy, croot, wroot, wr>>
  BY DEF SepParent, storeVars, shiftVars
<1>2. Inserts /\ (Inserts' <=> Inserts) /\ LastPut' = LastPut
  BY <1>1, InsertsKinds DEF Inserts, Shifting, LastPut, Disorder
<1>3. /\ file \in [Pos -> Block] /\ hdr \in Header /\ Formed(file, lo, hdr) /\ n \in Nat
      /\ FileTree(file, lo, n) /\ 1 .. n \subseteq Pos
  BY <1>2, TargetFacts
<1>4. cur \in 1 .. n /\ file[cur].lvl > 0
  BY <1>1 DEF DInvAt, CallAt, SepsAt
<1>5. /\ cur \in Pos /\ l = cur + file[cur].lcos /\ l \in 1 .. n /\ r \in 1 .. n
  BY <1>3, <1>4, ChildrenIn
<1>6. y \in lo[l] .. l /\ file[y].lvl = 0 /\ \A x \in y + 1 .. l : file[x].lvl # 0
  BY <1>3, <1>5, RightmostInTree
<1>7. y \in 1 .. l /\ y \in 1 .. n /\ l \in Nat
  <2>1. lo[l] \in 1 .. l
    BY <1>3, <1>5 DEF FileTree, TreeAt
  <2>2. QED
    BY <1>3, <1>5, <1>6, <2>1
<1>8. Read(file, cur) = file[cur] /\ Read(file, y) = file[y]
  BY <1>3, <1>4, <1>5, <1>7 DEF Read
<1>9. /\ b.lvl = file[cur].lvl /\ b.lcos = file[cur].lcos /\ b.pn = file[y].pn
  <2>1. file[cur] \in Block
    BY <1>3, <1>5
  <2>2. QED
    BY <1>8, <2>1 DEF Block
<1>10. file' = [file EXCEPT ![cur] = b]
  BY <1>1, <1>5, <1>8 DEF Written
<1> HIDE DEF b
<1>11. file'[cur] = b /\ \A x \in Pos : x # cur => file'[x] = file[x]
  BY <1>3, <1>5, <1>10
<1>12. EndsAt(file, cur, y)
  <2>1. \A x \in y + 1 .. l : file[x].lvl > 0
    BY <1>3, <1>5, <1>6, <1>7, FormedFacts
  <2>2. QED
    BY <1>4, <1>5, <1>6, <1>7, <2>1 DEF EndsAt, LastLeaf
<1> HIDE DEF y, l, r
<1>13. SamePages(file, file', n)
  <2>1. ASSUME NEW x \in 1 .. n
        PROVE  file'[x].lvl = file[x].lvl /\ file'[x].lcos = file[x].lcos
               /\ (file[x].lvl = 0 => file'[x].pn = file[x].pn /\ file'[x].isn = file[x].isn)
    <3>1. CASE x = cur
      BY <1>4, <1>9, <1>11, <3>1
    <3>2. CASE x # cur
      BY <1>3, <1>11, <3>2
    <3>3. QED
      BY <3>1, <3>2
  <2>2. QED
    BY <2>1 DEF SamePages
<1>14. Separates'
  <2>1. SUFFICES ASSUME NEW a \in 1 .. n, NEW z \in 1 .. n, EndsAt(file', a, z),
                        ~(Inserts /\ z = LastPut /\ Unset(a)')
                 PROVE  file'[a].pn = file'[z].pn
    BY <1>1, <1>2 DEF Separates, EndsAt, LastLeaf, Unset
  <2>2. EndsAt(file, a, z)
    BY <1>3, <1>13, <2>1, EndsSame DEF SamePages
  <2>3. file'[z].pn = file[z].pn
    BY <1>13, <2>2 DEF SamePages, EndsAt, LastLeaf
  <2>4. CASE a = cur
    <3>1. z = y
      <4>1. LastLeaf(file, l, z) /\ LastLeaf(file, l, y)
        BY <1>5, <1>12, <2>2, <2>4 DEF EndsAt
      <4>2. QED
        BY <1>7, <4>1, OneLastLeaf
    <3>2. QED
      BY <1>9, <1>11, <2>3, <2>4, <3>1
  <2>5. CASE a # cur
    <3>1. file'[a].pn = file[a].pn
      BY <1>3, <1>11, <2>5
    <3>2. Unset(a) => Unset(a)'
      BY <1>1, <2>5 DEF Unset
    <3>3. file[a].pn = file[z].pn
      BY <2>1, <2>2, <3>2 DEF OrdAt, Separates
    <3>4. QED
      BY <2>3, <3>1, <3>3
  <2>6. QED
    BY <2>4, <2>5
<1>15. AboveTarget(lo)' /\ Beside(lo)'
  BY <1>1, <1>2 DEF OrdAt, AboveTarget, Beside
<1>16. QED
  BY <1>1, <1>2, <1>13, <1>14, <1>15, OrderStays

LEMMA ParentPageOrder ==
    ASSUME ShiftType, NEW lo, DInvAt(lo), OrdAt(lo), NEW c, SetParentPage(c),
           UNCHANGED <<hdr, op, cur, storeVars, shiftVars>>,
           \/ pc = "sepLeft" /\ pc' = "sepRight"
           \/ pc = "sepRight" /\ pc' = IF Climbs(file, cur) THEN "seps" ELSE "sepsDone"
    PROVE  OrdAt(lo)'
<1> DEFINE n == hdr.rno
           v == Read(file, cur).pn
<1>1. UNCHANGED <<hdr, op, cur, slot, acked, copy, croot, wroot, wr>>
  BY DEF storeVars, shiftVars
<1>2. Inserts /\ (Inserts' <=> Inserts) /\ LastPut' = LastPut
  BY <1>1, InsertsKinds DEF Inserts, Shifting, LastPut, Disorder
<1>3. /\ file \in [Pos -> Block] /\ hdr \in Header /\ Formed(file, lo, hdr) /\ n \in Nat
      /\ 1 .. n \subseteq Pos
  BY <1>2, TargetFacts
<1>4. cur \in 1 .. n /\ file[cur].lvl > 0
  BY DEF DInvAt, CallAt, SepsAt
<1>5. \A x \in 1 .. n : SameShape(file, file', x)
  <2>1. v \in Nat
    BY <1>3, <1>4, BlockTypes DEF Read
  <2>2. PutsPage(file, file', c, v)
    <3>1. c \in Pos => Read(file, c) = file[c]
      BY DEF Read
    <3>2. QED
      BY <3>1 DEF SetParentPage, Written, PutsPage
  <2> HIDE DEF v
  <2>3. QED
    BY <1>3, <2>1, <2>2, PageWrite
<1>6. lo[cur] <= LastPut /\ LastPut < cur
  BY DEF OrdAt, AboveTarget
<1>7. AboveTarget(lo)' /\ Beside(lo)'
  <2>1. LastPut <= cur
    BY <1>2, <1>4, <1>6, TargetFacts
  <2>2. QED
    BY <1>1, <1>2, <1>6, <2>1 DEF AboveTarget, Beside
<1>8. ASSUME NEW a \in 1 .. n, Unset(a) PROVE Unset(a)'
  <2>1. a > cur /\ a # cur
    BY <1>4, <1>8 DEF Unset
  <2>2. pc' # "sepsDone"
    <3>1. cur \in 1 .. n - 1
      BY <1>3, <1>4, <2>1
    <3>2. Climbs(file, cur)
      BY <1>3, <3>1, ParentIn
    <3>3. QED
      BY <3>2
  <2>3. QED
    BY <1>1, <2>1, <2>2 DEF Unset
<1>9. QED
  BY <1>1, <1>2, <1>5, <1>7, <1>8, PagesStay

LEMMA SepChildOrder ==
    ASSUME ShiftType, NEW lo, DInvAt(lo), OrdAt(lo), SepLeft \/ SepRight, UNCHANGED shiftVars
    PROVE  OrdAt(lo)'
<1>1. PICK c : c = IF pc = "sepLeft" THEN Lchild(file, cur) ELSE Rchild(file, cur)
  OBVIOUS
<1>2. SetParentPage(c) /\ UNCHANGED <<hdr, op, cur, storeVars, shiftVars>>
  BY <1>1 DEF SepLeft, SepRight, SetParentPage
<1>3. \/ pc = "sepLeft" /\ pc' = "sepRight"
      \/ pc = "sepRight" /\ pc' = IF Climbs(file, cur) THEN "seps" ELSE "sepsDone"
  BY DEF SepLeft, SepRight
<1>4. QED
  BY <1>2, <1>3, ParentPageOrder

-----------------------------------------------------------------------------
(* An insertion writes a leaf: its page is behind the pages before it and  *)
(* before the pages behind it.                                             *)
LEMMA LeafOrder ==
    ASSUME ShiftType, NEW lo, DInvAt(lo), FileOrdered,
           NEW z \in 1 .. hdr.rno, file[z].lvl = 0, hdr' = hdr, op' = op, acked' = acked,
           file'[z].lvl = 0, file'[z].lcos = file[z].lcos, ~file'[z].isn,
           \A x \in 1 .. hdr.rno : x # z => file'[x] = file[x],
           pc' = "path", op.kind # "update", LastPut' = z, file'[z].pn \in Known \cup {op.page},
           \A x \in 1 .. hdr.rno : x < z /\ file[x].lvl = 0 => ~file[x].isn /\ file[x].pn < file'[z].pn,
           \A x \in 1 .. hdr.rno :
               x > z /\ file[x].lvl = 0 /\ ~file[x].isn => file'[z].pn < file[x].pn,
           \A a, x \in 1 .. hdr.rno : EndsAt(file, a, x) => file[a].pn = file[x].pn
    PROVE  FileOrdered' /\ Separates' /\ AboveTarget(lo)' /\ Beside(lo)'
<1> DEFINE n == hdr.rno
<1>1. /\ file \in [Pos -> Block] /\ hdr \in Header /\ Formed(file, lo, hdr) /\ n \in Nat
  BY ShiftFacts, FormedFacts DEF DInvAt, BaseAt
<1>2. Inserts' /\ Known' = Known
  BY DEF Inserts, Shifting, Known
<1>3. \A x \in 1 .. n : file'[x].lvl = file[x].lvl /\ file'[x].lcos = file[x].lcos
  OBVIOUS
<1>4. ASSUME NEW x \in 1 .. n, NEW y \in 1 .. n, x < y,
             file'[x].lvl = 0, file'[y].lvl = 0, ~file'[y].isn
      PROVE  ~file'[x].isn /\ file'[x].pn < file'[y].pn
  <2>1. file[x].lvl = 0 /\ file[y].lvl = 0
    BY <1>3, <1>4
  <2>2. CASE x = z
    <3>1. file'[y] = file[y] /\ y > z
      BY <1>1, <1>4, <2>2
    <3>2. QED
      BY <1>4, <2>1, <2>2, <3>1
  <2>3. CASE y = z
    <3>1. file'[x] = file[x] /\ x < z
      BY <1>1, <1>4, <2>3
    <3>2. QED
      BY <1>4, <2>1, <2>3, <3>1
  <2>4. CASE x # z /\ y # z
    <3>1. file'[x] = file[x] /\ file'[y] = file[y]
      BY <2>4
    <3>2. QED
      BY <1>4, <2>1, <3>1 DEF FileOrdered, Ascends
  <2>5. QED
    BY <2>2, <2>3, <2>4
<1>5. FileOrdered'
  <2>1. \A x \in 1 .. n : file'[x].lvl = 0 /\ ~file'[x].isn => file'[x].pn \in Known \cup {op.page}
    <3>1. \A x \in 1 .. n : file[x].lvl = 0 /\ ~file[x].isn => file[x].pn \in Known \cup {op.page}
      BY DEF FileOrdered, Reported
    <3>2. QED
      BY <3>1
  <2>2. QED
    BY <1>2, <1>4, <2>1 DEF FileOrdered, Ascends, Reported
<1>6. Separates'
  <2>1. SUFFICES ASSUME NEW a \in 1 .. n, NEW x \in 1 .. n, EndsAt(file', a, x), x # z
                 PROVE  file'[a].pn = file'[x].pn
    BY <1>2 DEF Separates, EndsAt, LastLeaf, Unset
  <2>2. EndsAt(file, a, x)
    BY <1>1, <1>3, <2>1, EndsSame
  <2>3. a # z
    BY <2>2 DEF EndsAt
  <2>4. QED
    BY <2>1, <2>2, <2>3
<1>7. QED
  BY <1>5, <1>6 DEF AboveTarget, Beside

(* The page goes behind all pages, into the first leaf without one.        *)
LEMMA FillOrder ==
    ASSUME ShiftType, NEW lo, DInvAt(lo), OrdAt(lo), ~Disorder, Fill, UNCHANGED shiftVars
    PROVE  OrdAt(lo)'
<1> DEFINE n == hdr.rno
           b == [file[slot] EXCEPT !.pn = op.page, !.h = op.hash, !.isn = FALSE, !.izn = FALSE]
<1>1. /\ pc = "fill" /\ pc' = "path" /\ slot \in Pos /\ file' = [file EXCEPT ![slot] = b]
      /\ UNCHANGED <<hdr, op, slot, acked, copy, croot, wroot, wr>>
  BY DEF Fill, storeVars, shiftVars
<1>2. /\ file \in [Pos -> Block] /\ hdr \in Header /\ Formed(file, lo, hdr) /\ n \in Nat
      /\ 1 .. n \subseteq Pos /\ op.page \in Nat
      /\ \A x \in 1 .. n : file[x].isn \in BOOLEAN
  BY ShiftFacts, FormedFacts DEF DInvAt, BaseAt
<1>3. slot = hdr.fslo /\ slot # NoPos /\ op.kind = "insert" /\ ~Copied
  BY <1>1 DEF DInvAt, BaseAt, CallAt, KindsAt, SlotAt, Working, Disorder, CopyInv
<1>4. slot \in 1 .. n /\ file[slot].lvl = 0 /\ FirstOpen(hdr) = slot
  BY <1>2, <1>3, FormedFacts
<1>5. ~Inserts /\ Disorder' = Disorder /\ Known' = Known
  BY <1>1 DEF Inserts, Shifting, Disorder, Known
<1>6. /\ file[slot].isn /\ Reported(file, n, Known) /\ FileOrdered
      /\ \A p \in Known : p < op.page
      /\ \A a, x \in 1 .. n : EndsAt(file, a, x) => file[a].pn = file[x].pn
  BY <1>3, <1>5 DEF OrdAt, FileOrdered, Fits, Separates, Reported
<1>7. /\ file'[slot].lvl = 0 /\ file'[slot].lcos = file[slot].lcos
      /\ file'[slot].pn = op.page /\ ~file'[slot].isn
      /\ \A x \in 1 .. n : x # slot => file'[x] = file[x]
  <2>1. /\ b.lvl = file[slot].lvl /\ b.lcos = file[slot].lcos /\ b.pn = op.page /\ ~b.isn
    <3>1. file[slot] \in Block
      BY <1>1, <1>2
    <3>2. QED
      BY <3>1 DEF Block
  <2> HIDE DEF b
  <2>2. file'[slot] = b /\ \A x \in Pos : x # slot => file'[x] = file[x]
    BY <1>1, <1>2
  <2>3. QED
    BY <1>2, <1>4, <2>1, <2>2
<1>8. ASSUME NEW x \in 1 .. n, x < slot, file[x].lvl = 0 PROVE ~file[x].isn /\ file[x].pn < op.page
  <2>1. ~file[x].isn
    BY <1>2, <1>4, <1>8 DEF Formed, PadsLast, InUse
  <2>2. QED
    BY <1>6, <1>8, <2>1 DEF Reported
<1>9. ASSUME NEW x \in 1 .. n, x > slot, file[x].lvl = 0, ~file[x].isn PROVE FALSE
  BY <1>2, <1>4, <1>6, <1>9 DEF Formed, PadsLast
<1>10. LastPut' = slot
  BY <1>1, <1>5 DEF LastPut, Disorder
<1>11. PICK z \in 1 .. n : z = slot
  BY <1>4
<1>12. FileOrdered' /\ Separates' /\ AboveTarget(lo)' /\ Beside(lo)'
  <2>1. /\ file[z].lvl = 0 /\ file'[z].lvl = 0 /\ file'[z].lcos = file[z].lcos /\ ~file'[z].isn
        /\ \A x \in 1 .. n : x # z => file'[x] = file[x]
        /\ LastPut' = z /\ file'[z].pn \in Known \cup {op.page}
        /\ \A x \in 1 .. n : x < z /\ file[x].lvl = 0 => ~file[x].isn /\ file[x].pn < file'[z].pn
        /\ \A x \in 1 .. n : x > z /\ file[x].lvl = 0 /\ ~file[x].isn => file'[z].pn < file[x].pn
    BY <1>4, <1>7, <1>8, <1>9, <1>10, <1>11
  <2>2. op.kind # "update" /\ hdr' = hdr /\ op' = op /\ acked' = acked
    BY <1>1, <1>3
  <2>3. QED
    BY <1>1, <1>6, <2>1, <2>2, LeafOrder
<1>13. CopyOrdered' /\ Fits'
  BY <1>1, <1>3, <1>5, <1>6 DEF CopyOrdered, Fits, Copied
<1>14. QED
  BY <1>12, <1>13 DEF OrdAt

FillsLeaf(f, g, z, page, hash, isn) ==
    g = [f EXCEPT ![z] = [@ EXCEPT !.pn = page, !.h = hash, !.isn = isn]]

LEMMA PutFacts ==
    ASSUME NEW f \in [Pos -> Block], NEW z \in Pos, NEW g, NEW page, NEW hash, NEW isn,
           FillsLeaf(f, g, z, page, hash, isn)
    PROVE  /\ g[z].lvl = f[z].lvl /\ g[z].lcos = f[z].lcos /\ g[z].pn = page /\ g[z].isn = isn
           /\ \A x \in Pos : x # z => g[x] = f[x]
<1> DEFINE b == [f[z] EXCEPT !.pn = page, !.h = hash, !.isn = isn]
<1>1. b.lvl = f[z].lvl /\ b.lcos = f[z].lcos /\ b.pn = page /\ b.isn = isn
  <2>1. f[z] \in Block
    OBVIOUS
  <2>2. QED
    BY <2>1 DEF Block
<1>2. g = [f EXCEPT ![z] = b]
  BY DEF FillsLeaf
<1> HIDE DEF b
<1>3. g[z] = b /\ \A x \in Pos : x # z => g[x] = f[x]
  BY <1>2
<1>4. QED
  BY <1>1, <1>3

(* The page takes the leaf the search ended on: the leaves before have     *)
(* smaller pages, it and those behind have greater ones.                   *)
LEMMA PutPageOrder ==
    ASSUME ShiftType, NEW lo, DInvAt(lo), OrdAt(lo), Disorder, PutPage
    PROVE  OrdAt(lo)'
<1> DEFINE n == hdr.rno
<1>1. /\ pc = "search" /\ ~IsInterior(file, cur) /\ Copied /\ pc' = "path" /\ wr' = cur
      /\ PutLeaf(cur, op.page, op.hash, FALSE)
      /\ UNCHANGED <<hdr, op, slot, acked, copy, croot, wroot>>
  BY DEF PutPage, AtLeaf, PutLeaf, storeVars
<1>2. /\ file \in [Pos -> Block] /\ hdr \in Header /\ Formed(file, lo, hdr) /\ n \in Nat
      /\ 1 .. n \subseteq Pos /\ op.page \in Nat /\ croot \in Nat
      /\ \A x \in 1 .. n : file[x].isn \in BOOLEAN /\ file[x].pn \in Nat /\ file[x].lvl \in Nat
  BY ShiftFacts, FormedFacts DEF DInvAt, BaseAt
<1>3. cur \in 1 .. n /\ \A x \in 1 .. lo[cur] - 1 : InUse(file, x)
  BY <1>1 DEF DInvAt, CallAt, SearchAt
<1>4. file[cur].lvl = 0 /\ lo[cur] = cur
  <2>1. file[cur].lvl = 0
    BY <1>1, <1>2, <1>3 DEF IsInterior, Read
  <2>2. QED
    BY <1>2, <1>3, <2>1 DEF Formed, FileTree, TreeAt
<1>5. slot = hdr.fslo /\ slot # NoPos /\ slot \in 1 .. n /\ file[slot].lvl = 0
  <2>1. slot = hdr.fslo /\ slot # NoPos
    BY <1>1 DEF DInvAt, CallAt, SlotAt, Working
  <2>2. QED
    BY <1>2, <2>1, FormedFacts
<1>6. ~Inserts /\ Disorder' = Disorder /\ Known' = Known
  BY <1>1 DEF Inserts, Shifting, Disorder, Known
<1>7. /\ file[slot].isn /\ Reported(file, n, Known) /\ FileOrdered /\ op.page \notin Known
      /\ \A a, x \in 1 .. n : EndsAt(file, a, x) => file[a].pn = file[x].pn
  BY <1>1, <1>5, <1>6 DEF OrdAt, FileOrdered, CopyOrdered, Separates, Reported
<1>8. /\ file'[cur].lvl = 0 /\ file'[cur].lcos = file[cur].lcos
      /\ file'[cur].pn = op.page /\ ~file'[cur].isn
      /\ \A x \in 1 .. n : x # cur => file'[x] = file[x]
  <2>1. PICK z \in Pos : z = cur
    BY <1>2, <1>3
  <2>2. PICK page, hash, isn : page = op.page /\ hash = op.hash /\ isn = FALSE
    OBVIOUS
  <2>3. FillsLeaf(file, file', z, page, hash, isn)
    BY <1>1, <2>1, <2>2 DEF PutLeaf, FillsLeaf
  <2>4. /\ file'[z].lvl = file[z].lvl /\ file'[z].lcos = file[z].lcos /\ file'[z].pn = page
        /\ file'[z].isn = isn /\ \A x \in Pos : x # z => file'[x] = file[x]
    BY <1>2, <2>3, PutFacts
  <2>5. QED
    BY <1>2, <1>4, <2>1, <2>2, <2>4
<1>9. /\ \A x \in 1 .. n : file[x].lvl = 0 /\ ~file[x].isn =>
            (x < cur => file[x].pn < op.page) /\ (x > cur => op.page < file[x].pn)
      /\ op.page <= file[cur].pn \/ \A u \in cur + 1 .. n : file[u].lvl > 0
  <2>1. cur \in 1 .. cur /\ LastLeaf(file, cur, cur)
    BY <1>2, <1>3, <1>4 DEF LastLeaf
  <2>2. QED
    BY <1>1, <1>4, <2>1 DEF OrdAt, Beside
<1>10. ASSUME NEW x \in 1 .. n, x < cur, file[x].lvl = 0 PROVE ~file[x].isn /\ file[x].pn < op.page
  <2>1. x \in 1 .. lo[cur] - 1
    BY <1>2, <1>3, <1>4, <1>10
  <2>2. ~file[x].isn
    BY <1>3, <1>10, <2>1 DEF InUse
  <2>3. QED
    BY <1>9, <1>10, <2>2
<1>11. LastPut' = cur
  BY <1>1, <1>6 DEF LastPut, Disorder
<1>12. FileOrdered' /\ Separates' /\ AboveTarget(lo)' /\ Beside(lo)'
  <2>1. PICK z \in 1 .. n : z = cur
    BY <1>3
  <2>2. /\ file[z].lvl = 0 /\ file'[z].lvl = 0 /\ file'[z].lcos = file[z].lcos /\ ~file'[z].isn
        /\ \A x \in 1 .. n : x # z => file'[x] = file[x]
        /\ LastPut' = z /\ file'[z].pn \in Known \cup {op.page}
        /\ \A x \in 1 .. n : x < z /\ file[x].lvl = 0 => ~file[x].isn /\ file[x].pn < file'[z].pn
        /\ \A x \in 1 .. n : x > z /\ file[x].lvl = 0 /\ ~file[x].isn => file'[z].pn < file[x].pn
    BY <1>4, <1>8, <1>9, <1>10, <1>11, <2>1
  <2>3. op.kind # "update" /\ hdr' = hdr /\ op' = op /\ acked' = acked
    BY <1>1 DEF Disorder
  <2>4. QED
    BY <1>1, <1>7, <2>2, <2>3, LeafOrder
<1>13. cur <= slot
  <2>1. SUFFICES ASSUME slot < cur PROVE FALSE
    BY <1>2, <1>3, <1>5
  <2>2. slot \in 1 .. lo[cur] - 1
    BY <1>2, <1>3, <1>4, <1>5, <2>1
  <2>3. QED
    BY <1>3, <1>5, <1>7, <2>2 DEF InUse
<1>14. Fits'
  <2>1. cur < slot => file'[slot].isn
    BY <1>5, <1>7, <1>8
  <2>2. ASSUME cur <= croot, ~copy[cur].isn, NEW x \in 1 .. cur, file'[x].lvl = 0
        PROVE  file'[x].pn < copy[cur].pn
    <3>1. SameLeaves(copy, file, croot) /\ cur \in 1 .. croot
      BY <1>1, <1>3, <2>2 DEF DInvAt, BaseAt, CopyInv, Shifting
    <3>2. copy[cur].lvl = 0 /\ SameLeaf(file[cur], copy[cur])
      BY <1>4, <3>1 DEF SameLeaves
    <3>3. ~file[cur].isn /\ copy[cur].pn = file[cur].pn
      BY <2>2, <3>2 DEF SameLeaf
    <3>4. op.page <= file[cur].pn
      <4>1. SUFFICES ASSUME \A u \in cur + 1 .. n : file[u].lvl > 0 PROVE FALSE
        BY <1>9
      <4>2. slot # cur
        BY <1>7, <3>3
      <4>3. slot \in cur + 1 .. n
        BY <1>2, <1>3, <1>5, <1>13, <4>2
      <4>4. QED
        BY <1>5, <4>1, <4>3
    <3>5. op.page # file[cur].pn
      BY <1>3, <1>4, <1>7, <3>3 DEF Reported
    <3>6. op.page < file[cur].pn
      BY <1>2, <1>3, <3>4, <3>5
    <3>7. CASE x = cur
      BY <1>8, <3>3, <3>6, <3>7
    <3>8. CASE x # cur
      <4>1. x \in 1 .. n /\ x < cur
        BY <1>2, <1>3, <2>2, <3>8
      <4>2. file[x].pn < op.page /\ file'[x] = file[x]
        BY <1>8, <1>10, <2>2, <4>1
      <4>3. QED
        BY <1>2, <1>3, <3>3, <3>6, <4>1, <4>2
    <3>9. QED
      BY <3>7, <3>8
  <2>3. op.kind # "insert"
    BY DEF Disorder
  <2>4. QED
    BY <1>1, <1>13, <2>1, <2>2, <2>3 DEF Fits
<1>15. CopyOrdered'
  BY <1>1, <1>6 DEF OrdAt, CopyOrdered, Ascends, Reported, Copied
<1>16. QED
  BY <1>12, <1>14, <1>15 DEF OrdAt

(* A turn of the shift: the page that was in the leaf written last is      *)
(* behind all pages written and before all that are still in their leaf.   *)
LEMMA ShiftOrder ==
    ASSUME ShiftType, NEW lo, DInvAt(lo), OrdAt(lo), Disorder, Shift
    PROVE  OrdAt(lo)'
<1> DEFINE n == hdr.rno
<1>1. PICK z, r : z = NextLeaf(file, wr + 1, wroot) /\ r = NextLeaf(copy, rd, croot)
  OBVIOUS
<1>2. /\ pc = "sepsDone" /\ MoreToShift /\ PutLeaf(z, copy[r].pn, copy[r].h, copy[r].isn)
      /\ wr' = z /\ pc' = "path"
      /\ UNCHANGED <<hdr, op, slot, acked, copy, croot, wroot>>
  BY <1>1 DEF Shift, PutLeaf, storeVars
<1>3. Copied /\ BaseAt(lo) /\ wroot = n /\ CopyInv
  BY <1>2 DEF DInvAt, BaseAt, CallAt, KindsAt, SlotAt, Working
<1>4. PICK y \in 1 .. wr : ShiftAt(y)
  BY <1>2, <1>3 DEF CopyInv, Shifting
<1>5. /\ r = wr /\ wr \in 1 .. croot - 1 /\ z \in 1 .. n - 1 /\ Neighbours(file, wr, z)
      /\ ~copy[wr].isn /\ copy[wr].lvl = 0
  BY <1>1, <1>2, <1>3, <1>4, ShiftMoves
<1>6. /\ file \in [Pos -> Block] /\ hdr \in Header /\ Formed(file, lo, hdr) /\ n \in Nat
      /\ 1 .. n \subseteq Pos /\ copy \in [Pos -> Block] /\ wr \in Nat /\ croot \in Nat
      /\ \A x \in 1 .. n : file[x].isn \in BOOLEAN /\ file[x].pn \in Nat /\ file[x].lvl \in Nat
  BY <1>3, ShiftFacts, FormedFacts DEF BaseAt
<1>7. /\ croot \in 1 .. n
      /\ \A x \in 1 .. croot : copy[x].lvl = file[x].lvl
      /\ \A x \in croot + 1 .. n : file[x].lvl = 0 /\ x > wr => file[x].isn
  BY <1>2, <1>3 DEF CopyInv, Shifting
<1>8. /\ z \in 1 .. n /\ z \in Nat /\ file[z].lvl = 0 /\ file[wr].lvl = 0 /\ wr < z
      /\ \A u \in wr + 1 .. z - 1 : file[u].lvl > 0
  BY <1>5, <1>6 DEF Neighbours
<1>9. wr \in 1 .. n /\ ~file[wr].isn /\ wr \in 1 .. croot
  BY <1>4, <1>5, <1>6 DEF ShiftAt, LeafAt
<1>10. Inserts /\ (\A a \in 1 .. n : ~Unset(a)) /\ Disorder' = Disorder /\ Known' = Known
  BY <1>2 DEF Inserts, Shifting, Unset, Disorder, Known
<1>11. slot = hdr.fslo /\ slot \in 1 .. n - 1 /\ file[slot].lvl = 0
  BY <1>10, TargetFacts
<1>12. PICK page, hash : page = copy[wr].pn /\ hash = copy[wr].h
  OBVIOUS
<1>13. /\ file'[z].lvl = 0 /\ file'[z].lcos = file[z].lcos /\ file'[z].pn = page /\ ~file'[z].isn
       /\ \A x \in 1 .. n : x # z => file'[x] = file[x]
  <2>1. PICK isn : isn = copy[wr].isn
    OBVIOUS
  <2>2. FillsLeaf(file, file', z, page, hash, isn)
    BY <1>2, <1>5, <1>12, <2>1 DEF PutLeaf, FillsLeaf
  <2>3. z \in Pos
    BY <1>6, <1>8
  <2>4. /\ file'[z].lvl = file[z].lvl /\ file'[z].lcos = file[z].lcos /\ file'[z].pn = page
        /\ file'[z].isn = isn /\ \A x \in Pos : x # z => file'[x] = file[x]
    BY <1>6, <2>2, <2>3, PutFacts
  <2>5. QED
    BY <1>5, <1>6, <1>8, <2>1, <2>4
<1>14. /\ wr <= slot /\ (wr < slot => file[slot].isn)
       /\ \A x \in 1 .. wr : file[x].lvl = 0 => file[x].pn < page
  BY <1>5, <1>9, <1>10, <1>12 DEF OrdAt, Fits
<1>15. /\ Ascends(copy, croot) /\ Reported(copy, croot, Known)
       /\ hdr.fslo \in 1 .. croot => copy[hdr.fslo].isn
  BY <1>3 DEF OrdAt, CopyOrdered
<1>16. page \in Known
  BY <1>5, <1>9, <1>12, <1>15 DEF Reported
<1>17. ASSUME NEW x \in 1 .. n, x < z, file[x].lvl = 0 PROVE x <= wr /\ ~file[x].isn /\ file[x].pn < page
  <2>1. x <= wr /\ x \in 1 .. wr
    BY <1>6, <1>8, <1>17
  <2>2. ~file[x].isn
    BY <1>6, <1>8, <1>9, <1>17, <2>1 DEF Formed, PadsLast
  <2>3. QED
    BY <1>14, <1>17, <2>1, <2>2
<1>18. ASSUME NEW x \in 1 .. croot, x > wr, copy[x].lvl = 0, ~copy[x].isn PROVE page < copy[x].pn
  BY <1>5, <1>9, <1>12, <1>15, <1>18 DEF Ascends
<1>19. ASSUME NEW x \in 1 .. n, x > z, file[x].lvl = 0, ~file[x].isn PROVE page < file[x].pn
  <2>1. x > wr
    BY <1>6, <1>8, <1>19
  <2>2. x \in 1 .. croot
    BY <1>6, <1>7, <1>19, <2>1
  <2>3. SameLeaf(file[x], copy[x])
    BY <1>4, <1>19, <2>1, <2>2 DEF ShiftAt
  <2>4. copy[x].lvl = 0 /\ ~copy[x].isn /\ copy[x].pn = file[x].pn
    BY <1>7, <1>19, <2>2, <2>3 DEF SameLeaf
  <2>5. QED
    BY <1>18, <2>1, <2>2, <2>4
<1>20. LastPut' = z
  BY <1>2, <1>10 DEF LastPut, Disorder
<1>21. FileOrdered' /\ Separates' /\ AboveTarget(lo)' /\ Beside(lo)'
  <2>1. /\ \A x \in 1 .. n : x < z /\ file[x].lvl = 0 => ~file[x].isn /\ file[x].pn < file'[z].pn
        /\ \A x \in 1 .. n : x > z /\ file[x].lvl = 0 /\ ~file[x].isn => file'[z].pn < file[x].pn
        /\ file'[z].pn \in Known \cup {op.page}
    BY <1>13, <1>16, <1>17, <1>19
  <2>2. \A a, x \in 1 .. n : EndsAt(file, a, x) => file[a].pn = file[x].pn
    BY <1>10 DEF OrdAt, Separates
  <2>3. op.kind # "update" /\ hdr' = hdr /\ op' = op /\ acked' = acked /\ FileOrdered
    BY <1>2 DEF Disorder, OrdAt
  <2>4. QED
    BY <1>2, <1>8, <1>13, <1>20, <2>1, <2>2, <2>3, LeafOrder
<1>22. wr < slot
  <2>1. SUFFICES ASSUME wr = slot PROVE FALSE
    BY <1>6, <1>11, <1>14
  <2>2. QED
    BY <1>5, <1>9, <1>11, <1>15, <2>1
<1>23. z <= slot
  BY <1>6, <1>8, <1>11, <1>22
<1>24. Fits'
  <2>1. z < slot => file'[slot].isn
    BY <1>6, <1>11, <1>13, <1>14, <1>22
  <2>2. ASSUME z <= croot, ~copy[z].isn, NEW x \in 1 .. z, file'[x].lvl = 0
        PROVE  file'[x].pn < copy[z].pn
    <3>1. z \in 1 .. croot /\ copy[z].lvl = 0
      BY <1>7, <1>8, <2>2
    <3>2. page < copy[z].pn
      BY <1>8, <1>18, <2>2, <3>1
    <3>3. CASE x = z
      BY <1>13, <3>2, <3>3
    <3>4. CASE x # z
      <4>1. x \in 1 .. n /\ x < z
        BY <1>6, <1>8, <2>2, <3>4
      <4>2. file[x].pn < page /\ file'[x] = file[x] /\ file[x].pn \in Nat
        BY <1>6, <1>13, <1>17, <2>2, <4>1
      <4>3. page \in Nat /\ copy[z].pn \in Nat
        BY <1>6, <1>7, <1>9, <1>12, <3>1, BlockTypes
      <4>4. QED
        BY <3>2, <4>2, <4>3
    <3>5. QED
      BY <3>3, <3>4
  <2>3. op.kind # "insert"
    BY DEF Disorder
  <2>4. QED
    BY <1>2, <1>23, <2>1, <2>2, <2>3 DEF Fits
<1>25. CopyOrdered'
  BY <1>2, <1>10 DEF OrdAt, CopyOrdered, Ascends, Reported, Copied
<1>26. QED
  BY <1>21, <1>24, <1>25 DEF OrdAt

(* While nothing is lost, a search that ends finds the page if it was      *)
(* reported.                                                               *)
LEMMA FoundThere ==
    ASSUME ShiftType, NEW lo, DInvAt(lo), OrdAt(lo), cut = {}, broken = 0, AtLeaf, ~Copied
    PROVE  /\ ret = cur /\ cur \in 1 .. hdr.rno /\ cur \in Pos /\ file[cur].lvl = 0
           /\ op.page \in Known =>
                 file[cur].pn = op.page /\ ~file[cur].isn /\ file[cur].h = acked[op.page]
           /\ op.page \notin Known => file[cur].pn # op.page
<1> DEFINE n == hdr.rno
           p == op.page
<1>1. /\ file \in [Pos -> Block] /\ hdr \in Header /\ Formed(file, lo, hdr)
      /\ 1 .. n \subseteq Pos /\ p \in Nat /\ p < NoPage /\ n \in Nat /\ file[n].lvl > 0 /\ n \in Pos
      /\ \A x \in 1 .. n : file[x].pn \in Nat /\ file[x].lvl \in Nat
  BY ShiftFacts, FormedFacts DEF DInvAt, BaseAt, CallAt, KindsAt, AtLeaf
<1>2. pc = "search" /\ ~IsInterior(file, cur) /\ cur \in 1 .. n /\ ret \in {NoPos, cur}
  BY DEF AtLeaf, DInvAt, CallAt, SearchAt
<1>3. cur \in Pos /\ file[cur].lvl = 0 /\ cur # n
  BY <1>1, <1>2 DEF IsInterior, Read
<1>4. lo[cur] = cur
  BY <1>1, <1>2, <1>3 DEF Formed, FileTree, TreeAt
<1>5. /\ \A x \in 1 .. n : file[x].lvl = 0 /\ ~file[x].isn =>
            /\ x < lo[cur] => file[x].pn < p
            /\ x > cur => p < file[x].pn
      /\ ret = NoPos => cur = n
  BY <1>2 DEF OrdAt, Beside
<1>6. ret = cur
  BY <1>2, <1>3, <1>5
<1>7. ASSUME p \in Known
      PROVE  file[cur].pn = p /\ ~file[cur].isn /\ file[cur].h = acked[p]
  <2>1. Exempt = {}
    BY <1>2 DEF Exempt
  <2>2. PICK W : /\ IsFiniteSet(W) /\ Cardinality(W) <= broken
                 /\ Account(file, n, FirstOpen(hdr), W, {})
    BY <2>1 DEF DInvAt, BaseAt, Ledger, Source, SourceRoot
  <2>3. W = {}
    <3>1. Cardinality(W) = 0
      BY <2>2, FS_CardinalityType
    <3>2. QED
      BY <2>2, <3>1, FS_EmptySet
  <2>4. PICK x \in 1 .. n : HoldsPage(file, x, FirstOpen(hdr), p)
    BY <1>7, <2>2, <2>3 DEF Account
  <2>5. file[x].lvl = 0 /\ ~file[x].isn /\ file[x].pn = p /\ file[x].h = acked[p]
    BY <2>4 DEF HoldsPage
  <2>6. ~(x < cur) /\ ~(x > cur)
    BY <1>1, <1>4, <1>5, <2>5
  <2>7. x = cur
    BY <1>1, <1>2, <2>6
  <2>8. QED
    BY <2>5, <2>7
<1>8. ASSUME p \notin Known, file[cur].pn = p PROVE FALSE
  <2>1. ~file[cur].isn
    BY <1>1, <1>2, <1>3, <1>8 DEF Formed, PadsLast
  <2>2. ~Inserts
    BY <1>2 DEF Inserts, Shifting
  <2>3. Reported(file, n, Known)
    BY <2>2 DEF OrdAt, FileOrdered, Reported
  <2>4. QED
    BY <1>2, <1>3, <1>8, <2>1, <2>3 DEF Reported
<1>9. QED
  BY <1>2, <1>3, <1>6, <1>7, <1>8

(* The copy is made of a file without the page.                            *)
LEMMA MakeCopyOrder ==
    ASSUME ShiftType, NEW lo, DInvAt(lo), OrdAt(lo), cut = {}, broken = 0, Disorder, MakeCopy
    PROVE  OrdAt(lo)'
<1> DEFINE n == hdr.rno
<1>1. /\ NotFound /\ ~Copied /\ copy' = file /\ croot' = n /\ pc' \in {"fill", "extend"}
      /\ pc = "search" /\ AtLeaf /\ UNCHANGED <<file, hdr, op, acked>>
  BY DEF MakeCopy, NotFound, AtLeaf, CopyFile
<1>2. /\ ret = cur /\ cur \in Pos
      /\ op.page \in Known => file[cur].pn = op.page
  BY <1>1, FoundThere
<1>3. op.page \notin Known
  <2>1. Read(file, ret) = file[cur]
    BY <1>2 DEF Read
  <2>2. ret # NoPos
    BY <1>2, DiskAssumption DEF Pos, NoPos
  <2>3. QED
    BY <1>1, <1>2, <2>1, <2>2 DEF NotFound, Found
<1>4. ~Inserts /\ ~Inserts' /\ Known' = Known
  BY <1>1 DEF Inserts, Shifting, Known
<1>5. FileOrdered'
  BY <1>1, <1>4 DEF OrdAt, FileOrdered, Ascends, Reported
<1>6. Separates'
  BY <1>1, <1>4 DEF OrdAt, Separates, EndsAt, LastLeaf
<1>7. CopyOrdered'
  <2>1. Ascends(file, n) /\ Reported(file, n, Known) /\ (hdr.fslo # NoPos => file[hdr.fslo].isn)
    BY <1>4 DEF OrdAt, FileOrdered, Reported
  <2>2. hdr.fslo \in 1 .. n => hdr.fslo # NoPos
    BY DEF NoPos
  <2>3. QED
    BY <1>1, <1>3, <1>4, <2>1, <2>2 DEF CopyOrdered, Ascends, Reported
<1>8. Fits' /\ AboveTarget(lo)' /\ Beside(lo)'
  BY <1>1, <1>4 DEF OrdAt, Fits, AboveTarget, Beside
<1>9. QED
  BY <1>5, <1>6, <1>7, <1>8 DEF OrdAt

(* What the extension added is behind the pages, and its separators are    *)
(* those of padding, or the page of the last leaf.                         *)
LEMMA ExtendHeaderOrder ==
    ASSUME ShiftType, NEW lo, DInvAt(lo), OrdAt(lo), ExtendHeader,
           UNCHANGED <<copy, croot, rd, wr, broken>>,
           wroot' = IF Disorder THEN glob.rno ELSE wroot
    PROVE  OrdAt(lo)'
<1> DEFINE n == hdr.rno
           N == glob.rno
<1>1. /\ pc = "rescan" /\ hdr' = NewHeader /\ pc' = "fill" /\ UNCHANGED <<file, op, acked>>
  BY DEF ExtendHeader
<1>2. /\ NewTree(lo, EndPages) /\ cur = n + 1 /\ hdr.fslo = NoPos /\ (Copied => croot = n)
  BY <1>1 DEF DInvAt, CallAt, GrowAt
<1>3. BaseAt(lo) /\ (Disorder => Copied) /\ (Copied => Disorder)
  BY <1>1 DEF DInvAt, CallAt, KindsAt, BaseAt, CopyInv
<1>4. /\ n \in Nat /\ N \in Nat /\ N > n + 1 /\ N \in Pos /\ file \in [Pos -> Block]
      /\ file[n + 1].isn
      /\ \A p \in n + 1 .. N : AddedAt(file, lo, n, EndPages, p)
      /\ (cur = n + 1 => ~ScanFails)
  BY <1>2, <1>3, NewTreeFacts
<1>5. ScanFound = n + 1 /\ n + 1 # Nowhere
  BY <1>2, <1>4 DEF ScanFound, Nowhere
<1>6. hdr' = [rno |-> N, fslo |-> n + 1] /\ hdr'.rno = N /\ hdr'.fslo = n + 1
  BY <1>1, <1>5 DEF NewHeader
<1>7. PICK h : h = hdr'
  OBVIOUS
<1>8. h \in Header /\ Formed(file, lo, h) /\ h.rno = N
  BY <1>2, <1>3, <1>6, <1>7, FormedGrown
<1>9. Copied' <=> Copied
  <2>1. N # NoPos
    BY <1>4, DiskAssumption DEF Pos, NoPos
  <2>2. QED
    BY <1>3, <2>1 DEF Copied
<1>10. ~Inserts /\ ~Inserts' /\ Known' = Known
  BY <1>1 DEF Inserts, Shifting, Known
<1>11. /\ Ascends(file, n) /\ Reported(file, n, Known)
       /\ \A a, z \in 1 .. n : EndsAt(file, a, z) => file[a].pn = file[z].pn
  BY <1>10 DEF OrdAt, FileOrdered, Separates, Reported
<1>12. \A x \in 1 .. N : x > n /\ file[x].lvl = 0 => file[x].isn /\ file[x].pn = NoPage
  BY <1>4 DEF AddedAt
<1>13. FileOrdered'
  <2>1. ASSUME NEW x \in 1 .. N, NEW z \in 1 .. N, x < z, file[x].lvl = 0, file[z].lvl = 0,
               ~file[z].isn
        PROVE  ~file[x].isn /\ file[x].pn < file[z].pn
    <3>1. x \in 1 .. n /\ z \in 1 .. n
      BY <1>4, <1>12, <2>1
    <3>2. QED
      BY <1>11, <2>1, <3>1 DEF Ascends
  <2>2. ASSUME NEW x \in 1 .. N, file[x].lvl = 0, ~file[x].isn PROVE file[x].pn \in Known
    <3>1. x \in 1 .. n
      BY <1>4, <1>12, <2>2
    <3>2. QED
      BY <1>11, <2>2, <3>1 DEF Reported
  <2>3. QED
    BY <1>1, <1>4, <1>6, <1>10, <2>1, <2>2 DEF FileOrdered, Ascends, Reported
<1>14. ASSUME NEW a \in 1 .. N, NEW z \in 1 .. N, EndsAt(file, a, z) PROVE file[a].pn = file[z].pn
  <2>1. /\ z \in lo[a] .. a + file[a].lcos /\ file[z].lvl = 0 /\ z < a
    BY <1>4, <1>8, <1>14, EndsWhere
  <2>2. file[a].lvl > 0 /\ LastLeaf(file, a + file[a].lcos, z)
    BY <1>14 DEF EndsAt
  <2>3. lo[a] \in 1 .. a
    BY <1>8 DEF Formed, FileTree, TreeAt
  <2>4. CASE a <= n
    <3>1. a \in 1 .. n /\ z \in 1 .. n
      BY <1>4, <2>1, <2>4
    <3>2. QED
      BY <1>11, <1>14, <3>1
  <2>5. CASE a > n /\ lo[a] <= n
    <3>1. a \in n + 1 .. N /\ AddedAt(file, lo, n, EndPages, a)
      BY <1>4, <2>5
    <3>2. a + file[a].lcos = n /\ file[a].pn \in EndPages
      BY <2>2, <2>5, <3>1 DEF AddedAt
    <3>3. PICK y \in 1 .. n : LastLeaf(file, n, y) /\ file[a].pn = file[y].pn
      BY <3>2 DEF EndPages
    <3>4. y = z
      BY <1>4, <2>2, <3>2, <3>3, OneLastLeaf
    <3>5. QED
      BY <3>3, <3>4
  <2>6. CASE a > n /\ lo[a] > n
    <3>1. a \in n + 1 .. N /\ AddedAt(file, lo, n, EndPages, a)
      BY <1>4, <2>6
    <3>2. file[a].pn = NoPage
      BY <2>2, <2>6, <3>1 DEF AddedAt
    <3>3. z > n
      BY <1>4, <2>1, <2>3, <2>6
    <3>4. QED
      BY <1>12, <2>1, <3>2, <3>3
  <2>7. QED
    BY <1>4, <2>3, <2>4, <2>5, <2>6
<1>15. Separates'
  BY <1>1, <1>6, <1>14 DEF Separates, EndsAt, LastLeaf
<1>16. CopyOrdered'
  <2>1. SUFFICES ASSUME Copied PROVE CopyOrdered'
    BY <1>9 DEF CopyOrdered
  <2>2. /\ Ascends(copy, croot) /\ Reported(copy, croot, Known) /\ op.page \notin Known /\ croot = n
    BY <1>2, <2>1 DEF OrdAt, CopyOrdered
  <2>3. hdr'.fslo \notin 1 .. croot
    BY <1>4, <1>6, <2>2
  <2>4. QED
    BY <1>1, <1>10, <2>2, <2>3 DEF CopyOrdered, Ascends, Reported
<1>17. Fits' /\ AboveTarget(lo)' /\ Beside(lo)'
  BY <1>1, <1>10 DEF OrdAt, Fits, AboveTarget, Beside
<1>18. QED
  BY <1>13, <1>15, <1>16, <1>17 DEF OrdAt

-----------------------------------------------------------------------------
(* Every step.                                                             *)
LEMMA BecomeUpdateOrder ==
    ASSUME ShiftType, NEW lo, DInvAt(lo), OrdAt(lo), BecomeUpdate
    PROVE  OrdAt(lo)'
<1>1. PICK args : args = [op EXCEPT !.kind = "update"]
  OBVIOUS
<1>2. /\ pc = "search" /\ ~Copied /\ BeginSearch(args)
      /\ UNCHANGED <<queueVars, storeVars, shiftVars>>
  BY <1>1 DEF BecomeUpdate, Found, AtLeaf
<1>3. args.kind # "insert"
  BY <1>1, ShiftFacts
<1>4. QED
  BY <1>2, <1>3, BeginsOrder

LEMMA InsertReturnsOrder ==
    ASSUME ShiftType, NEW lo, DInvAt(lo), OrdAt(lo), ~Disorder, InsertReturns, UNCHANGED shiftVars
    PROVE  OrdAt(lo)'
<1>1. /\ pc = "next" /\ ScanEnded /\ Return /\ file' = file /\ hdr' = NewHeader
      /\ DOMAIN acked' = DOMAIN acked \cup {op.page} /\ wroot' = wroot
  BY DEF InsertReturns, shiftVars
<1>2. ~Copied /\ glob.rno = hdr.rno
  BY <1>1 DEF DInvAt, BaseAt, CopyInv, CallAt, SlotAt, Working
<1>3. ~Copied' /\ hdr'.rno = hdr.rno /\ hdr'.fslo = NewHeader.fslo /\ Known' = Known \cup {op.page}
  BY <1>1, <1>2 DEF Copied, NewHeader, Known
<1>4. QED
  BY <1>1, <1>3, ReturnsOrder

LEMMA DisorderReturnsOrder ==
    ASSUME ShiftType, NEW lo, DInvAt(lo), OrdAt(lo), Disorder, DisorderReturns
    PROVE  OrdAt(lo)'
<1>1. /\ pc = "next" /\ ScanEnded /\ Return /\ file' = file
      /\ hdr' = [NewHeader EXCEPT !.rno = wroot] /\ wroot' = NoPos
      /\ DOMAIN acked' = DOMAIN acked \cup {op.page}
  BY DEF DisorderReturns, Forget
<1>2. wroot = hdr.rno
  BY <1>1 DEF DInvAt, CallAt, SlotAt, Working
<1>3. ~Copied' /\ hdr'.rno = hdr.rno /\ hdr'.fslo = NewHeader.fslo /\ Known' = Known \cup {op.page}
  BY <1>1, <1>2 DEF Copied, NewHeader, Known
<1>4. QED
  BY <1>1, <1>3, ReturnsOrder

(* The ends of searches and updates.                                       *)
LEMMA SearchEndsOrder ==
    ASSUME ShiftType, NEW lo, DInvAt(lo), OrdAt(lo), ~Disorder,
           Fail \/ VerifyReturns \/ UpdateReturns, UNCHANGED shiftVars
    PROVE  OrdAt(lo)'
<1>1. ~Copied'
  BY DEF DInvAt, BaseAt, CopyInv, Copied, shiftVars
<1>2. ~Inserts
  BY DEF Inserts, Shifting, Fail, VerifyReturns, UpdateReturns, NotFound, AtLeaf
<1>3. Return /\ Known' = Known /\ UNCHANGED <<file, hdr>>
  BY DEF Fail, VerifyReturns, UpdateReturns, Known
<1>4. QED
  BY <1>1, <1>2, <1>3, EndsOrder

LEMMA ScanningOrder ==
    ASSUME ShiftType, NEW lo, DInvAt(lo), OrdAt(lo),
           \/ (ScanStep \/ ExtendScan \/ ExtendRescan \/ NextPad) /\ UNCHANGED shiftVars
           \/ ShiftEnds
    PROVE  OrdAt(lo)'
<1>1. /\ \/ pc \in {"scan", "rescan", "next"} /\ pc' = pc
         \/ pc = "extend" /\ pc' = "scan"
         \/ pc = "scan" /\ pc' = "rescan"
         \/ pc = "sepsDone" /\ pc' = "next"
      /\ UNCHANGED <<file, hdr, op, storeVars, shiftVars>>
  BY DEF ScanStep, Scanning, ExtendScan, ExtendRescan, NextPad, ShiftEnds
<1>2. QED
  BY <1>1, ScanOrder

(* A step keeps the order in the tree in which it keeps the invariant.     *)
OrderKept == ShiftType' /\ \E lo2 : DInvAt(lo2)' /\ OrdAt(lo2)'

LEMMA ExtensionOrder ==
    ASSUME ShiftType, NEW lo, DInvAt(lo), OrdAt(lo), ExtensionStep,
           UNCHANGED <<copy, croot, rd, wr, broken>>,
           wroot' = IF Disorder /\ pc' = "fill" THEN glob.rno ELSE wroot
    PROVE  OrderKept
<1>1. CASE ExtendHeader
  <2>1. pc' = "fill"
    BY <1>1 DEF ExtendHeader
  <2>2. ShiftType' /\ DInvAt(lo)'
    BY <1>1, <2>1, ExtendHeaderKeeps
  <2>3. OrdAt(lo)'
    BY <1>1, <2>1, ExtendHeaderOrder
  <2>4. QED
    BY <2>2, <2>3 DEF OrderKept
<1>2. CASE ~ExtendHeader
  <2>1. pc' # "fill"
    BY <1>2 DEF ExtensionStep, ExtendBegin, ExtendStep, ExtendScan, ExtendRescan, walkVars
  <2>2. UNCHANGED shiftVars
    BY <2>1 DEF shiftVars
  <2>3. CASE ExtendBegin \/ ExtendStep
    <3>1. ShiftType' /\ \E lo2 : DInvAt(lo2)'
      BY <2>2, <2>3, ExtendBeginKeeps, ExtendStepKeeps
    <3>2. PICK lo2 : DInvAt(lo2)'
      BY <3>1
    <3>3. OrdAt(lo2)'
      BY <2>2, <2>3, GrowsOrder
    <3>4. QED
      BY <3>1, <3>2, <3>3 DEF OrderKept
  <2>4. CASE ExtendScan \/ ExtendRescan
    <3>1. ShiftType' /\ DInvAt(lo)'
      BY <2>2, <2>4, ExtendScanKeeps, ExtendRescanKeeps
    <3>2. OrdAt(lo)'
      BY <2>2, <2>4, ScanningOrder
    <3>3. QED
      BY <3>1, <3>2 DEF OrderKept
  <2>5. QED
    BY <1>2, <2>3, <2>4 DEF ExtensionStep
<1>3. QED
  BY <1>1, <1>2

LEMMA DisorderStepOrder ==
    ASSUME ShiftType, NEW lo, DInvAt(lo), OrdAt(lo), cut = {}, broken = 0, DisorderStep
    PROVE  OrderKept
<1>1. Disorder
  BY DEF DisorderStep
<1>2. CASE Extend
  BY <1>1, <1>2, ExtensionOrder DEF Extend
<1>3. CASE ~Extend
  <2>1. ShiftType' /\ DInvAt(lo)'
    BY <1>1, <1>3, SearchDownInv, ClimbKeepsInv, ScanStepKeeps, BecomeUpdateKeeps, MakeCopyKeeps,
       SearchAgainKeeps, PutPageKeeps, BeginSepsKeeps, SepsBeginKeeps, SepParentStays,
       SepLeftKeeps, SepRightKeeps, ShiftTurnKeeps, ShiftEndsKeeps, DisorderReturnsKeeps
       DEF DisorderStep, Separators
  <2>2. OrdAt(lo)'
    BY <1>1, <1>3, SearchOrder, ClimbOrder, ScanningOrder, BecomeUpdateOrder, MakeCopyOrder,
       SearchAgainOrder, PutPageOrder, PathEndsOrder, SepsBeginOrder, SepParentOrder,
       SepChildOrder, ShiftOrder, DisorderReturnsOrder
       DEF DisorderStep, Separators
  <2>3. QED
    BY <2>1, <2>2 DEF OrderKept
<1>4. QED
  BY <1>2, <1>3

LEMMA OtherStepOrder ==
    ASSUME ShiftType, NEW lo, DInvAt(lo), OrdAt(lo), OtherStep
    PROVE  OrderKept
<1>1. CASE op.kind = "verify" /\ Search /\ UNCHANGED shiftVars
  BY <1>1, SearchDownInv, SearchOrder DEF OrderKept
<1>2. CASE VerifyReturns
  <2>1. ShiftType' /\ DInvAt(lo)'
    BY <1>2, SearchReturnsInv DEF VerifyReturns, AtLeaf, Disorder
  <2>2. ~Disorder /\ UNCHANGED shiftVars
    BY <1>2 DEF VerifyReturns, Disorder
  <2>3. QED
    BY <1>2, <2>1, <2>2, SearchEndsOrder DEF OrderKept
<1>3. CASE ~Disorder /\ op.kind # "verify" /\ Step /\ UNCHANGED shiftVars
  <2>1. pc = "search" => op.kind = "update"
    BY <1>3 DEF DInvAt, CallAt, KindsAt, Disorder
  <2>2. CASE ExtensionStep
    <3>1. UNCHANGED <<copy, croot, rd, wr, broken>> /\ wroot' = wroot
      BY <1>3 DEF shiftVars
    <3>2. QED
      BY <1>3, <2>2, <3>1, ExtensionOrder
  <2>3. CASE UpdateStep \/ Climb
    <3>1. ShiftType' /\ DInvAt(lo)'
      BY <1>3, <2>1, <2>3, SearchDownInv, SearchReturnsInv, UpdateLeafKeeps, UpdateReturnsKeeps,
         ClimbKeepsInv DEF UpdateStep, Fail, NotFound, UpdateLeaf, Found, AtLeaf, UpdateReturns
    <3>2. OrdAt(lo)'
      <4>1. UpdateLeaf => op.kind = "update"
        BY <2>1 DEF UpdateLeaf, Found, AtLeaf
      <4>2. QED
        BY <1>3, <2>3, <4>1, SearchOrder, SearchEndsOrder, UpdateLeafOrder, ClimbOrder DEF UpdateStep
    <3>3. QED
      BY <3>1, <3>2 DEF OrderKept
  <2>4. CASE ScanStep \/ InsertStep
    <3>1. ShiftType' /\ DInvAt(lo)'
      BY <1>3, <2>4, ScanStepKeeps, FillKeeps, PathDoneKeeps, SepsBeginKeeps, SepParentStays,
         SepLeftKeeps, SepRightKeeps, NextPadKeeps, InsertReturnsKeeps DEF InsertStep
    <3>2. OrdAt(lo)'
      BY <1>3, <2>4, ScanningOrder, FillOrder, PathEndsOrder, SepsBeginOrder, SepParentOrder,
         SepChildOrder, InsertReturnsOrder DEF InsertStep
    <3>3. QED
      BY <3>1, <3>2 DEF OrderKept
  <2>5. QED
    BY <1>3, <2>2, <2>3, <2>4 DEF Step
<1>4. QED
  BY <1>1, <1>2, <1>3 DEF OtherStep

(* With MaxCut = 0 no crash cuts an update, nor an insertion behind the    *)
(* last page; a crash that cuts an insertion in page order is counted.     *)
LEMMA CutStays ==
    ASSUME MaxCut = 0, ShiftType, cut = {}, [DisorderNext]_disorderVars
    PROVE  cut' = {} /\ (broken' = 0 => broken = 0)
<1>1. ASSUME NEW S, S \in {{}, {op.page}}, Cardinality(S) <= 0 PROVE S = {}
  <2>1. PICK p : p = op.page
    OBVIOUS
  <2>2. Cardinality({p}) = 1
    BY FS_Singleton
  <2>3. QED
    BY <1>1, <2>1, <2>2
<1>2. CASE UNCHANGED disorderVars
  BY <1>2 DEF disorderVars, vars, shiftVars
<1>3. ASSUME NEW args,
             StartDisorder(args) \/ Update(args) \/ Insert(args) \/ StartVerify(args)
      PROVE  cut' = {} /\ (broken' = 0 => broken = 0)
  BY <1>3 DEF StartDisorder, Update, StartUpdate, Insert, StartInsert, StartVerify, storeVars, shiftVars
<1>4. ASSUME UpdateStep \/ Climb \/ ScanStep PROVE cut' = {}
  BY <1>4 DEF UpdateStep, Search, Fail, UpdateLeaf, UpdateReturns, Climb, ScanStep, storeVars
<1>5. ASSUME ExtensionStep PROVE cut' = {}
  BY <1>5 DEF ExtensionStep, ExtendBegin, ExtendStep, ExtendScan, ExtendRescan, ExtendHeader, storeVars
<1>6. ASSUME InsertStep PROVE cut' = {}
  BY <1>6 DEF InsertStep, Fill, PathDone, SepsBegin, SepParent, SepLeft, SepRight, NextPad,
     InsertReturns, storeVars
<1>7. CASE DisorderStep
  <2>1. CASE (Search \/ Climb \/ ScanStep) /\ UNCHANGED shiftVars
    BY <2>1 DEF Search, Climb, ScanStep, storeVars, shiftVars
  <2>2. CASE BecomeUpdate \/ MakeCopy \/ SearchAgain
    BY <2>2 DEF BecomeUpdate, MakeCopy, SearchAgain, storeVars, shiftVars
  <2>3. CASE Extend
    <3>1. ExtensionStep /\ UNCHANGED broken
      BY <2>3 DEF Extend
    <3>2. cut' = {}
      BY <1>5, <3>1
    <3>3. QED
      BY <3>1, <3>2
  <2>4. CASE PutPage \/ BeginSeps \/ Shift \/ ShiftEnds \/ DisorderReturns
    BY <2>4 DEF PutPage, BeginSeps, Shift, ShiftEnds, DisorderReturns, storeVars, shiftVars
  <2>5. CASE Separators
    BY <2>5 DEF Separators, SepsBegin, SepParent, SepLeft, SepRight, storeVars, shiftVars
  <2>6. QED
    BY <1>7, <2>1, <2>2, <2>3, <2>4, <2>5 DEF DisorderStep
<1>8. CASE OtherStep
  <2>1. CASE VerifyReturns
    BY <2>1 DEF VerifyReturns, shiftVars
  <2>2. CASE Step /\ UNCHANGED shiftVars
    <3>1. broken' = broken
      BY <2>2 DEF shiftVars
    <3>2. cut' = {}
      BY <1>4, <1>5, <1>6, <2>2 DEF Step
    <3>3. QED
      BY <3>1, <3>2
  <2>3. CASE Search /\ UNCHANGED shiftVars
    BY <2>3 DEF Search, storeVars, shiftVars
  <2>4. QED
    BY <1>8, <2>1, <2>2, <2>3 DEF OtherStep
<1>9. CASE DisorderCrash
  <2>1. cut' = cut /\ broken' \in {broken, broken + 1}
    BY <1>9 DEF DisorderCrash, Dies
  <2>2. broken \in Nat
    BY ShiftFacts
  <2>3. QED
    BY <2>1, <2>2
<1>10. CASE OtherCrash
  <2>1. cut' \in {{}, {op.page}} /\ Cardinality(cut') <= 0 /\ broken' = broken
    BY <1>10 DEF OtherCrash, Crash, Dies, shiftVars
  <2>2. QED
    BY <1>1, <2>1
<1>11. QED
  BY <1>2, <1>3, <1>7, <1>8, <1>9, <1>10 DEF DisorderNext

LEMMA CrashOrder ==
    ASSUME ShiftType, NEW lo, DInvAt(lo), OrdAt(lo), cut = {}, cut' = {}, broken' = 0,
           DisorderCrash \/ OtherCrash
    PROVE  OrdAt(lo)'
<1>1. Return /\ Known' = Known /\ UNCHANGED <<file, hdr>>
  BY DEF DisorderCrash, OtherCrash, Crash, Dies, Known
<1>2. CASE DisorderCrash
  <2>1. ~Copied' /\ Disorder /\ (Copied => broken' = broken + 1)
    BY <1>2 DEF DisorderCrash, Forget, Copied
  <2>2. broken \in Nat
    BY ShiftFacts
  <2>3. ~Copied
    BY <2>1, <2>2
  <2>4. pc \in {"idle", "search"}
    BY <2>1, <2>3 DEF DInvAt, CallAt, KindsAt
  <2>5. ~Inserts
    BY <2>4 DEF Inserts, Shifting
  <2>6. QED
    BY <1>1, <2>1, <2>5, EndsOrder
<1>3. CASE OtherCrash
  <2>1. pc = "search" /\ ~Disorder /\ UNCHANGED shiftVars
    BY <1>3 DEF OtherCrash, Crash, Dies
  <2>2. ~Copied' /\ ~Inserts
    BY <2>1 DEF DInvAt, BaseAt, CopyInv, Copied, shiftVars, Inserts, Shifting
  <2>3. QED
    BY <1>1, <2>2, EndsOrder
<1>4. QED
  BY <1>2, <1>3

LEMMA StillOrder ==
    ASSUME ShiftType, NEW lo, DInvAt(lo), OrdAt(lo), UNCHANGED disorderVars
    PROVE  OrdAt(lo)'
<1>1. /\ UNCHANGED <<file, hdr, pc, op, cur, ret, slot, acked, copy, croot, wroot, wr>>
  BY DEF disorderVars, vars, shiftVars
<1>2. AboveTarget(lo)' /\ Beside(lo)'
  BY <1>1 DEF OrdAt, AboveTarget, Beside, LastPut, Disorder, LastLeaf
<1>3. Inserts' <=> Inserts
  BY <1>1 DEF Inserts, Shifting
<1>4. \A x \in 1 .. hdr.rno : SameShape(file, file', x)
  BY <1>1 DEF SameShape
<1>5. \A a \in 1 .. hdr.rno : Unset(a) => Unset(a)'
  BY <1>1 DEF Unset
<1>6. QED
  BY <1>1, <1>2, <1>3, <1>4, <1>5, PagesStay

(* The order is inductive.                                                 *)
LEMMA NextOrder ==
    ASSUME MaxCut = 0, OInv, [DisorderNext]_disorderVars
    PROVE  OInv'
<1>1. PICK lo : ShiftType /\ DInvAt(lo) /\ OInvAt(lo)
  BY DEF OInv
<1>2. cut = {} /\ cut' = {} /\ (broken' = 0 => broken = 0)
  BY <1>1, CutStays DEF OInvAt
<1>3. CASE broken' # 0
  <2>1. DInv'
    BY <1>1, NextShift DEF DInv
  <2>2. QED
    BY <1>2, <1>3, <2>1 DEF DInv, OInv, OInvAt
<1>4. CASE broken' = 0
  <2>1. OrdAt(lo) /\ broken = 0
    BY <1>1, <1>2, <1>4 DEF OInvAt
  <2>2. ASSUME ShiftType' /\ DInvAt(lo)', OrdAt(lo)' PROVE OrderKept
    BY <2>2 DEF OrderKept
  <2>3. ASSUME UNCHANGED disorderVars PROVE OrderKept
    BY <1>1, <2>1, <2>2, <2>3, StillKeeps, StillOrder
  <2>4. pc = "idle" => ~Copied
    BY <1>1 DEF DInvAt, BaseAt, CallAt, KindsAt, NoOp, CopyInv, Disorder
  <2>5. ASSUME NEW args \in Args("update") \cup Args("disorder") \cup Args("verify"),
               pc = "idle", BeginSearch(args), UNCHANGED <<queueVars, storeVars, shiftVars>>
        PROVE  OrderKept
    <3>1. args.kind # "insert"
      BY <2>5 DEF Args
    <3>2. OrdAt(lo)'
      BY <1>1, <2>1, <2>4, <2>5, <3>1, BeginsOrder
    <3>3. QED
      BY <1>1, <2>2, <2>5, <3>2, BeginsKeep
  <2>6. ASSUME NEW args, StartDisorder(args) /\ args \in Calls("disorder") PROVE OrderKept
    BY <2>5, <2>6 DEF StartDisorder, Calls
  <2>7. ASSUME NEW args, Update(args) /\ args \in Calls("update") PROVE OrderKept
    BY <2>5, <2>7 DEF Update, StartUpdate, Calls
  <2>8. ASSUME NEW args, StartVerify(args) /\ args \in Calls("verify") PROVE OrderKept
    BY <2>5, <2>8 DEF StartVerify, Calls
  <2>9. ASSUME NEW args, Insert(args) /\ args \in Calls("insert") PROVE OrderKept
    BY <1>1, <2>1, <2>2, <2>9, StartInsertKeeps, StartInsertOrder DEF Insert, Calls
  <2>10. ASSUME DisorderStep PROVE OrderKept
    BY <1>1, <1>2, <2>1, <2>10, DisorderStepOrder
  <2>11. ASSUME OtherStep PROVE OrderKept
    BY <1>1, <2>1, <2>11, OtherStepOrder
  <2>12. ASSUME DisorderCrash \/ OtherCrash PROVE OrderKept
    BY <1>1, <1>2, <1>4, <2>1, <2>2, <2>12, DisorderCrashKeeps, OtherCrashKeeps, CrashOrder
  <2>13. OrderKept
    BY <2>3, <2>6, <2>7, <2>8, <2>9, <2>10, <2>11, <2>12 DEF DisorderNext
  <2>14. QED
    BY <1>2, <2>13 DEF OrderKept, OInv, OInvAt
<1>5. QED
  BY <1>3, <1>4

(* The files that the builder left of more than one page are in order.     *)
LEMMA InitOrder == ASSUME LeavesFork PROVE DisorderInit => OInv
<1> SUFFICES ASSUME DisorderInit PROVE OInv
  OBVIOUS
<1> DEFINE n == hdr.rno
           s == FirstOpen(hdr)
<1>1. /\ Init /\ wroot = NoPos /\ pc = "idle" /\ op = NoOp /\ cut = {}
  BY DEF DisorderInit, Init
<1>2. PICK lo : ShiftType /\ DInvAt(lo)
  BY InitShift DEF DInv
<1>3. /\ file \in [Pos -> Block] /\ hdr \in Header /\ Formed(file, lo, hdr) /\ n \in Nat
      /\ s \in 1 .. n + 1
      /\ hdr.fslo # NoPos => hdr.fslo = s /\ s \in 1 .. n /\ file[s].lvl = 0
  BY <1>2, ShiftFacts, FormedFacts DEF DInvAt, BaseAt
<1>4. PageRow(file, n, s, Known)
  <2>1. IInv
    BY <1>1, InitInvariant
  <2>2. PICK lo2 : IInvAt(lo2)
    BY <2>1 DEF IInv
  <2>3. Sound(lo2)
    BY <2>2, InvParts
  <2>4. QED
    BY <2>3 DEF Sound, Holds
<1>5. PICK leaves \in InitLeaves : file = L!LayoutFile(leaves) /\ hdr = L!LayoutHeader(leaves)
  BY <1>1 DEF Init
<1>6. /\ Separated(file, n)
      /\ \A x \in 1 .. n : LeafAt(file, n, x) /\ x >= s => file[x].pn = NoPage
  BY <1>5, ShiftAssumption, StoreAssumption DEF ShiftAssumption, StoreAssumption, LaidOut
<1>7. ASSUME NEW x \in 1 .. n, file[x].lvl = 0
      PROVE  LeafAt(file, n, x) /\ (x >= s => file[x].isn) /\ (x < s => file[x].pn \in Known /\ ~file[x].isn)
  <2>1. LeafAt(file, n, x)
    BY <1>3, <1>7 DEF LeafAt
  <2>2. QED
    BY <1>4, <1>6, <1>7, <2>1 DEF PageRow, Separated
<1>8. ~Inserts /\ ~Copied
  BY <1>1 DEF Inserts, Shifting, Copied
<1>9. FileOrdered
  <2>1. ASSUME NEW x \in 1 .. n, NEW z \in 1 .. n, x < z, file[x].lvl = 0, file[z].lvl = 0,
               ~file[z].isn
        PROVE  ~file[x].isn /\ file[x].pn < file[z].pn
    <3>1. LeafAt(file, n, x) /\ LeafAt(file, n, z) /\ z < s /\ x < s
      BY <1>3, <1>7, <2>1
    <3>2. QED
      BY <1>4, <1>7, <2>1, <3>1 DEF PageRow
  <2>2. \A x \in 1 .. n : file[x].lvl = 0 /\ ~file[x].isn => file[x].pn \in Known
    BY <1>3, <1>7
  <2>3. hdr.fslo # NoPos => file[hdr.fslo].isn
    BY <1>3, <1>7
  <2>4. QED
    BY <1>8, <2>1, <2>2, <2>3 DEF FileOrdered, Ascends, Reported
<1>10. Separates
  BY <1>6 DEF Separates, Separated, EndsAt
<1>11. CopyOrdered /\ Fits /\ AboveTarget(lo) /\ Beside(lo)
  BY <1>1, <1>8 DEF CopyOrdered, Fits, AboveTarget, Beside, NoOp
<1>12. OInvAt(lo)
  BY <1>1, <1>9, <1>10, <1>11 DEF OInvAt, OrdAt
<1>13. QED
  BY <1>2, <1>12 DEF OInv

(* It implies what the run checks.                                         *)
LEMMA OrderTells ==
    ASSUME OInv
    PROVE  VerifyTells
<1>1. SUFFICES ASSUME op.kind = "verify", AtLeaf, broken = 0
               PROVE  Verifies <=> op.page \in Known /\ acked[op.page] = op.hash
  BY DEF VerifyTells, Known
<1>2. PICK lo : ShiftType /\ DInvAt(lo) /\ OInvAt(lo)
  BY DEF OInv
<1>3. cut = {} /\ OrdAt(lo)
  BY <1>1, <1>2 DEF OInvAt
<1>4. ~Copied
  BY <1>1, <1>2 DEF DInvAt, BaseAt, CopyInv, Disorder
<1>5. /\ ret = cur /\ cur \in Pos
      /\ op.page \in Known => file[cur].pn = op.page /\ file[cur].h = acked[op.page]
      /\ op.page \notin Known => file[cur].pn # op.page
  BY <1>1, <1>2, <1>3, <1>4, FoundThere
<1>6. Read(file, cur) = file[cur] /\ Read(file, ret) = file[cur] /\ ret # NoPos
  BY <1>5, DiskAssumption DEF Read, Pos, NoPos
<1>7. Verifies <=> file[cur].pn = op.page /\ file[cur].h = op.hash
  BY <1>1, <1>6 DEF Verifies, Found
<1>8. QED
  BY <1>5, <1>7

(* When no crash cuts an update or an insertion behind the last page, the  *)
(* order of the pages survives every call, and every crash of a search.    *)
THEOREM OrderInvariance == ASSUME LeavesFork, MaxCut = 0 PROVE DisorderSpec => []OInv
<1>1. DisorderInit => OInv
  BY InitOrder
<1>2. OInv /\ [DisorderNext]_disorderVars => OInv'
  BY NextOrder
<1>3. QED
  BY <1>1, <1>2, PTL DEF DisorderSpec

(* verifyHashInMHT and searchPageByNo tell the pages reported, with their  *)
(* hashes, from all other pages and hashes, whatever insertions, in page   *)
(* order or behind the last page, and updates came before, until a crash   *)
(* cuts one of them: the search is led to the leaf of the page, and the    *)
(* leaf holds the hash last reported.                                      *)
THEOREM VerifySafety == ASSUME LeavesFork, MaxCut = 0 PROVE DisorderSpec => []VerifyTells
<1>1. OInv => VerifyTells
  BY OrderTells
<1>2. DisorderSpec => []OInv
  BY OrderInvariance
<1>3. QED
  BY <1>1, <1>2, PTL
=============================================================================
