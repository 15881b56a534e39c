--------------------------- MODULE MHTStoreProofs ---------------------------
(***************************************************************************)
(* Proofs about MHTStore and MHTStoreEx, for every size of file, every set *)
(* of pages and hashes and every file laid out well: whatever operations   *)
(* run and wherever crashes cut them, the pages whose insertion returned   *)
(* are found with their hashes, the header names the leaf for the next     *)
(* page, the file implements PageStore, and the only hashes that do not    *)
(* combine those of the children are those no climb came to recompute.     *)
(*                                                                         *)
(* The argument follows positions, not paths.  The blocks below block p    *)
(* are those from lo[p] to p, so a search for the page of leaf x stays at  *)
(* blocks p with lo[p] <= x <= p, an insertion touches the separators of   *)
(* such blocks only, and the extension of the tree combines neighbours in  *)
(* the row of blocks written and nodes queued.                             *)
(*                                                                         *)
(* Hashes follow: a stale one is above the leaf of an operation that runs  *)
(* or was cut, with no gap on the way, or right above a gap, where climbs  *)
(* end.  The extension combines every block it makes from its children in  *)
(* the row, so it makes none that is stale.                                *)
(***************************************************************************)
EXTENDS MHTStoreEx, MHTNodeProofs, WellFoundedInduction

(* The rows mhtfile_ex.c built from hold no padding.                       *)
ExFull == \A leaves \in ExLeaves : \A i \in DOMAIN leaves : leaves[i].pn # NoPage

-----------------------------------------------------------------------------
Known == DOMAIN acked
Fresh == op.kind = "insert" /\ op.page \in Pages /\ \A p \in Known : p < op.page

(* The page whose leaf may show another hash.                              *)
Busy == IF pc \in {"idle", "search"} THEN {} ELSE {op.page}

HashesShown ==
    \A x \in 1 .. hdr.rno :
        LeafAt(file, hdr.rno, x) /\ x < FirstOpen(hdr) /\ file[x].pn \notin cut \cup Busy =>
            file[x].h = acked[file[x].pn]

(* Whatever runs, the file as its header names it holds the known pages.   *)
Sound(lo) == Holds(file, lo, hdr, Known) /\ HashesShown

(* The search is above the leaf of its page; the leaf to be updated is     *)
(* that one.                                                               *)
SearchInv(lo) ==
    pc = "search" =>
        /\ op.kind = "update" /\ op.page \in Known
        /\ cur \in 1 .. hdr.rno /\ ret \in {NoPos, cur}
        /\ \E x \in 1 .. hdr.rno : /\ LeafAt(file, hdr.rno, x) /\ file[x].pn = op.page
                                   /\ lo[cur] <= x /\ x <= cur

UpdateInv ==
    pc = "path" /\ op.kind = "update" =>
        /\ op.page \in Known
        /\ ret \in 1 .. hdr.rno /\ ret < FirstOpen(hdr)
        /\ LeafAt(file, hdr.rno, ret) /\ file[ret].pn = op.page /\ file[ret].h = op.hash

(* The page to be inserted is in its leaf, which is still the open one.    *)
Inserting == \/ pc \in {"fill", "seps", "sepParent", "sepLeft", "sepRight", "sepsDone", "next"}
             \/ pc = "path" /\ op.kind # "update"

InsertInv ==
    Inserting =>
        /\ Fresh /\ glob.rno = hdr.rno /\ slot = hdr.fslo /\ slot # NoPos
        /\ pc # "fill" => file[slot].pn = op.page /\ file[slot].h = op.hash /\ ~file[slot].isn

(* The separators above the leaf are right below the block at work.        *)
SepsInv(lo) ==
    /\ pc \in {"seps", "sepParent", "sepLeft", "sepRight"} =>
          /\ cur \in slot .. hdr.rno /\ lo[cur] <= slot
          /\ pc = "seps" => cur < hdr.rno
          /\ pc # "seps" => cur > slot
          /\ \A a \in slot + 1 .. cur :
                a < cur \/ pc # "sepParent" => Sorts(file, lo, a, slot)
    /\ pc \in {"sepsDone", "next"} =>
          \A a \in slot + 1 .. hdr.rno : Sorts(file, lo, a, slot)

(* No padding leaf was passed.                                             *)
NextInv ==
    pc = "next" =>
        /\ cur \in slot .. hdr.rno
        /\ \A x \in slot + 1 .. cur - 1 : file[x].lvl > 0

ClimbInv == pc = "path" => cur \in Int /\ cur >= 1

-----------------------------------------------------------------------------
(* The extension.  The blocks in the file before wpos and the nodes queued *)
(* are one row; a peak of a row of N is a node below no other.             *)
Row == [s \in 1 .. StreamEnd |-> Stream(s)]

Peak(lo, N, p) == \A u \in p + 1 .. N : lo[u] > p

Falls(t, lo, N, m) ==
    \A i, j \in 1 .. m : i < j /\ Peak(lo, N, i) /\ Peak(lo, N, j) => t[i].lvl > t[j].lvl

(* A node that is no peak leads to its parent.                             *)
Leads(t, N, p) ==
    /\ t[p].pos > 0
    /\ LET u == p + t[p].pos IN
       u <= N /\ t[u].lvl > 0 /\ p \in {u + t[u].lcos, u - 1}

TreeRow(t, lo, N) ==
    \A p \in 1 .. N : /\ TreeAt(t, lo, p)
                      /\ t[p].lvl \in Nat /\ t[p].lcos \in Int /\ t[p].pos \in Nat

(* What was added behind the old root n, whose separators are in A:        *)
(* padding, and nodes above it.                                            *)
AddedAt(t, lo, n, A, p) ==
    /\ t[p].lvl = 0 => t[p].pn = NoPage /\ t[p].isn
    /\ t[p].lvl > 0 /\ lo[p] <= n => p + t[p].lcos = n /\ t[p].pn \in A
    /\ t[p].lvl > 0 /\ lo[p] > n => t[p].pn = NoPage

(* Block p combines the hashes of its two children; so does every block of *)
(* what was added.                                                         *)
Combines(t, p) == t[p].h = Combine(t[p + t[p].lcos].h, t[p - 1].h)

RowCombines(t, n, N) == \A p \in n + 1 .. N : t[p].lvl > 0 => Combines(t, p)

Grown(t, lo, N, n, A) ==
    /\ N \in Nat /\ n \in 1 .. N /\ lo[n] = 1
    /\ TreeRow(t, lo, N)
    /\ \A p \in n .. N : Peak(lo, N, p) \/ Leads(t, N, p)
    /\ \A p \in n + 1 .. N : AddedAt(t, lo, n, A, p)
    /\ RowCombines(t, n, N)
    /\ N > n => t[n + 1].lvl = 0

(* Either nothing has been combined with the old root, which is the head   *)
(* of the queue, or everything has.                                        *)
Waits(lo, N, n, w)  == w = n /\ Peak(lo, N, n)
AllJoined(lo, N, n) == lo[N] = 1 /\ N > n

(* The walk stands at node c of the row.                                   *)
WalkAt(t, lo, N, n, w, c, level) ==
    /\ c \in w .. N /\ lo[N] <= c /\ N > n /\ w = n
    /\ Falls(t, lo, N, lo[N] - 1)
    /\ \A i \in 1 .. lo[N] - 1 : Peak(lo, N, i) => t[i].lvl >= t[N].lvl
    /\ level \in {0, t[N].lvl}
    /\ Waits(lo, N, n, w) \/ (AllJoined(lo, N, n) /\ level = t[N].lvl)

FlushAt(t, lo, N, n, w, level) ==
    /\ N > n /\ w <= N
    /\ Falls(t, lo, N, N) /\ level \in {0, t[N].lvl}
    /\ Waits(lo, N, n, w) \/ (AllJoined(lo, N, n) /\ level = t[N].lvl)

PadAt(t, lo, N, n, w) ==
    /\ w <= N /\ Falls(t, lo, N, N)
    /\ Waits(lo, N, n, w) \/ (AllJoined(lo, N, n) /\ w = N)

(* The old root, at the front of the queue until it is written.            *)
OldRoot(A) ==
    wpos = hdr.rno =>
        LET b == file[wpos] IN
        /\ q # <<>>
        /\ q[1].lvl = b.lvl /\ q[1].lcos = b.lcos /\ q[1].rcos = b.rcos
        /\ q[1].pn = b.pn /\ q[1].h = b.h /\ q[1].isn = b.isn
        /\ RightmostPage(q[1]) \in A

(* What is queued behind the old root has padding below its right end.     *)
PaddingQueued ==
    \A i \in 1 .. Len(q) : wpos - 1 + i > hdr.rno => RightmostPage(q[i]) = NoPage

RowInv(lo, A) ==
    /\ wpos \in hdr.rno .. MaxPos + 1
    /\ OldRoot(A) /\ PaddingQueued
    /\ Grown(Row, lo, StreamEnd, hdr.rno, A)
    /\ \A p \in 1 .. wpos - 1 :
          ~Peak(lo, StreamEnd, p) /\ (p < StreamEnd => file[p].rsvd = "R")

(* All is written up to the new root.                                      *)
NewTree(lo, A) ==
    /\ glob.rno \in Pos
    /\ Grown(file, lo, glob.rno, hdr.rno, A) /\ AllJoined(lo, glob.rno, hdr.rno)
    /\ \A p \in 1 .. glob.rno - 1 : file[p].rsvd = "R"
    /\ file[glob.rno].rsvd = "root"

ExtendStage(lo, A) ==
    /\ stage = "idle" => Len(q) = 1 /\ wpos = hdr.rno
    /\ stage # "idle" => hlev = file[hdr.rno].lvl
    /\ stage \in {"idle", "pad", "root"} => cbd = 0
    /\ stage = "pad" => PadAt(Row, lo, StreamEnd, hdr.rno, wpos)
    /\ stage = "walk" => WalkAt(Row, lo, StreamEnd, hdr.rno, wpos, wpos - 1 + at, cbd)
    /\ stage = "flush" => FlushAt(Row, lo, StreamEnd, hdr.rno, wpos, cbd)
    /\ stage = "root" => IF q = <<>> THEN NewTree(lo, A)
                         ELSE Len(q) = 1 /\ AllJoined(lo, StreamEnd, hdr.rno)

Offsets == \A p \in Pos : file[p].pos \in Nat

(* The extension at work on a file whose blocks up to the old root are a   *)
(* tree, whatever operation asked for it.                                 *)
ExtendAt(lo, A) ==
    /\ DiskTypeOK /\ QueueTypeOK /\ Offsets
    /\ stage \in {"idle", "walk", "flush", "pad", "root"}
    /\ FileTree(file, lo, hdr.rno)
    /\ stage # "root" \/ q # <<>> => RowInv(lo, A)
    /\ ExtendStage(lo, A)

Padding(f, x) == f[x].isn /\ f[x].pn = NoPage

(* The pages a separator above all known pages may have.                   *)
Behind == {e \in Nat : \A p \in Known : p <= e}

(* The tree up to the new root holds the known pages, with                 *)
(* the leaf behind the old root open.                                      *)
Extended(lo) ==
    /\ glob.rno > hdr.rno + 1
    /\ Holds(file, lo, [rno |-> glob.rno, fslo |-> hdr.rno + 1], Known)
    /\ RowCombines(file, hdr.rno, glob.rno) /\ file[hdr.rno].pos > 0
    /\ Padding(file, hdr.rno + 1)

ExtendInv(lo) ==
    pc = "extend" =>
        /\ Fresh /\ hdr.fslo = NoPos
        /\ stage # "root" \/ q # <<>> => RowInv(lo, Behind)
        /\ ExtendStage(lo, Behind)

ScanInv(lo) ==
    pc \in {"scan", "rescan"} =>
        /\ Fresh /\ hdr.fslo = NoPos
        /\ Extended(lo)
        /\ cur \in {hdr.rno, hdr.rno + 1}
        /\ pc = "rescan" => cur = hdr.rno + 1

AtRest == pc # "extend" => stage = "idle" /\ cbd = 0 /\ hlev = NoPad

IInvAt(lo) ==
    /\ Sound(lo)
    /\ SearchInv(lo) /\ UpdateInv /\ InsertInv /\ SepsInv(lo) /\ NextInv /\ ClimbInv
    /\ ExtendInv(lo) /\ ScanInv(lo) /\ AtRest /\ Offsets

IInv == TypeOK /\ \E lo : IInvAt(lo)

-----------------------------------------------------------------------------
(* Induction over the positions 1 .. n, stated with a set.                 *)
LEMMA UpTheRow ==
    ASSUME NEW n \in Nat, NEW S,
           \A p \in 1 .. n : (\A k \in 1 .. p - 1 : k \in S) => p \in S
    PROVE  1 .. n \subseteq S
<1> DEFINE D == (1 .. n) \ S
           R == OpToRel(<, Nat)
<1>1. SUFFICES ASSUME D # {} PROVE FALSE
  OBVIOUS
<1>2. IsWellFoundedOn(R, Nat)
  BY NatLessThanWellFounded
<1>3. \A x, y \in Nat : <<y, x>> \in R <=> y < x
  BY DEF OpToRel
<1>4. D \subseteq Nat
  OBVIOUS
<1> HIDE DEF R, D
<1>5. PICK m \in D : \A y \in D : ~(<<y, m>> \in R)
  BY <1>1, <1>2, <1>4, WFMin
<1>6. m \in 1 .. n /\ m \notin S
  BY <1>5 DEF D
<1>7. PICK k \in 1 .. m - 1 : k \notin S
  BY <1>6
<1>8. k \in D /\ k \in Nat /\ m \in Nat /\ k < m
  BY <1>6, <1>7 DEF D
<1>9. QED
  BY <1>3, <1>5, <1>8

(* The blocks below a block of a tree: they are of lower levels, the       *)
(* blocks below them are below it, too, and the first one is a leaf.       *)
LEMMA BelowInTree ==
    ASSUME NEW t, NEW lo, NEW n \in Nat, TreeRow(t, lo, n)
    PROVE  \A p \in 1 .. n :
              /\ lo[p] \in 1 .. p /\ t[lo[p]].lvl = 0
              /\ \A s \in lo[p] .. p : lo[s] >= lo[p]
              /\ \A s \in lo[p] .. p - 1 : t[s].lvl < t[p].lvl
<1> DEFINE Good(p) == /\ lo[p] \in 1 .. p /\ t[lo[p]].lvl = 0
                      /\ \A s \in lo[p] .. p : lo[s] >= lo[p]
                      /\ \A s \in lo[p] .. p - 1 : t[s].lvl < t[p].lvl
           S == {p \in 1 .. n : Good(p)}
<1>1. ASSUME NEW p \in 1 .. n, \A k \in 1 .. p - 1 : k \in S PROVE p \in S
  <2>1. TreeAt(t, lo, p) /\ t[p].lvl \in Nat /\ t[p].lcos \in Int
    BY DEF TreeRow
  <2>2. CASE t[p].lvl = 0
    BY <2>1, <2>2 DEF TreeAt
  <2>3. CASE t[p].lvl > 0
    <3> DEFINE l == p + t[p].lcos
    <3>1. /\ l \in 1 .. p - 2
          /\ lo[p] = lo[l] /\ lo[p - 1] = l + 1
          /\ t[l].lvl = t[p].lvl - 1 /\ t[p - 1].lvl = t[p].lvl - 1
      BY <2>1, <2>3 DEF TreeAt
    <3> HIDE DEF l
    <3>2. l \in S /\ p - 1 \in S /\ p - 1 \in 1 .. n
      BY <1>1, <3>1
    <3>3. Good(l) /\ Good(p - 1)
      BY <3>2
    <3>4. lo[p] \in 1 .. p /\ t[lo[p]].lvl = 0 /\ lo[p] <= l
      BY <3>1, <3>3
    <3>5. ASSUME NEW s \in lo[p] .. p PROVE lo[s] >= lo[p]
      <4>1. CASE s = p
        BY <3>4, <4>1
      <4>2. CASE s <= l
        BY <3>1, <3>3, <4>2
      <4>3. CASE s > l /\ s < p
        <5>1. s \in lo[p - 1] .. p - 1
          BY <3>1, <4>3
        <5>2. lo[s] >= lo[p - 1] /\ lo[s] \in 1 .. s
          BY <1>1, <3>3, <4>3, <5>1, <3>4
        <5>3. QED
          BY <3>1, <3>4, <5>2
      <4>4. QED
        BY <3>1, <4>1, <4>2, <4>3
    <3>6. ASSUME NEW s \in lo[p] .. p - 1 PROVE t[s].lvl < t[p].lvl
      <4>1. CASE s = l \/ s = p - 1
        BY <2>1, <3>1, <4>1
      <4>2. CASE s < l
        <5>1. t[s].lvl < t[l].lvl /\ t[s].lvl \in Nat
          BY <3>1, <3>3, <4>2, <3>4 DEF TreeRow
        <5>2. QED
          BY <2>1, <3>1, <5>1
      <4>3. CASE s > l /\ s < p - 1
        <5>1. t[s].lvl < t[p - 1].lvl /\ t[s].lvl \in Nat
          BY <3>1, <3>3, <4>3, <3>4 DEF TreeRow
        <5>2. QED
          BY <2>1, <3>1, <5>1
      <4>4. QED
        BY <3>1, <4>1, <4>2, <4>3
    <3>7. QED
      BY <3>4, <3>5, <3>6
  <2>4. QED
    BY <2>1, <2>2, <2>3
<1> HIDE DEF S
<1>2. 1 .. n \subseteq S
  BY <1>1, UpTheRow
<1>3. QED
  BY <1>2 DEF S

(* Of two neighbours the left one is a peak if the right one is.           *)
LEMMA PeakBefore ==
    ASSUME NEW t, NEW lo, NEW N \in Nat, TreeRow(t, lo, N),
           NEW p \in 1 .. N, Peak(lo, N, p), lo[p] > 1
    PROVE  lo[p] - 1 \in 1 .. N /\ Peak(lo, N, lo[p] - 1)
<1>1. lo[p] \in 1 .. p /\ \A s \in lo[p] .. p : lo[s] >= lo[p]
  BY BelowInTree
<1>2. \A s \in 1 .. N : lo[s] \in 1 .. s
  BY BelowInTree
<1>3. ASSUME NEW u \in lo[p] .. N PROVE lo[u] >= lo[p]
  <2>1. u \in 1 .. N /\ lo[u] \in 1 .. u
    BY <1>1, <1>2, <1>3
  <2>2. CASE u <= p
    BY <1>1, <2>1, <2>2
  <2>3. CASE u > p
    <3>1. lo[u] > p
      BY <2>1, <2>3 DEF Peak
    <3>2. QED
      BY <1>1, <2>1, <3>1
  <2>4. QED
    BY <1>1, <2>1, <2>2, <2>3
<1>4. ASSUME NEW u \in lo[p] - 1 + 1 .. N PROVE lo[u] > lo[p] - 1
  <2>1. u \in lo[p] .. N
    BY <1>1
  <2>2. lo[u] >= lo[p] /\ lo[u] \in Int
    BY <1>1, <1>2, <1>3, <2>1
  <2>3. QED
    BY <1>1, <2>2
<1>5. QED
  BY <1>1, <1>4 DEF Peak

(* The fields the shape of a row is read from.                             *)
SameShape(t, t2, p) ==
    /\ t2[p].lvl = t[p].lvl /\ t2[p].lcos = t[p].lcos /\ t2[p].rcos = t[p].rcos
    /\ t2[p].pn = t[p].pn /\ t2[p].isn = t[p].isn

Alike(t, t2, N) ==
    \A p \in 1 .. N : SameShape(t, t2, p) /\ t2[p].pos = t[p].pos /\ t2[p].h = t[p].h

LEMMA TreeAtAlike ==
    ASSUME NEW t, NEW t2, NEW lo, NEW lo2, NEW N \in Nat, NEW p \in 1 .. N,
           TreeAt(t, lo, p), t[p].lvl \in Nat, t[p].lcos \in Int,
           \A x \in 1 .. N : SameShape(t, t2, x) /\ lo2[x] = lo[x]
    PROVE  TreeAt(t2, lo2, p) /\ t2[p].lvl \in Nat /\ t2[p].lcos \in Int
<1>1. SameShape(t, t2, p) /\ lo2[p] = lo[p]
  OBVIOUS
<1>2. CASE t[p].lvl = 0
  BY <1>1, <1>2 DEF TreeAt, SameShape
<1>3. CASE t[p].lvl > 0
  <2> DEFINE l == p + t[p].lcos
  <2>1. /\ l \in 1 .. p - 2 /\ t[p].rcos = -1
        /\ lo[p] = lo[l] /\ lo[p - 1] = l + 1
        /\ t[l].lvl = t[p].lvl - 1 /\ t[p - 1].lvl = t[p].lvl - 1
        /\ lo[p] \in 1 .. p
    BY <1>3 DEF TreeAt
  <2> HIDE DEF l
  <2>2. l \in 1 .. N /\ p - 1 \in 1 .. N
    BY <2>1
  <2>3. /\ SameShape(t, t2, l) /\ SameShape(t, t2, p - 1)
        /\ lo2[l] = lo[l] /\ lo2[p - 1] = lo[p - 1]
    BY <2>2
  <2>4. l = p + t2[p].lcos
    BY <1>1 DEF SameShape, l
  <2>5. /\ l \in 1 .. p - 2 /\ t2[p].rcos = -1
        /\ lo2[p] = lo2[l] /\ lo2[p - 1] = l + 1
        /\ t2[l].lvl = t2[p].lvl - 1 /\ t2[p - 1].lvl = t2[p].lvl - 1
        /\ lo2[p] \in 1 .. p /\ t2[p].lvl > 0 /\ t2[p].lvl \in Nat /\ t2[p].lcos \in Int
    BY <1>1, <1>3, <2>1, <2>3 DEF SameShape
  <2>6. QED
    BY <2>4, <2>5 DEF TreeAt
<1>4. QED
  BY <1>2, <1>3

LEMMA LeadsAlike ==
    ASSUME NEW t, NEW t2, NEW N \in Nat, NEW M \in Nat, N <= M, NEW p \in 1 .. N,
           \A x \in 1 .. N : t[x].lcos \in Int,
           Leads(t, N, p), \A x \in 1 .. N : SameShape(t, t2, x),
           t2[p].pos = t[p].pos, t[p].pos \in Nat
    PROVE  Leads(t2, M, p)
<1> DEFINE u == p + t[p].pos
<1>1. t[p].pos > 0 /\ u <= N /\ t[u].lvl > 0 /\ p \in {u + t[u].lcos, u - 1}
  BY DEF Leads
<1>2. u \in 1 .. N
  BY <1>1
<1>3. u = p + t2[p].pos
  OBVIOUS
<1> HIDE DEF u
<1>4. SameShape(t, t2, u)
  BY <1>2
<1>5. t2[p].pos > 0 /\ u <= M /\ t2[u].lvl > 0 /\ p \in {u + t2[u].lcos, u - 1}
  BY <1>1, <1>2, <1>4 DEF SameShape
<1>6. QED
  BY <1>3, <1>5 DEF Leads

(* A row with the same hashes, and at most one node more.                  *)
LEMMA RowCombinesMore ==
    ASSUME NEW t, NEW t2, NEW lo, NEW N \in Nat, NEW n \in 1 .. N, TreeRow(t, lo, N),
           RowCombines(t, n, N), NEW M \in {N, N + 1},
           \A x \in 1 .. N : SameShape(t, t2, x) /\ t2[x].h = t[x].h,
           M = N + 1 => t2[M].lvl = 0 \/ Combines(t2, M)
    PROVE  RowCombines(t2, n, M)
<1>1. SUFFICES ASSUME NEW p \in n + 1 .. M, t2[p].lvl > 0, p # N + 1 PROVE Combines(t2, p)
  BY DEF RowCombines
<1>2. p \in n + 1 .. N /\ p \in 1 .. N
  BY <1>1
<1>3. t[p].lvl > 0 /\ t2[p].lcos = t[p].lcos /\ TreeAt(t, lo, p)
  BY <1>1, <1>2 DEF SameShape, TreeRow
<1>4. PICK l : l = p + t[p].lcos
  OBVIOUS
<1>5. l \in 1 .. p - 2
  BY <1>3, <1>4 DEF TreeAt
<1>6. l \in 1 .. N /\ p - 1 \in 1 .. N
  BY <1>2, <1>5
<1>7. t2[p].h = t[p].h /\ t2[l].h = t[l].h /\ t2[p - 1].h = t[p - 1].h
  BY <1>2, <1>6
<1>8. Combines(t, p)
  BY <1>2, <1>3 DEF RowCombines
<1>9. QED
  BY <1>3, <1>4, <1>7, <1>8 DEF Combines

(* What is said of a row does not change while its fields do not.          *)
LEMMA GrownAlike ==
    ASSUME NEW t, NEW t2, NEW lo, NEW N, NEW n, NEW A,
           Grown(t, lo, N, n, A), Alike(t, t2, N)
    PROVE  Grown(t2, lo, N, n, A)
<1>1. /\ N \in Nat /\ n \in 1 .. N /\ lo[n] = 1
      /\ TreeRow(t, lo, N)
      /\ \A p \in n .. N : Peak(lo, N, p) \/ Leads(t, N, p)
      /\ \A p \in n + 1 .. N : AddedAt(t, lo, n, A, p)
      /\ RowCombines(t, n, N)
      /\ N > n => t[n + 1].lvl = 0
  BY DEF Grown
<1>2. \A x \in 1 .. N : SameShape(t, t2, x) /\ t2[x].pos = t[x].pos /\ t2[x].h = t[x].h
  BY DEF Alike
<1>3. ASSUME NEW p \in 1 .. N
      PROVE  TreeAt(t2, lo, p) /\ t2[p].lvl \in Nat /\ t2[p].lcos \in Int /\ t2[p].pos \in Nat
  <2>1. TreeAt(t, lo, p) /\ t[p].lvl \in Nat /\ t[p].lcos \in Int /\ t[p].pos \in Nat
    BY <1>1 DEF TreeRow
  <2>2. TreeAt(t2, lo, p) /\ t2[p].lvl \in Nat /\ t2[p].lcos \in Int
    BY <1>1, <1>2, <2>1, TreeAtAlike
  <2>3. QED
    BY <1>2, <2>1, <2>2
<1>4. ASSUME NEW p \in n .. N, ~Peak(lo, N, p) PROVE Leads(t2, N, p)
  <2>1. p \in 1 .. N
    BY <1>1
  <2>2. Leads(t, N, p) /\ t[p].pos \in Nat /\ \A x \in 1 .. N : t[x].lcos \in Int
    BY <1>1, <1>4, <2>1 DEF TreeRow
  <2>3. N \in Nat /\ N <= N
    BY <1>1
  <2>4. t2[p].pos = t[p].pos /\ \A x \in 1 .. N : SameShape(t, t2, x)
    BY <1>2, <2>1
  <2>5. QED
    BY ONLY <2>1, <2>2, <2>3, <2>4, LeadsAlike
<1>5. ASSUME NEW p \in n + 1 .. N PROVE AddedAt(t2, lo, n, A, p)
  <2>1. p \in 1 .. N
    BY <1>1
  <2>2. SameShape(t, t2, p) /\ AddedAt(t, lo, n, A, p)
    BY <1>1, <1>2, <2>1
  <2>3. QED
    BY <2>2 DEF AddedAt, SameShape
<1>6. N > n => t2[n + 1].lvl = 0
  BY <1>1, <1>2 DEF SameShape
<1>7. RowCombines(t2, n, N)
  BY <1>1, <1>2, RowCombinesMore
<1>8. QED
  BY <1>1, <1>3, <1>4, <1>5, <1>6, <1>7 DEF Grown, TreeRow

LEMMA FallsAlike ==
    ASSUME NEW t, NEW t2, NEW lo, NEW N \in Nat, NEW m \in Int, m <= N,
           Alike(t, t2, N), Falls(t, lo, N, m)
    PROVE  Falls(t2, lo, N, m)
<1>1. \A i \in 1 .. m : t2[i].lvl = t[i].lvl
  BY DEF Alike, SameShape
<1>2. QED
  BY <1>1 DEF Falls

-----------------------------------------------------------------------------
(* A padding leaf behind the last node.                                    *)
PadRow(t, t2, N) ==
    /\ Alike(t, t2, N)
    /\ t2[N + 1].lvl = 0 /\ t2[N + 1].lcos = 0 /\ t2[N + 1].rcos = 0 /\ t2[N + 1].pos = 0
    /\ t2[N + 1].pn = NoPage /\ t2[N + 1].isn

(* lo for a row with one node more, whose first block is f.                *)
More(lo, N, f) == [p \in 1 .. N + 1 |-> IF p <= N THEN lo[p] ELSE f]

LEMMA MoreFacts ==
    ASSUME NEW lo, NEW N \in Nat, NEW f
    PROVE  /\ \A p \in 1 .. N : More(lo, N, f)[p] = lo[p]
           /\ More(lo, N, f)[N + 1] = f
BY DEF More

(* With a node that covers no node before f, the peaks are those before f  *)
(* and the new node.                                                       *)
LEMMA MorePeaks ==
    ASSUME NEW lo, NEW N \in Nat, NEW f \in 1 .. N + 1
    PROVE  /\ \A p \in 1 .. N : Peak(More(lo, N, f), N + 1, p) <=> Peak(lo, N, p) /\ p < f
           /\ Peak(More(lo, N, f), N + 1, N + 1)
<1> DEFINE lo2 == More(lo, N, f)
<1>1. (\A p \in 1 .. N : lo2[p] = lo[p]) /\ lo2[N + 1] = f
  BY MoreFacts
<1> HIDE DEF lo2
<1>2. ASSUME NEW p \in 1 .. N, Peak(lo2, N + 1, p) PROVE Peak(lo, N, p) /\ p < f
  <2>1. \A u \in p + 1 .. N + 1 : lo2[u] > p
    BY <1>2 DEF Peak
  <2>2. lo2[N + 1] > p
    BY <2>1
  <2>3. \A u \in p + 1 .. N : lo[u] > p
    BY <1>1, <2>1
  <2>4. QED
    BY <1>1, <2>2, <2>3 DEF Peak
<1>3. ASSUME NEW p \in 1 .. N, Peak(lo, N, p), p < f PROVE Peak(lo2, N + 1, p)
  <2>1. \A u \in p + 1 .. N : lo2[u] > p
    BY <1>1, <1>3 DEF Peak
  <2>2. lo2[N + 1] > p
    BY <1>1, <1>3
  <2>3. ASSUME NEW u \in p + 1 .. N + 1 PROVE lo2[u] > p
    <3>1. u = N + 1 \/ u \in p + 1 .. N
      OBVIOUS
    <3>2. QED
      BY <2>1, <2>2, <3>1
  <2>4. QED
    BY <2>3 DEF Peak
<1>4. Peak(lo2, N + 1, N + 1)
  BY DEF Peak
<1>5. QED
  BY <1>2, <1>3, <1>4 DEF lo2

LEMMA GrowLeaf ==
    ASSUME NEW t, NEW t2, NEW lo, NEW N, NEW n, NEW w \in Int, NEW A,
           Grown(t, lo, N, n, A), PadAt(t, lo, N, n, w), t[N].lvl <= t[n].lvl,
           w >= n, PadRow(t, t2, N)
    PROVE  LET lo2 == More(lo, N, N + 1) IN
           /\ Grown(t2, lo2, N + 1, n, A)
           /\ WalkAt(t2, lo2, N + 1, n, w, N + 1, 0)
<1> DEFINE lo2 == More(lo, N, N + 1)
<1>1. /\ N \in Nat /\ n \in 1 .. N /\ lo[n] = 1 /\ N + 1 \in Nat
      /\ TreeRow(t, lo, N)
      /\ \A p \in n .. N : Peak(lo, N, p) \/ Leads(t, N, p)
      /\ \A p \in n + 1 .. N : AddedAt(t, lo, n, A, p)
      /\ RowCombines(t, n, N)
      /\ N > n => t[n + 1].lvl = 0
  BY DEF Grown
<1>2. N \in Nat /\ n \in 1 .. N
  BY <1>1
<1>3. (\A p \in 1 .. N : lo2[p] = lo[p]) /\ lo2[N + 1] = N + 1
  BY <1>1, MoreFacts
<1>4. /\ \A p \in 1 .. N : Peak(lo2, N + 1, p) <=> Peak(lo, N, p)
      /\ Peak(lo2, N + 1, N + 1)
  <2>1. N + 1 \in 1 .. N + 1
    BY <1>1
  <2>2. \A p \in 1 .. N : Peak(lo2, N + 1, p) <=> Peak(lo, N, p) /\ p < N + 1
    BY <1>1, <2>1, MorePeaks
  <2>3. QED
    BY <1>1, <2>1, <2>2, MorePeaks
<1> HIDE DEF lo2
<1>5. \A x \in 1 .. N : SameShape(t, t2, x) /\ t2[x].pos = t[x].pos
  BY DEF PadRow, Alike
<1>6. TreeRow(t2, lo2, N + 1)
  <2>1. ASSUME NEW p \in 1 .. N
        PROVE  TreeAt(t2, lo2, p) /\ t2[p].lvl \in Nat /\ t2[p].lcos \in Int /\ t2[p].pos \in Nat
    <3>1. TreeAt(t, lo, p) /\ t[p].lvl \in Nat /\ t[p].lcos \in Int /\ t[p].pos \in Nat
      BY <1>1 DEF TreeRow
    <3>2. TreeAt(t2, lo2, p) /\ t2[p].lvl \in Nat /\ t2[p].lcos \in Int
      BY <1>1, <1>3, <1>5, <3>1, TreeAtAlike
    <3>3. QED
      BY <1>5, <3>1, <3>2
  <2>2. TreeAt(t2, lo2, N + 1)
    BY <1>1, <1>3 DEF TreeAt, PadRow
  <2>3. t2[N + 1].lvl \in Nat /\ t2[N + 1].lcos \in Int /\ t2[N + 1].pos \in Nat
    BY DEF PadRow
  <2>4. \A p \in 1 .. N + 1 : p \in 1 .. N \/ p = N + 1
    BY <1>1
  <2>5. QED
    BY <2>1, <2>2, <2>3, <2>4 DEF TreeRow
<1>7. ASSUME NEW p \in n .. N + 1 PROVE Peak(lo2, N + 1, p) \/ Leads(t2, N + 1, p)
  <2>1. p = N + 1 \/ (p \in n .. N /\ p \in 1 .. N)
    BY <1>2
  <2>2. CASE p = N + 1
    BY <1>4, <2>2
  <2>3. CASE p \in n .. N /\ p \in 1 .. N /\ ~Peak(lo2, N + 1, p)
    <3>1. Leads(t, N, p) /\ t[p].pos \in Nat /\ \A x \in 1 .. N : t[x].lcos \in Int
      BY <1>1, <1>4, <2>3 DEF TreeRow
    <3>2. p \in 1 .. N /\ t2[p].pos = t[p].pos /\ \A x \in 1 .. N : SameShape(t, t2, x)
      BY <1>5, <2>3
    <3>3. N \in Nat /\ N + 1 \in Nat /\ N <= N + 1
      BY <1>2
    <3>4. Leads(t2, N + 1, p)
      BY <3>1, <3>2, <3>3, LeadsAlike
    <3>5. QED
      BY <3>4
  <2>4. QED
    BY <2>1, <2>2, <2>3
<1>8. ASSUME NEW p \in n + 1 .. N + 1 PROVE AddedAt(t2, lo2, n, A, p)
  <2>1. p = N + 1 \/ (p \in n + 1 .. N /\ p \in 1 .. N)
    BY <1>2
  <2>2. CASE p = N + 1
    BY <2>2 DEF AddedAt, PadRow
  <2>3. CASE p \in n + 1 .. N /\ p \in 1 .. N
    <3>1. SameShape(t, t2, p) /\ AddedAt(t, lo, n, A, p) /\ lo2[p] = lo[p]
      BY <1>1, <1>3, <1>5, <2>3
    <3>2. QED
      BY <3>1 DEF AddedAt, SameShape
  <2>4. QED
    BY <2>1, <2>2, <2>3
<1>9. t2[n + 1].lvl = 0
  BY <1>1, <1>5 DEF SameShape, PadRow
<1>10. Grown(t2, lo2, N + 1, n, A)
  <2>1. \A x \in 1 .. N : SameShape(t, t2, x) /\ t2[x].h = t[x].h
    BY DEF PadRow, Alike
  <2>2. t2[N + 1].lvl = 0 /\ N + 1 \in {N, N + 1}
    BY DEF PadRow
  <2>3. RowCombines(t2, n, N + 1)
    BY <1>1, <2>1, <2>2, RowCombinesMore
  <2>4. QED
    BY <1>1, <1>3, <1>6, <1>7, <1>8, <1>9, <2>3 DEF Grown
<1>11. Waits(lo, N, n, w)
  <2>1. CASE AllJoined(lo, N, n) /\ w = N
    <3>1. n \in lo[N] .. N - 1 /\ N \in 1 .. N
      BY <1>1, <2>1 DEF AllJoined
    <3>2. \A s \in lo[N] .. N - 1 : t[s].lvl < t[N].lvl
      BY <1>1, <3>1, BelowInTree
    <3>3. t[n].lvl < t[N].lvl /\ t[n].lvl \in Int /\ t[N].lvl \in Int
      BY <1>1, <3>1, <3>2 DEF TreeRow
    <3>4. QED
      BY <3>3
  <2>2. QED
    BY <2>1 DEF PadAt
<1>12. Waits(lo2, N + 1, n, w)
  BY <1>1, <1>4, <1>11 DEF Waits
<1>13. \A p \in 1 .. N : t2[p].lvl = t[p].lvl /\ t[p].lvl \in Nat
  BY <1>1, <1>5 DEF SameShape, TreeRow
<1>14. Falls(t, lo, N, N)
  BY DEF PadAt
<1>15. Falls(t2, lo2, N + 1, N)
  BY <1>4, <1>13, <1>14 DEF Falls
<1>16. t2[N + 1].lvl = 0
  BY DEF PadRow
<1>17. w = n
  BY <1>11 DEF Waits
<1>18. lo2[N + 1] - 1 = N
  BY <1>1, <1>3
<1>19. Falls(t2, lo2, N + 1, lo2[N + 1] - 1)
  BY <1>15, <1>18
<1>20. \A i \in 1 .. lo2[N + 1] - 1 : t2[i].lvl >= t2[N + 1].lvl
  BY <1>13, <1>16, <1>18
<1>21. N + 1 \in w .. N + 1 /\ lo2[N + 1] <= N + 1 /\ N + 1 > n
  BY <1>1, <1>3, <1>17
<1>22. WalkAt(t2, lo2, N + 1, n, w, N + 1, 0)
  BY <1>12, <1>17, <1>19, <1>20, <1>21 DEF WalkAt
<1>23. QED
  BY <1>10, <1>22 DEF lo2

-----------------------------------------------------------------------------
(* A parent of node m and of the last node, behind them.                   *)
NodeRow(t, t2, N, m) ==
    /\ \A x \in 1 .. N : SameShape(t, t2, x) /\ t2[x].h = t[x].h
    /\ \A x \in 1 .. N : x # m /\ x # N => t2[x].pos = t[x].pos
    /\ t2[m].pos = N + 1 - m /\ t2[N].pos = 1
    /\ t2[N + 1].lvl = t[N].lvl + 1 /\ t2[N + 1].lcos = m - (N + 1) /\ t2[N + 1].rcos = -1
    /\ t2[N + 1].pos = 0 /\ t2[N + 1].h = Combine(t[m].h, t[N].h)

LeadsVia(t, N, p, u) ==
    /\ t[p].pos > 0 /\ p + t[p].pos = u /\ u <= N
    /\ t[u].lvl > 0 /\ p \in {u + t[u].lcos, u - 1}

LEMMA LeadsTo ==
    ASSUME NEW t, NEW N, NEW p, NEW u, LeadsVia(t, N, p, u)
    PROVE  Leads(t, N, p)
BY DEF Leads, LeadsVia

JoinsAt(t, lo, p, l, r) ==
    /\ p + t[p].lcos = l /\ p - 1 = r
    /\ t[p].lvl > 0 /\ t[p].lvl = t[r].lvl + 1 /\ t[r].lvl \in Nat /\ t[l].lvl = t[r].lvl
    /\ l \in 1 .. p - 2 /\ t[p].rcos = -1
    /\ lo[p] \in 1 .. p /\ lo[p] = lo[l] /\ lo[r] = l + 1

LEMMA JoinsTwo ==
    ASSUME NEW t, NEW lo, NEW p, NEW l, NEW r, JoinsAt(t, lo, p, l, r)
    PROVE  TreeAt(t, lo, p)
<1>1. t[p].lvl # 0 /\ t[l].lvl = t[p].lvl - 1 /\ t[r].lvl = t[p].lvl - 1
  BY DEF JoinsAt
<1>2. QED
  BY <1>1 DEF TreeAt, JoinsAt

(* The node the walk finds at the level of the last one is its neighbour   *)
(* among the peaks.                                                        *)
LEMMA MeetsPeak ==
    ASSUME NEW t, NEW lo, NEW N, NEW n, NEW w \in Int, NEW A, NEW m \in 1 .. N - 1, NEW level,
           Grown(t, lo, N, n, A), WalkAt(t, lo, N, n, w, m + 1, level),
           t[m].lvl >= t[N].lvl
    PROVE  lo[N] = m + 1 /\ Peak(lo, N, m)
<1>1. N \in Nat /\ TreeRow(t, lo, N)
  BY DEF Grown
<1>2. N \in 1 .. N
  BY <1>1
<1>3. lo[N] \in 1 .. N /\ \A s \in lo[N] .. N - 1 : t[s].lvl < t[N].lvl
  BY <1>1, <1>2, BelowInTree
<1>4. lo[N] <= m + 1
  BY DEF WalkAt
<1>5. t[m].lvl \in Nat /\ t[N].lvl \in Nat
  BY <1>1, <1>2 DEF TreeRow
<1>6. ~(lo[N] <= m)
  BY <1>1, <1>3, <1>5
<1>7. lo[N] = m + 1
  BY <1>1, <1>3, <1>4, <1>6
<1>8. Peak(lo, N, N)
  BY <1>1 DEF Peak
<1>9. lo[N] > 1
  BY <1>7
<1>10. Peak(lo, N, lo[N] - 1)
  BY <1>1, <1>2, <1>8, <1>9, PeakBefore
<1>11. QED
  BY <1>7, <1>10

LEMMA GrowNode ==
    ASSUME NEW t, NEW t2, NEW lo, NEW N, NEW n, NEW w \in Int, NEW A, NEW m \in Int, NEW level,
           Grown(t, lo, N, n, A), WalkAt(t, lo, N, n, w, m + 1, level),
           w <= m, m < N, t[m].lvl = t[N].lvl,
           NodeRow(t, t2, N, m), m = n => t2[N + 1].pn \in A,
           m > n => t2[N + 1].pn = NoPage
    PROVE  LET lo2 == More(lo, N, lo[m]) IN
           /\ lo[m] <= m
           /\ Grown(t2, lo2, N + 1, n, A)
           /\ WalkAt(t2, lo2, N + 1, n, w, m, t2[N + 1].lvl)
<1> DEFINE lo2 == More(lo, N, lo[m])
<1>1. /\ N \in Nat /\ n \in 1 .. N /\ lo[n] = 1 /\ N + 1 \in Nat
      /\ TreeRow(t, lo, N)
      /\ \A p \in n .. N : Peak(lo, N, p) \/ Leads(t, N, p)
      /\ \A p \in n + 1 .. N : AddedAt(t, lo, n, A, p)
      /\ RowCombines(t, n, N)
      /\ N > n => t[n + 1].lvl = 0
  BY DEF Grown
<1>2. N \in Nat /\ n \in 1 .. N
  BY <1>1
<1>3. /\ N > n /\ w = n
      /\ Falls(t, lo, N, lo[N] - 1)
      /\ \A i \in 1 .. lo[N] - 1 : Peak(lo, N, i) => t[i].lvl >= t[N].lvl
      /\ Waits(lo, N, n, w) \/ (AllJoined(lo, N, n) /\ level = t[N].lvl)
  BY DEF WalkAt
<1>4. m \in 1 .. N - 1 /\ m \in 1 .. N /\ n <= m
  BY <1>2, <1>3
<1>5. \A p \in 1 .. N : t[p].lvl \in Nat /\ t[p].lcos \in Int /\ t[p].pos \in Nat
  BY <1>1 DEF TreeRow
<1>6. lo[N] = m + 1 /\ Peak(lo, N, m)
  <2>1. t[m].lvl >= t[N].lvl
    BY <1>2, <1>4, <1>5
  <2>2. QED
    BY <1>4, <2>1, MeetsPeak
<1>7. lo[m] \in 1 .. m /\ \A s \in lo[m] .. m : lo[s] >= lo[m]
  BY <1>1, <1>4, BelowInTree
<1>8. (\A p \in 1 .. N : lo2[p] = lo[p]) /\ lo2[N + 1] = lo[m]
  BY <1>2, MoreFacts
<1>9. /\ \A p \in 1 .. N : Peak(lo2, N + 1, p) <=> Peak(lo, N, p) /\ p < lo[m]
      /\ Peak(lo2, N + 1, N + 1)
  <2>1. lo[m] \in 1 .. N + 1
    BY <1>2, <1>4, <1>7
  <2>2. QED
    BY <1>2, <2>1, MorePeaks
<1> HIDE DEF lo2
<1>10. \A x \in 1 .. N : SameShape(t, t2, x)
  BY DEF NodeRow
<1>11. \A x \in 1 .. N : t2[x].lvl = t[x].lvl
  BY <1>10 DEF SameShape
<1>12. /\ t2[N + 1].lvl = t[N].lvl + 1 /\ t2[N + 1].lcos = m - (N + 1) /\ t2[N + 1].rcos = -1
       /\ t2[N + 1].pos = 0 /\ t2[m].pos = N + 1 - m /\ t2[N].pos = 1
  BY DEF NodeRow
<1>13. TreeRow(t2, lo2, N + 1)
  <2>1. ASSUME NEW p \in 1 .. N
        PROVE  TreeAt(t2, lo2, p) /\ t2[p].lvl \in Nat /\ t2[p].lcos \in Int /\ t2[p].pos \in Nat
    <3>1. TreeAt(t, lo, p) /\ t[p].lvl \in Nat /\ t[p].lcos \in Int /\ t[p].pos \in Nat
      BY <1>1 DEF TreeRow
    <3>2. TreeAt(t2, lo2, p) /\ t2[p].lvl \in Nat /\ t2[p].lcos \in Int
      <4>1. N \in Nat /\ p \in 1 .. N
        BY <1>2
      <4>2. TreeAt(t, lo, p) /\ t[p].lvl \in Nat /\ t[p].lcos \in Int
        BY <3>1
      <4>3. \A x \in 1 .. N : SameShape(t, t2, x) /\ lo2[x] = lo[x]
        BY <1>8, <1>10
      <4>4. QED
        BY ONLY <4>1, <4>2, <4>3, TreeAtAlike, Zenon
    <3>3. t2[p].pos \in Nat
      <4>1. CASE p = m
        <5>1. t2[p].pos = N + 1 - m
          BY <1>12, <4>1
        <5>2. N \in Nat /\ m \in 1 .. N
          BY <1>2, <1>4
        <5>3. QED
          BY ONLY <5>1, <5>2
      <4>2. CASE p = N
        <5>1. t2[p].pos = 1
          BY <1>12, <4>2
        <5>2. QED
          BY ONLY <5>1
      <4>3. CASE p # m /\ p # N
        <5>1. t2[p].pos = t[p].pos
          BY <2>1, <4>3 DEF NodeRow
        <5>2. QED
          BY ONLY <3>1, <5>1
      <4>4. QED
        BY ONLY <4>1, <4>2, <4>3
    <3>4. QED
      BY <3>2, <3>3
  <2>2. TreeAt(t2, lo2, N + 1)
    <3>1. t2[N + 1].lvl > 0 /\ t2[N + 1].lvl = t[N].lvl + 1 /\ t[N].lvl \in Nat
      BY <1>2, <1>4, <1>5, <1>12
    <3>2. lo2[N + 1] = lo2[m] /\ lo2[N] = m + 1 /\ lo2[N + 1] \in 1 .. N + 1
      BY <1>2, <1>4, <1>6, <1>7, <1>8
    <3>3. t2[m].lvl = t[N].lvl /\ t2[N].lvl = t[N].lvl /\ t2[N].lvl \in Nat
      BY <1>5, <1>2, <1>4, <1>11
    <3>4. N + 1 + t2[N + 1].lcos = m /\ N + 1 - 1 = N /\ m \in 1 .. N + 1 - 2
      BY <1>2, <1>4, <1>12
    <3>5. QED
      <4>1. JoinsAt(t2, lo2, N + 1, m, N)
        BY <1>2, <1>12, <3>1, <3>2, <3>3, <3>4 DEF JoinsAt
      <4>2. QED
        BY <4>1, JoinsTwo
  <2>3. t2[N + 1].lvl \in Nat /\ t2[N + 1].lcos \in Int /\ t2[N + 1].pos \in Nat
    BY <1>2, <1>4, <1>5, <1>12
  <2>4. \A p \in 1 .. N + 1 : p \in 1 .. N \/ p = N + 1
    BY <1>1
  <2>5. QED
    BY <2>1, <2>2, <2>3, <2>4 DEF TreeRow
<1>14. ASSUME NEW p \in n .. N + 1 PROVE Peak(lo2, N + 1, p) \/ Leads(t2, N + 1, p)
  <2>1. p = N + 1 \/ p = m \/ p = N \/ (p \in n .. N /\ p \in 1 .. N /\ p # m /\ p # N)
    BY <1>2
  <2>2. CASE p = N + 1
    BY <1>9, <2>2
  <2>3. CASE p = m \/ p = N
    <3>1. t2[p].pos > 0 /\ p + t2[p].pos = N + 1
      BY <1>2, <1>4, <1>12, <2>3
    <3>2. t2[N + 1].lvl > 0
      BY <1>2, <1>4, <1>5, <1>12
    <3>3. p \in {N + 1 + t2[N + 1].lcos, N + 1 - 1}
      BY <1>2, <1>4, <1>12, <2>3
    <3>4. N + 1 <= N + 1
      BY <1>2
    <3>5. Leads(t2, N + 1, p)
      <4>1. LeadsVia(t2, N + 1, p, N + 1)
        BY <1>2, <3>1, <3>2, <3>3, <3>4 DEF LeadsVia
      <4>2. QED
        BY <4>1, LeadsTo
    <3>6. QED
      BY <3>5
  <2>4. CASE p \in n .. N /\ p \in 1 .. N /\ p # m /\ p # N
    <3>1. CASE Peak(lo, N, p)
      <4>1. ~(p > m)
        <5>1. ASSUME p > m PROVE FALSE
          <6>1. N \in p + 1 .. N
            BY <1>2, <2>4
          <6>2. lo[N] > p
            BY <3>1, <6>1 DEF Peak
          <6>3. QED
            BY <1>4, <1>6, <2>4, <5>1, <6>2
        <5>2. QED
          BY <5>1
      <4>2. p < lo[m]
        <5>1. m \in p + 1 .. N
          BY <1>4, <2>4, <4>1
        <5>2. lo[m] > p
          BY <3>1, <5>1 DEF Peak
        <5>3. QED
          BY <1>7, <2>4, <5>2
      <4>3. QED
        BY <1>9, <2>4, <3>1, <4>2
    <3>2. CASE ~Peak(lo, N, p)
      <4>1. Leads(t, N, p) /\ t[p].pos \in Nat /\ \A x \in 1 .. N : t[x].lcos \in Int
        BY <1>1, <1>5, <2>4, <3>2
      <4>2. t2[p].pos = t[p].pos
        BY <2>4 DEF NodeRow
      <4>3. N \in Nat /\ N + 1 \in Nat /\ N <= N + 1 /\ p \in 1 .. N
        BY <1>2, <2>4
      <4>4. Leads(t2, N + 1, p)
        BY <1>10, <4>1, <4>2, <4>3, LeadsAlike
      <4>5. QED
        BY <4>4
    <3>3. QED
      BY <3>1, <3>2
  <2>5. QED
    BY <2>1, <2>2, <2>3, <2>4
<1>15. n < m => lo[m] > n
  <2>1. SUFFICES ASSUME n < m PROVE lo[m] > n
    OBVIOUS
  <2>2. ~AllJoined(lo, N, n)
    BY <1>2, <1>4, <1>6 DEF AllJoined
  <2>3. Peak(lo, N, n)
    BY <1>3, <2>2 DEF Waits
  <2>4. m \in n + 1 .. N
    BY <1>2, <1>4, <2>1
  <2>5. QED
    BY <2>3, <2>4 DEF Peak
<1>16. ASSUME NEW p \in n + 1 .. N + 1 PROVE AddedAt(t2, lo2, n, A, p)
  <2>1. p = N + 1 \/ (p \in n + 1 .. N /\ p \in 1 .. N)
    BY <1>2
  <2>2. CASE p = N + 1
    <3>1. t2[N + 1].lvl # 0
      BY <1>2, <1>4, <1>5, <1>12
    <3>2. ASSUME lo2[N + 1] <= n PROVE m = n
      BY <1>2, <1>4, <1>7, <1>8, <1>15, <3>2
    <3>3. N + 1 + t2[N + 1].lcos = m
      BY <1>2, <1>4, <1>12
    <3>4. lo2[N + 1] > n => m > n
      BY <1>2, <1>4, <1>7, <1>8, <1>15
    <3>5. QED
      BY <2>2, <3>1, <3>2, <3>3, <3>4 DEF AddedAt
  <2>3. CASE p \in n + 1 .. N /\ p \in 1 .. N
    <3>1. SameShape(t, t2, p) /\ AddedAt(t, lo, n, A, p) /\ lo2[p] = lo[p]
      BY <1>1, <1>8, <1>10, <2>3
    <3>2. QED
      BY <3>1 DEF AddedAt, SameShape
  <2>4. QED
    BY <2>1, <2>2, <2>3
<1>17. t2[n + 1].lvl = 0
  BY <1>1, <1>3, <1>11
<1>18. N + 1 > n => t2[n + 1].lvl = 0
  BY <1>17
<1>19. lo2[n] = 1 /\ n \in 1 .. N + 1
  BY <1>2, <1>1, <1>8
<1>20. Grown(t2, lo2, N + 1, n, A)
  <2>1. \A x \in 1 .. N : SameShape(t, t2, x) /\ t2[x].h = t[x].h
    BY DEF NodeRow
  <2>2. Combines(t2, N + 1)
    <3>1. N + 1 + t2[N + 1].lcos = m /\ N + 1 - 1 = N /\ N \in 1 .. N
      BY <1>2, <1>4, <1>12
    <3>2. t2[m].h = t[m].h /\ t2[N].h = t[N].h
      BY <1>4, <2>1, <3>1
    <3>3. t2[N + 1].h = Combine(t[m].h, t[N].h)
      BY DEF NodeRow
    <3>4. QED
      BY <3>1, <3>2, <3>3 DEF Combines
  <2>3. RowCombines(t2, n, N + 1)
    <3>1. N + 1 \in {N, N + 1}
      OBVIOUS
    <3>2. QED
      BY <1>1, <2>1, <2>2, <3>1, RowCombinesMore
  <2>4. QED
    BY <1>1, <1>13, <1>14, <1>16, <1>18, <1>19, <2>3 DEF Grown
<1>21. ASSUME NEW i \in 1 .. lo2[N + 1] - 1, Peak(lo2, N + 1, i)
       PROVE  t2[i].lvl > t[N].lvl /\ t2[i].lvl \in Nat
  <2>1. i \in 1 .. N /\ i < m /\ i \in 1 .. lo[N] - 1 /\ m \in 1 .. lo[N] - 1
    BY <1>2, <1>4, <1>6, <1>7, <1>8, <1>21
  <2>2. Peak(lo, N, i)
    BY <1>9, <1>21, <2>1
  <2>3. t[i].lvl > t[m].lvl
    BY <1>3, <1>6, <2>1, <2>2 DEF Falls
  <2>4. QED
    BY <1>5, <1>11, <2>1, <2>3
<1>22. Falls(t2, lo2, N + 1, lo2[N + 1] - 1)
  <2>1. ASSUME NEW i \in 1 .. lo2[N + 1] - 1, NEW j \in 1 .. lo2[N + 1] - 1, i < j,
               Peak(lo2, N + 1, i), Peak(lo2, N + 1, j)
        PROVE  t2[i].lvl > t2[j].lvl
    <3>1. /\ i \in 1 .. N /\ i \in 1 .. lo[N] - 1
          /\ j \in 1 .. N /\ j \in 1 .. lo[N] - 1
      BY <1>2, <1>4, <1>6, <1>7, <1>8, <2>1
    <3>2. Peak(lo, N, i) /\ Peak(lo, N, j)
      BY <1>9, <2>1, <3>1
    <3>3. t[i].lvl > t[j].lvl
      BY <1>3, <2>1, <3>1, <3>2 DEF Falls
    <3>4. QED
      BY <1>11, <3>1, <3>3
  <2>2. QED
    BY <2>1 DEF Falls
<1>23. \A i \in 1 .. lo2[N + 1] - 1 : Peak(lo2, N + 1, i) => t2[i].lvl >= t2[N + 1].lvl
  <2>1. t[N].lvl \in Nat
    BY <1>2, <1>4, <1>5
  <2>2. QED
    BY <1>12, <1>21, <2>1
<1>24. Waits(lo2, N + 1, n, w) \/ AllJoined(lo2, N + 1, n)
  <2>1. CASE n = m
    BY <1>2, <1>1, <1>8, <2>1 DEF AllJoined
  <2>2. CASE n < m
    <3>1. ~AllJoined(lo, N, n)
      BY <1>2, <1>4, <1>6 DEF AllJoined
    <3>2. Peak(lo, N, n)
      BY <1>3, <3>1 DEF Waits
    <3>3. Peak(lo2, N + 1, n)
      BY <1>2, <1>9, <1>15, <2>2, <3>2
    <3>4. QED
      BY <1>3, <3>3 DEF Waits
  <2>3. QED
    BY <1>2, <1>4, <2>1, <2>2
<1>25. m \in w .. N + 1 /\ lo2[N + 1] <= m /\ N + 1 > n
  BY <1>2, <1>4, <1>7, <1>8
<1>26. WalkAt(t2, lo2, N + 1, n, w, m, t2[N + 1].lvl)
  BY <1>3, <1>22, <1>23, <1>24, <1>25 DEF WalkAt
<1>27. QED
  BY <1>7, <1>20, <1>26 DEF lo2

-----------------------------------------------------------------------------
(* What a file holds depends on few fields of its blocks.                  *)
LEMMA BlockTypes ==
    ASSUME NEW f \in [Pos -> Block], NEW p \in Pos
    PROVE  /\ f[p] \in Block
           /\ f[p].pn \in Nat /\ f[p].lvl \in Nat /\ f[p].h \in Hash
           /\ f[p].isn \in BOOLEAN /\ f[p].izn \in BOOLEAN
           /\ f[p].lcos \in Int /\ f[p].rcos \in Int /\ f[p].pos \in Int
           /\ f[p].rsvd \in Mark
BY DEF Block

LEMMA PosFacts == MaxPos \in Nat /\ Pos \subseteq Nat /\ \A n \in Pos : 1 .. n \subseteq Pos /\ n \in 1 .. n
BY DiskAssumption DEF Pos

(* The links of the first n blocks, and the marks below the root.          *)
KeepsLinks(f, g, n) ==
    /\ \A p \in 1 .. n : g[p].lvl = f[p].lvl /\ g[p].lcos = f[p].lcos /\ g[p].rcos = f[p].rcos
    /\ \A p \in 1 .. n - 1 : g[p].pos = f[p].pos /\ g[p].rsvd = f[p].rsvd
    /\ g[n].pos \in Nat

LEMMA TreeFrame ==
    ASSUME NEW f \in [Pos -> Block], NEW g, NEW lo, NEW lo2, NEW n,
           FileTree(f, lo, n), KeepsLinks(f, g, n), \A p \in 1 .. n : lo2[p] = lo[p]
    PROVE  FileTree(g, lo2, n)
<1>1. n \in Pos /\ n \in Nat /\ 1 .. n \subseteq Pos /\ n \in 1 .. n
  BY PosFacts DEF FileTree
<1>2. ASSUME NEW p \in 1 .. n PROVE TreeAt(g, lo2, p)
  <2>1. TreeAt(f, lo, p) /\ f[p].lvl \in Nat
    BY <1>1, BlockTypes DEF FileTree
  <2>2. CASE f[p].lvl = 0
    BY <2>1, <2>2 DEF TreeAt, KeepsLinks
  <2>3. CASE f[p].lvl > 0
    <3> DEFINE l == p + f[p].lcos
    <3>1. /\ l \in 1 .. p - 2 /\ f[p].rcos = -1
          /\ lo[p] = lo[l] /\ lo[p - 1] = l + 1
          /\ f[l].lvl = f[p].lvl - 1 /\ f[p - 1].lvl = f[p].lvl - 1
          /\ lo[p] \in 1 .. p
      BY <2>1, <2>3 DEF TreeAt
    <3>2. l = p + g[p].lcos
      BY DEF KeepsLinks
    <3> HIDE DEF l
    <3>3. l \in 1 .. n /\ p - 1 \in 1 .. n
      BY <1>1, <3>1
    <3>4. /\ l \in 1 .. p - 2 /\ g[p].rcos = -1
          /\ lo2[p] = lo2[l] /\ lo2[p - 1] = l + 1
          /\ g[l].lvl = g[p].lvl - 1 /\ g[p - 1].lvl = g[p].lvl - 1
          /\ lo2[p] \in 1 .. p /\ g[p].lvl > 0 /\ g[p].lvl # 0
      BY <2>1, <2>3, <3>1, <3>3 DEF KeepsLinks
    <3>5. QED
      BY <3>2, <3>4 DEF TreeAt
  <2>4. QED
    BY <2>1, <2>2, <2>3
<1>3. ASSUME NEW p \in 1 .. n PROVE UpAt(g, n, p)
  <2>1. UpAt(f, n, p) /\ f[p].pos \in Int
    BY <1>1, BlockTypes DEF FileTree
  <2>2. CASE p = n
    BY <1>1, <2>2 DEF UpAt, KeepsLinks
  <2>3. CASE p < n
    <3> DEFINE u == p + f[p].pos
    <3>1. p \in 1 .. n - 1
      BY <1>1, <2>3
    <3>2. g[p].pos = f[p].pos
      BY <3>1 DEF KeepsLinks
    <3>3. f[p].pos > 0 => u <= n /\ f[u].lvl > 0 /\ p \in {u + f[u].lcos, u - 1} /\ u \in 1 .. n
      BY <1>1, <2>1, <2>3 DEF UpAt
    <3>4. g[p].pos \in Nat /\ u = p + g[p].pos
      BY <2>1, <3>2 DEF UpAt
    <3> HIDE DEF u
    <3>5. g[p].pos > 0 => u <= n /\ g[u].lvl > 0 /\ p \in {u + g[u].lcos, u - 1}
      BY <3>2, <3>3 DEF KeepsLinks
    <3>6. QED
      BY <3>4, <3>5 DEF UpAt
  <2>4. QED
    BY <1>1, <2>2, <2>3
<1>4. n \in Pos /\ lo2[n] = 1 /\ \A p \in 1 .. n - 1 : g[p].rsvd = "R"
  BY <1>1 DEF FileTree, KeepsLinks
<1>5. QED
  BY <1>2, <1>3, <1>4 DEF FileTree

(* The leaves before s are as they were, the one at s holds no page of A.  *)
KeepsRow(f, g, n, s, A) ==
    /\ \A x \in 1 .. n : f[x].lvl = 0 /\ x # s => g[x].pn = f[x].pn /\ g[x].isn = f[x].isn
    /\ s \in 1 .. n => \A a \in A : a < g[s].pn

LEMMA RowFrame ==
    ASSUME NEW f, NEW g, NEW n \in Nat, NEW s \in Int, NEW A,
           PageRow(f, n, s, A), KeepsLinks(f, g, n), KeepsRow(f, g, n, s, A)
    PROVE  PageRow(g, n, s, A)
<1>1. \A x \in 1 .. n : LeafAt(g, n, x) <=> LeafAt(f, n, x)
  BY DEF LeafAt, KeepsLinks
<1>2. \A x \in 1 .. n : LeafAt(f, n, x) /\ x # s => g[x].pn = f[x].pn /\ g[x].isn = f[x].isn
  BY DEF LeafAt, KeepsRow
<1>3. ASSUME NEW x \in 1 .. n, LeafAt(g, n, x)
      PROVE  /\ x < s => g[x].pn \in A /\ ~g[x].isn
             /\ x >= s => \A p \in A : p < g[x].pn
             /\ x > s => g[x].pn = NoPage /\ g[x].isn
  <2>1. /\ LeafAt(f, n, x)
        /\ x < s => f[x].pn \in A /\ ~f[x].isn
        /\ x >= s => \A p \in A : p < f[x].pn
        /\ x > s => f[x].pn = NoPage /\ f[x].isn
    BY <1>1, <1>3 DEF PageRow
  <2>2. CASE x = s
    BY <2>2 DEF KeepsRow
  <2>3. CASE x # s
    BY <1>2, <2>1, <2>3
  <2>4. QED
    BY <2>2, <2>3
<1>4. ASSUME NEW p \in A PROVE \E x \in 1 .. n : LeafAt(g, n, x) /\ x < s /\ g[x].pn = p
  <2>1. PICK x \in 1 .. n : LeafAt(f, n, x) /\ x < s /\ f[x].pn = p
    BY DEF PageRow
  <2>2. LeafAt(g, n, x) /\ x < s /\ g[x].pn = p
    BY <1>1, <1>2, <2>1
  <2>3. QED
    BY <2>2
<1>5. ASSUME NEW x \in 1 .. n, NEW y \in 1 .. n, LeafAt(g, n, x), LeafAt(g, n, y), x < y, y < s
      PROVE  g[x].pn < g[y].pn
  <2>1. f[x].pn < f[y].pn
    BY <1>1, <1>5 DEF PageRow
  <2>2. QED
    BY <1>1, <1>2, <1>5, <2>1
<1>6. QED
  BY <1>3, <1>4, <1>5 DEF PageRow

LEMMA FirstOpenType ==
    ASSUME NEW f, NEW lo, NEW A, NEW h \in Header, Holds(f, lo, h, A)
    PROVE  /\ h.rno \in Pos /\ h.rno \in Nat /\ h.rno >= 1
           /\ 1 .. h.rno \subseteq Pos /\ h.rno \in 1 .. h.rno
           /\ FirstOpen(h) \in 1 .. h.rno + 1
           /\ h.fslo # NoPos => FirstOpen(h) = h.fslo /\ h.fslo \in 1 .. h.rno - 1
           /\ h.fslo = NoPos => FirstOpen(h) = h.rno + 1
<1>1. h.rno \in Pos /\ (h.fslo # NoPos => h.fslo \in 1 .. h.rno - 1)
  BY DEF Holds, FileTree, OpenAt
<1>2. h.rno \in Nat /\ h.rno >= 1 /\ 1 .. h.rno \subseteq Pos
  BY <1>1, DiskAssumption DEF Pos
<1>3. QED
  BY <1>1, <1>2 DEF FirstOpen

LEMMA HoldsFrame ==
    ASSUME NEW f \in [Pos -> Block], NEW g, NEW lo, NEW lo2, NEW h \in Header, NEW A,
           Holds(f, lo, h, A), \A p \in 1 .. h.rno : lo2[p] = lo[p],
           KeepsLinks(f, g, h.rno), KeepsRow(f, g, h.rno, FirstOpen(h), A),
           h.fslo # NoPos => g[h.rno].rsvd = f[h.rno].rsvd,
           \A a, x \in 1 .. h.rno :
               LeafAt(f, h.rno, x) /\ x < FirstOpen(h) => Sorts(g, lo, a, x)
    PROVE  Holds(g, lo2, h, A)
<1>1. /\ h.rno \in Nat /\ FirstOpen(h) \in 1 .. h.rno + 1
      /\ h.fslo # NoPos => h.fslo \in 1 .. h.rno - 1
  BY FirstOpenType
<1>2. FileTree(g, lo2, h.rno)
  BY TreeFrame DEF Holds
<1>3. PageRow(g, h.rno, FirstOpen(h), A)
  BY <1>1, RowFrame DEF Holds
<1>4. ASSUME h.fslo # NoPos PROVE OpenAt(g, h.rno, h.fslo)
  <2>1. OpenAt(f, h.rno, h.fslo)
    BY <1>4 DEF Holds
  <2>2. QED
    BY <1>1, <1>4, <2>1 DEF OpenAt, KeepsLinks
<1>5. ASSUME NEW a \in 1 .. h.rno, NEW x \in 1 .. h.rno,
             LeafAt(g, h.rno, x), x < FirstOpen(h)
      PROVE  Sorts(g, lo2, a, x)
  <2>1. LeafAt(f, h.rno, x)
    BY <1>5 DEF LeafAt, KeepsLinks
  <2>2. Sorts(g, lo, a, x) /\ lo2[a] = lo[a]
    BY <1>5, <2>1
  <2>3. QED
    BY <2>2 DEF Sorts
<1>6. QED
  BY <1>2, <1>3, <1>4, <1>5 DEF Holds, Ordered

(* Fields other than the hash and the pages kept for parents and children. *)
SameButHashes(f, g, n) ==
    \A p \in 1 .. n : /\ SameShape(f, g, p)
                      /\ g[p].pos = f[p].pos /\ g[p].rsvd = f[p].rsvd

LEMMA HoldsQuiet ==
    ASSUME NEW f \in [Pos -> Block], NEW g, NEW lo, NEW h \in Header, NEW A,
           Holds(f, lo, h, A), SameButHashes(f, g, h.rno)
    PROVE  Holds(g, lo, h, A)
<1>1. /\ h.rno \in Nat /\ FirstOpen(h) \in 1 .. h.rno + 1 /\ h.rno \in 1 .. h.rno
      /\ 1 .. h.rno \subseteq Pos
  BY FirstOpenType
<1>2. f[h.rno].pos \in Nat
  BY <1>1 DEF Holds, FileTree, UpAt
<1>3. KeepsLinks(f, g, h.rno)
  BY <1>1, <1>2 DEF SameButHashes, SameShape, KeepsLinks
<1>4. FirstOpen(h) \in 1 .. h.rno => \A a \in A : a < g[FirstOpen(h)].pn
  <2>1. SUFFICES ASSUME FirstOpen(h) \in 1 .. h.rno, NEW a \in A PROVE a < g[FirstOpen(h)].pn
    OBVIOUS
  <2>2. h.fslo # NoPos
    BY <1>1, <2>1 DEF FirstOpen
  <2>3. LeafAt(f, h.rno, FirstOpen(h))
    BY <2>1, <2>2 DEF Holds, OpenAt, LeafAt, FirstOpen
  <2>4. a < f[FirstOpen(h)].pn
    BY <1>1, <2>1, <2>3 DEF Holds, PageRow
  <2>5. QED
    BY <2>1, <2>4 DEF SameButHashes, SameShape
<1>5. KeepsRow(f, g, h.rno, FirstOpen(h), A)
  BY <1>4 DEF KeepsRow, SameButHashes, SameShape
<1>6. ASSUME NEW a \in 1 .. h.rno, NEW x \in 1 .. h.rno, LeafAt(f, h.rno, x), x < FirstOpen(h)
      PROVE  Sorts(g, lo, a, x)
  <2>1. Sorts(f, lo, a, x)
    BY <1>6 DEF Holds, Ordered
  <2>2. SameShape(f, g, a) /\ SameShape(f, g, x)
    BY DEF SameButHashes
  <2>3. QED
    BY <2>1, <2>2 DEF Sorts, SameShape
<1>7. g[h.rno].rsvd = f[h.rno].rsvd
  BY <1>1 DEF SameButHashes
<1>8. QED
  BY <1>3, <1>5, <1>6, <1>7, HoldsFrame

-----------------------------------------------------------------------------
(* A walk from x to the first position of T exists: it ends where the      *)
(* positions it reaches, which are the least closed set, meet T.           *)
Onward(nx, T, S)  == \A m \in S : m \notin T => nx[m] \in S
Passed(nx, T, x)  == {y \in Int : \A S \in SUBSET Int : x \in S /\ Onward(nx, T, S) => y \in S}

LEMMA PassedUnfolds ==
    ASSUME NEW T, NEW nx, \A x \in Int : x \notin T => nx[x] \in Int, NEW x \in Int
    PROVE  Passed(nx, T, x) = IF x \in T THEN {x} ELSE {x} \cup Passed(nx, T, nx[x])
<1>1. CASE x \in T
  <2>1. x \in {x} /\ Onward(nx, T, {x}) /\ {x} \in SUBSET Int
    BY <1>1 DEF Onward
  <2>2. Passed(nx, T, x) \subseteq {x}
    BY <2>1 DEF Passed
  <2>3. x \in Passed(nx, T, x)
    BY DEF Passed
  <2>4. QED
    BY <1>1, <2>2, <2>3
<1>2. CASE x \notin T
  <2> DEFINE S == {x} \cup Passed(nx, T, nx[x])
  <2>1. nx[x] \in Passed(nx, T, nx[x])
    BY <1>2 DEF Passed
  <2>2. S \in SUBSET Int /\ Onward(nx, T, S)
    BY <1>2, <2>1 DEF Passed, Onward
  <2>3. Passed(nx, T, nx[x]) \subseteq Passed(nx, T, x)
    BY <1>2 DEF Passed, Onward
  <2>4. x \in Passed(nx, T, x)
    BY DEF Passed
  <2> HIDE DEF S
  <2>5. x \in S
    BY DEF S
  <2>6. Passed(nx, T, x) \subseteq S
    BY <2>2, <2>5 DEF Passed
  <2>7. QED
    BY <1>2, <2>3, <2>4, <2>6 DEF S
<1>3. QED
  BY <1>1, <1>2

LEMMA WalkExists ==
    ASSUME NEW T, NEW nx, \A x \in Int : x \notin T => nx[x] \in Int
    PROVE  \E D : D = [x \in Int |-> IF x \in T THEN x ELSE D[nx[x]]]
<1> DEFINE Ends(x) == {y \in Passed(nx, T, x) : y \in T}
           D == [x \in Int |-> CHOOSE y : y \in Ends(x)]
<1>1. ASSUME NEW x \in Int, x \in T PROVE D[x] = x
  <2>1. Ends(x) = {x}
    BY <1>1, PassedUnfolds
  <2> HIDE DEF Ends
  <2>2. QED
    BY <2>1
<1>2. ASSUME NEW x \in Int, x \notin T PROVE D[x] = D[nx[x]]
  <2>1. Passed(nx, T, x) = {x} \cup Passed(nx, T, nx[x])
    BY <1>2, PassedUnfolds
  <2>2. Ends(x) = Ends(nx[x])
    BY <1>2, <2>1
  <2>3. nx[x] \in Int
    BY <1>2
  <2> HIDE DEF Ends
  <2>4. QED
    BY <2>2, <2>3
<1> HIDE DEF Ends
<1>3. D = [x \in Int |-> IF x \in T THEN x ELSE D[nx[x]]]
  BY <1>1, <1>2
<1>4. QED
  BY <1>3

(* Rightmost, unfolded once.                                               *)
LEMMA RightmostUnfolds ==
    ASSUME NEW f \in [Pos -> Block]
    PROVE  \A x \in Int : Rightmost(f, x) = IF Read(f, x).rcos = 0 THEN x
                                            ELSE Rightmost(f, Rchild(f, x))
<1> DEFINE Eq(g) == g = [x \in Int |-> IF Read(f, x).rcos = 0 THEN x ELSE g[Rchild(f, x)]]
           T     == {x \in Int : Read(f, x).rcos = 0}
           nx    == [x \in Int |-> Rchild(f, x)]
<1>1. ASSUME NEW x \in Int PROVE Rchild(f, x) \in Int
  <2>1. Read(f, x).rcos \in Int
    BY BlockTypes DEF Read, ZeroBlock
  <2>2. QED
    BY <2>1 DEF Rchild
<1>2. \E g : Eq(g)
  <2>1. \A x \in Int : nx[x] = Rchild(f, x) /\ nx[x] \in Int /\ (x \in T <=> Read(f, x).rcos = 0)
    BY <1>1
  <2> HIDE DEF T, nx
  <2>2. PICK D : D = [x \in Int |-> IF x \in T THEN x ELSE D[nx[x]]]
    BY <2>1, WalkExists
  <2>3. Eq(D)
    BY <2>1, <2>2
  <2>4. QED
    BY <2>3
<1>3. PICK R : R = (CHOOSE g : Eq(g)) /\ Eq(R)
  BY <1>2, Zenon
<1>4. \A x : Rightmost(f, x) = R[x]
  BY <1>3 DEF Rightmost
<1>5. QED
  BY <1>3, <1>4

(* In a tree it is the last leaf that is not behind the block.             *)
LEMMA RightmostInTree ==
    ASSUME NEW f \in [Pos -> Block], NEW lo, NEW n, FileTree(f, lo, n), NEW p \in 1 .. n
    PROVE  LET y == Rightmost(f, p) IN
           /\ y \in lo[p] .. p /\ f[y].lvl = 0 /\ \A x \in y + 1 .. p : f[x].lvl # 0
<1> DEFINE Good(k) == /\ Rightmost(f, k) \in lo[k] .. k /\ f[Rightmost(f, k)].lvl = 0
                      /\ \A x \in Rightmost(f, k) + 1 .. k : f[x].lvl # 0
           S == {k \in 1 .. n : Good(k)}
<1>1. n \in Nat /\ 1 .. n \subseteq Pos
  BY PosFacts DEF FileTree
<1>2. ASSUME NEW k \in 1 .. n, \A j \in 1 .. k - 1 : j \in S PROVE k \in S
  <2>1. TreeAt(f, lo, k) /\ f[k].lvl \in Nat /\ Read(f, k) = f[k] /\ k \in Int
    BY <1>1, BlockTypes DEF FileTree, Read
  <2>2. CASE f[k].lvl = 0
    <3>1. Rightmost(f, k) = k /\ lo[k] = k
      BY <2>1, <2>2, RightmostUnfolds DEF TreeAt
    <3>2. QED
      BY <2>1, <2>2, <3>1
  <2>3. CASE f[k].lvl > 0
    <3> DEFINE l == k + f[k].lcos
    <3>1. /\ l \in 1 .. k - 2 /\ f[k].rcos = -1
          /\ lo[k] = lo[l] /\ lo[k - 1] = l + 1 /\ lo[l] \in 1 .. l
      <4>1. l \in 1 .. k - 2 /\ f[k].rcos = -1 /\ lo[k] = lo[l] /\ lo[k - 1] = l + 1
        BY <2>1, <2>3 DEF TreeAt
      <4>2. TreeAt(f, lo, l)
        BY <1>1, <4>1 DEF FileTree
      <4>3. QED
        BY <4>1, <4>2 DEF TreeAt
    <3> HIDE DEF l
    <3>2. Rchild(f, k) = k - 1
      BY <2>1, <3>1 DEF Rchild
    <3>3. Rightmost(f, k) = Rightmost(f, k - 1)
      BY <2>1, <3>1, <3>2, RightmostUnfolds
    <3>4. Good(k - 1)
      <4>1. k - 1 \in 1 .. k - 1
        BY <3>1
      <4>2. QED
        BY <1>2, <4>1
    <3>5. Rightmost(f, k) \in lo[k] .. k
      BY <3>1, <3>3, <3>4
    <3>6. \A x \in Rightmost(f, k) + 1 .. k : x \in Rightmost(f, k - 1) + 1 .. k - 1 \/ x = k
      BY <3>1, <3>3, <3>4
    <3>7. QED
      BY <2>1, <2>3, <3>3, <3>4, <3>5, <3>6
  <2>4. QED
    BY <2>1, <2>2, <2>3
<1> HIDE DEF S
<1>3. 1 .. n \subseteq S
  BY <1>1, <1>2, UpTheRow
<1>4. QED
  BY <1>3 DEF S

-----------------------------------------------------------------------------
(* LeafFor, as a function of the file and its root, and unfolded once: a   *)
(* search goes on at the children.                                         *)
Goes(f, page, x) == IF page <= Read(f, x).pn THEN Lchild(f, x) ELSE Rchild(f, x)

LeafIn(f, n, page) ==
    LET D[x \in Int] ==
            IF ~IsInterior(f, x) THEN x
            ELSE IF page <= Read(f, x).pn THEN D[Lchild(f, x)] ELSE D[Rchild(f, x)]
    IN  D[n]

Unfolded(D, f, page) ==
    \A x \in Int : D[x] = IF ~IsInterior(f, x) THEN x ELSE D[Goes(f, page, x)]

LEMMA LeafUnfolds ==
    ASSUME NEW f \in [Pos -> Block], NEW n, NEW page
    PROVE  \E D : Unfolded(D, f, page) /\ LeafIn(f, n, page) = D[n]
<1> DEFINE Eq(g) == g = [x \in Int |-> IF ~IsInterior(f, x) THEN x
                             ELSE IF page <= Read(f, x).pn THEN g[Lchild(f, x)]
                                                           ELSE g[Rchild(f, x)]]
           T     == {x \in Int : ~IsInterior(f, x)}
           nx    == [x \in Int |-> Goes(f, page, x)]
<1>1. ASSUME NEW x \in Int PROVE Goes(f, page, x) \in Int
  <2>1. Read(f, x).rcos \in Int /\ Read(f, x).lcos \in Int
    BY BlockTypes DEF Read, ZeroBlock
  <2>2. QED
    BY <2>1 DEF Rchild, Lchild, Goes
<1>2. \E g : Eq(g)
  <2>1. \A x \in Int : /\ nx[x] = Goes(f, page, x) /\ nx[x] \in Int
                       /\ (x \in T <=> ~IsInterior(f, x))
    BY <1>1
  <2> HIDE DEF T, nx
  <2>2. PICK D : D = [x \in Int |-> IF x \in T THEN x ELSE D[nx[x]]]
    BY <2>1, WalkExists
  <2>3. D = [x \in Int |-> IF ~IsInterior(f, x) THEN x ELSE D[Goes(f, page, x)]]
    BY <2>1, <2>2
  <2>4. Eq(D)
    BY <2>3 DEF Goes
  <2>5. QED
    BY <2>4
<1>3. PICK R : R = (CHOOSE g : Eq(g)) /\ Eq(R)
  BY <1>2, Zenon
<1>4. LeafIn(f, n, page) = R[n]
  BY <1>3 DEF LeafIn
<1>5. Unfolded(R, f, page)
  BY <1>3 DEF Goes, Unfolded
<1>6. QED
  BY <1>4, <1>5

LEMMA LeafForIn == ASSUME NEW page PROVE LeafFor(page) = LeafIn(file, hdr.rno, page)
BY DEF LeafFor, LeafIn

(* A search for the page of leaf x stays above it.                         *)
LEMMA SearchDown ==
    ASSUME NEW f \in [Pos -> Block], NEW lo, NEW h \in Header, NEW A, Holds(f, lo, h, A),
           NEW x \in 1 .. h.rno, LeafAt(f, h.rno, x), x < FirstOpen(h),
           NEW y \in 1 .. h.rno, lo[y] <= x, x <= y
    PROVE  IF IsInterior(f, y)
           THEN LET z == Goes(f, f[x].pn, y) IN z \in 1 .. y - 1 /\ lo[z] <= x /\ x <= z
           ELSE y = x
<1>1. h.rno \in Nat /\ 1 .. h.rno \subseteq Pos
  BY FirstOpenType
<1>2. TreeAt(f, lo, y) /\ f[y].lvl \in Nat /\ Read(f, y) = f[y] /\ Sorts(f, lo, y, x)
  BY <1>1, BlockTypes DEF Holds, FileTree, Read, Ordered
<1>3. CASE f[y].lvl = 0
  BY <1>2, <1>3 DEF TreeAt, IsInterior
<1>4. CASE f[y].lvl > 0
  <2> DEFINE l == y + f[y].lcos
  <2>1. l \in 1 .. y - 2 /\ f[y].rcos = -1 /\ lo[y] = lo[l] /\ lo[y - 1] = l + 1
    BY <1>2, <1>4 DEF TreeAt
  <2>2. Lchild(f, y) = l /\ Rchild(f, y) = y - 1
    BY <1>2, <2>1 DEF Lchild, Rchild
  <2>3. x # y /\ x < y
    BY <1>4 DEF LeafAt
  <2>4. f[x].pn <= f[y].pn <=> x <= l
    BY <1>2, <1>4, <2>3 DEF Sorts
  <2> HIDE DEF l
  <2>5. CASE x <= l
    <3>1. Goes(f, f[x].pn, y) = l
      BY <1>2, <2>2, <2>4, <2>5 DEF Goes
    <3>2. QED
      BY <1>2, <1>4, <2>1, <2>5, <3>1 DEF IsInterior
  <2>6. CASE x > l
    <3>1. Goes(f, f[x].pn, y) = y - 1
      BY <1>2, <2>1, <2>2, <2>4, <2>6 DEF Goes
    <3>2. QED
      BY <1>2, <1>4, <2>1, <2>3, <2>6, <3>1 DEF IsInterior
  <2>7. QED
    BY <2>1, <2>5, <2>6
<1>5. QED
  BY <1>2, <1>3, <1>4

LEMMA SearchEnds ==
    ASSUME file \in [Pos -> Block], hdr \in Header, NEW lo, NEW A, Holds(file, lo, hdr, A),
           NEW x \in 1 .. hdr.rno, LeafAt(file, hdr.rno, x), x < FirstOpen(hdr)
    PROVE  LeafFor(file[x].pn) = x
<1>1. PICK D : /\ \A y \in Int : D[y] = IF ~IsInterior(file, y) THEN y
                                        ELSE D[Goes(file, file[x].pn, y)]
               /\ LeafFor(file[x].pn) = D[hdr.rno]
  BY LeafUnfolds, LeafForIn DEF Unfolded
<1> DEFINE n == hdr.rno
           S == {y \in 1 .. n : lo[y] <= x /\ x <= y => D[y] = x}
<1>2. n \in Nat /\ n \in 1 .. n
  BY FirstOpenType
<1>3. ASSUME NEW y \in 1 .. n, \A k \in 1 .. y - 1 : k \in S PROVE y \in S
  <2>1. SUFFICES ASSUME lo[y] <= x, x <= y PROVE D[y] = x
    OBVIOUS
  <2>2. IF IsInterior(file, y)
        THEN LET z == Goes(file, file[x].pn, y) IN z \in 1 .. y - 1 /\ lo[z] <= x /\ x <= z
        ELSE y = x
    BY <2>1, SearchDown
  <2>3. CASE ~IsInterior(file, y)
    BY <1>1, <2>2, <2>3
  <2>4. CASE IsInterior(file, y)
    <3> DEFINE z == Goes(file, file[x].pn, y)
    <3>1. z \in 1 .. y - 1 /\ lo[z] <= x /\ x <= z
      BY <2>2, <2>4
    <3>2. D[y] = D[z]
      BY <1>1, <2>4
    <3> HIDE DEF z
    <3>3. QED
      BY <1>3, <3>1, <3>2
  <2>5. QED
    BY <2>3, <2>4
<1> HIDE DEF S
<1>4. 1 .. n \subseteq S
  BY <1>2, <1>3, UpTheRow
<1>5. lo[n] = 1 /\ n \in S
  BY <1>2, <1>4 DEF Holds, FileTree
<1>6. D[n] = x
  BY <1>5 DEF S
<1>7. QED
  BY <1>1, <1>6

(* The leaf of a page the file holds, and that there is one only.          *)
LEMMA LeafOfPage ==
    ASSUME NEW f \in [Pos -> Block], NEW lo, NEW h \in Header, NEW A, Holds(f, lo, h, A),
           NEW p \in A, NEW x \in 1 .. h.rno, LeafAt(f, h.rno, x), f[x].pn = p
    PROVE  /\ x < FirstOpen(h)
           /\ \A y \in 1 .. h.rno : LeafAt(f, h.rno, y) /\ f[y].pn = p => y = x
<1>1. h.rno \in Nat /\ FirstOpen(h) \in Int /\ 1 .. h.rno \subseteq Pos
  BY FirstOpenType
<1>2. ASSUME NEW y \in 1 .. h.rno, LeafAt(f, h.rno, y), f[y].pn = p PROVE y < FirstOpen(h)
  <2>1. f[y].pn \in Nat
    BY <1>1, BlockTypes
  <2>2. y >= FirstOpen(h) => p < f[y].pn
    BY <1>2 DEF Holds, PageRow
  <2>3. QED
    BY <1>1, <1>2, <2>1, <2>2
<1>3. ASSUME NEW y \in 1 .. h.rno, LeafAt(f, h.rno, y), f[y].pn = p PROVE y = x
  <2>1. x < FirstOpen(h) /\ y < FirstOpen(h) /\ f[x].pn \in Nat
    BY <1>1, <1>2, <1>3, BlockTypes
  <2>2. /\ x < y => f[x].pn < f[y].pn
        /\ y < x => f[y].pn < f[x].pn
    BY <1>3, <2>1 DEF Holds, PageRow
  <2>3. QED
    BY <1>3, <2>1, <2>2
<1>4. QED
  BY <1>2, <1>3

-----------------------------------------------------------------------------
(* Facts about a state and a step that the proofs of the actions share.    *)
LEMMA TypeFacts ==
    ASSUME TypeOK
    PROVE  /\ file \in [Pos -> Block] /\ hdr \in Header /\ glob \in Globals
           /\ QueueTypeOK /\ op.page \in Nat /\ op.hash \in Hash /\ cur \in Int
           /\ ret \in 0 .. MaxPos /\ slot \in {Nowhere} \cup 0 .. MaxPos
           /\ Known \subseteq Pages /\ Known \subseteq Nat /\ cut \subseteq Pages
           /\ \A p \in Known : p < NoPage
BY StoreAssumption DEF TypeOK, DiskTypeOK, QueueTypeOK, Known, StoreAssumption

LEMMA QueueSame == ASSUME QueueTypeOK, UNCHANGED queueVars PROVE QueueTypeOK'
BY DEF QueueTypeOK, queueVars

(* One written block.                                                      *)
LEMMA WriteFacts ==
    ASSUME NEW f \in [Pos -> Block], NEW g, NEW p \in Pos, NEW b \in Block,
           g = [f EXCEPT ![p] = b]
    PROVE  /\ g \in [Pos -> Block] /\ g[p] = b
           /\ \A x \in Pos : x # p => g[x] = f[x]
OBVIOUS

(* The steps that leave pages, links and marks alone, and the hashes shown *)
(* but that of the page at work.                                           *)
LEMMA SoundFrame ==
    ASSUME TypeOK, NEW lo, Sound(lo), UNCHANGED <<hdr, acked, cut>>, Busy \subseteq Busy',
           SameButHashes(file, file', hdr.rno),
           \A x \in 1 .. hdr.rno : file[x].lvl = 0 /\ x < FirstOpen(hdr)
                                   /\ file[x].pn \notin Busy' => file'[x].h = file[x].h
    PROVE  Sound(lo)'
<1>1. file \in [Pos -> Block] /\ hdr \in Header
  BY TypeFacts
<1>2. Holds(file', lo, hdr, Known)
  BY <1>1, HoldsQuiet DEF Sound
<1>3. Known' = Known /\ FirstOpen(hdr)' = FirstOpen(hdr)
  BY DEF Known, FirstOpen
<1>4. HashesShown'
  <2>1. SUFFICES ASSUME NEW x \in 1 .. hdr.rno, LeafAt(file', hdr.rno, x), x < FirstOpen(hdr),
                        file'[x].pn \notin cut \cup Busy'
                 PROVE  file'[x].h = acked[file'[x].pn]
    BY <1>3 DEF HashesShown
  <2>2. SameShape(file, file', x)
    BY DEF SameButHashes
  <2>3. LeafAt(file, hdr.rno, x) /\ file'[x].pn = file[x].pn
    BY <2>1, <2>2 DEF LeafAt, SameShape
  <2>4. file[x].h = acked[file[x].pn]
    BY <2>1, <2>3 DEF Sound, HashesShown
  <2>5. file'[x].h = file[x].h
    BY <2>1, <2>3 DEF LeafAt
  <2>6. QED
    BY <2>3, <2>4, <2>5
<1>5. QED
  BY <1>2, <1>3, <1>4 DEF Sound

LEMMA SoundQuiet ==
    ASSUME TypeOK, NEW lo, Sound(lo), UNCHANGED <<file, hdr, acked, cut>>, Busy \subseteq Busy'
    PROVE  Sound(lo)'
<1>1. SameButHashes(file, file', hdr.rno)
  BY DEF SameButHashes, SameShape
<1>2. QED
  BY <1>1, SoundFrame

(* What is said of the operation that runs.                                *)
OpInv(lo) ==
    /\ SearchInv(lo) /\ UpdateInv /\ InsertInv /\ SepsInv(lo) /\ NextInv /\ ClimbInv
    /\ ExtendInv(lo) /\ ScanInv(lo) /\ AtRest

LEMMA IdleInv ==
    ASSUME NEW lo, pc' = "idle", stage' = "idle", cbd' = 0, hlev' = NoPad
    PROVE  OpInv(lo)'
BY DEF OpInv, SearchInv, UpdateInv, InsertInv, SepsInv, NextInv, ClimbInv, ExtendInv,
       ScanInv, AtRest, Inserting

LEMMA InvParts ==
    ASSUME NEW lo
    PROVE  IInvAt(lo) <=> Sound(lo) /\ OpInv(lo) /\ Offsets
BY DEF IInvAt, OpInv

-----------------------------------------------------------------------------
(* One lemma per action.                                                   *)
LEMMA StartUpdateInv ==
    ASSUME TypeOK, NEW lo, IInvAt(lo), NEW args \in Args("update"), StartUpdate(args)
    PROVE  TypeOK' /\ IInvAt(lo)'
<1>1. Sound(lo) /\ OpInv(lo) /\ Offsets
  BY InvParts
<1>2. /\ pc = "idle" /\ args.page \in Known /\ pc' = "search" /\ op' = args
      /\ cur' = hdr.rno /\ ret' = NoPos
      /\ UNCHANGED <<file, hdr, queueVars, storeVars>>
  BY DEF StartUpdate, BeginSearch, Known
<1>3. UNCHANGED <<file, hdr, acked, cut, slot, stage, cbd, hlev>>
  BY <1>2 DEF queueVars, storeVars
<1>4. args.kind = "update" /\ args.page \in Nat /\ args.hash \in Hash
      /\ args \in [kind : {"none", "insert", "update"}, page : Nat, hash : Hash]
  BY StoreAssumption DEF Args, StoreAssumption
<1>5. /\ file \in [Pos -> Block] /\ hdr \in Header /\ hdr.rno \in 1 .. hdr.rno
      /\ hdr.rno \in Int /\ hdr.rno \in 1 .. MaxPos
  BY <1>1, TypeFacts, FirstOpenType DEF Sound, Pos
<1>6. TypeOK'
  <2>1. QueueTypeOK'
    BY <1>2, QueueSame DEF TypeOK
  <2>2. op' \in [kind : {"none", "insert", "update"}, page : Nat, hash : Hash]
    BY <1>2, <1>4
  <2>3. cur' \in Int /\ ret' \in 0 .. MaxPos
    BY <1>2, <1>5, DiskAssumption DEF NoPos
  <2>4. QED
    BY <1>2, <1>3, <2>1, <2>2, <2>3 DEF TypeOK, DiskTypeOK
<1>7. Sound(lo)'
  BY <1>1, <1>2, <1>3, SoundQuiet DEF Busy
<1>8. SearchInv(lo)'
  <2>1. PICK x \in 1 .. hdr.rno : LeafAt(file, hdr.rno, x) /\ file[x].pn = args.page
    BY <1>1, <1>2 DEF Sound, Holds, PageRow
  <2>2. lo[hdr.rno] <= x /\ x <= hdr.rno
    BY <1>1, <1>5 DEF Sound, Holds, FileTree
  <2>3. QED
    BY <1>2, <1>3, <1>4, <1>5, <2>1, <2>2 DEF SearchInv, Known
<1>9. OpInv(lo)'
  BY <1>1, <1>2, <1>3, <1>8 DEF OpInv, UpdateInv, InsertInv, SepsInv, NextInv, ClimbInv,
       ExtendInv, ScanInv, AtRest, Inserting
<1>10. Offsets'
  BY <1>1, <1>3 DEF Offsets
<1>11. QED
  BY <1>6, <1>7, <1>9, <1>10 DEF IInvAt, OpInv

LEMMA SearchStepInv ==
    ASSUME TypeOK, NEW lo, IInvAt(lo), Search
    PROVE  TypeOK' /\ IInvAt(lo)'
<1>1. Sound(lo) /\ OpInv(lo) /\ Offsets
  BY InvParts
<1>2. /\ pc = "search" /\ IsInterior(file, cur) /\ cur' = Goes(file, op.page, cur)
      /\ ret' = cur' /\ UNCHANGED <<file, hdr, pc, op, queueVars, storeVars>>
  BY DEF Search, SearchStep, Goes
<1>3. UNCHANGED <<file, hdr, acked, cut, slot, stage, cbd, hlev>>
  BY <1>2 DEF queueVars, storeVars
<1>4. /\ file \in [Pos -> Block] /\ hdr \in Header /\ hdr.rno \in Nat
      /\ 1 .. hdr.rno \subseteq 1 .. MaxPos
  BY <1>1, TypeFacts, FirstOpenType DEF Sound, Pos
<1>5. /\ op.kind = "update" /\ op.page \in Known
      /\ cur \in 1 .. hdr.rno
      /\ \E x \in 1 .. hdr.rno : /\ LeafAt(file, hdr.rno, x) /\ file[x].pn = op.page
                                 /\ lo[cur] <= x /\ x <= cur
  BY <1>1, <1>2 DEF OpInv, SearchInv
<1>6. PICK x \in 1 .. hdr.rno : /\ LeafAt(file, hdr.rno, x) /\ file[x].pn = op.page
                                /\ lo[cur] <= x /\ x <= cur
  BY <1>5
<1>7. x < FirstOpen(hdr)
  BY <1>1, <1>4, <1>5, <1>6, LeafOfPage DEF Sound
<1>8. cur' \in 1 .. cur - 1 /\ lo[cur'] <= x /\ x <= cur'
  BY <1>1, <1>2, <1>4, <1>5, <1>6, <1>7, SearchDown DEF Sound
<1>9. cur' \in 1 .. hdr.rno /\ cur' \in 0 .. MaxPos /\ cur' \in Int
  BY <1>4, <1>5, <1>8
<1>10. TypeOK'
  BY <1>2, <1>3, <1>4, <1>9, QueueSame DEF TypeOK, DiskTypeOK
<1>11. Sound(lo)'
  BY <1>1, <1>2, <1>3, SoundQuiet DEF Busy
<1>12. SearchInv(lo)'
  BY <1>2, <1>3, <1>5, <1>6, <1>8, <1>9 DEF SearchInv, Known
<1>13. OpInv(lo)'
  BY <1>1, <1>2, <1>3, <1>12 DEF OpInv, UpdateInv, InsertInv, SepsInv, NextInv, ClimbInv,
       ExtendInv, ScanInv, AtRest, Inserting
<1>14. Offsets'
  BY <1>1, <1>3 DEF Offsets
<1>15. QED
  BY <1>10, <1>11, <1>13, <1>14 DEF IInvAt, OpInv

LEMMA FailInv ==
    ASSUME TypeOK, NEW lo, IInvAt(lo), Fail
    PROVE  TypeOK' /\ IInvAt(lo)'
<1>1. Sound(lo) /\ OpInv(lo) /\ Offsets
  BY InvParts
<1>2. /\ pc = "search" /\ pc' = "idle" /\ op' = NoOp /\ cur' = NoPos /\ ret' = NoPos
      /\ slot' = NoPos /\ UNCHANGED <<file, hdr, queueVars, acked, cut>>
  BY DEF Fail, Return, NotFound, AtLeaf
<1>3. UNCHANGED <<file, hdr, acked, cut, stage, cbd, hlev>>
  BY <1>2 DEF queueVars
<1>4. TypeOK'
  <2>1. QueueTypeOK'
    BY <1>2, QueueSame DEF TypeOK
  <2>2. op' \in [kind : {"none", "insert", "update"}, page : Nat, hash : Hash]
    BY <1>2 DEF NoOp, NullHash, Hash, Byte
  <2>3. cur' \in Int /\ ret' \in 0 .. MaxPos /\ slot' \in {Nowhere} \cup 0 .. MaxPos
    BY <1>2, DiskAssumption DEF NoPos
  <2>4. QED
    BY <1>2, <1>3, <2>1, <2>2, <2>3 DEF TypeOK, DiskTypeOK
<1>5. Sound(lo)'
  BY <1>1, <1>2, <1>3, SoundQuiet DEF Busy
<1>6. OpInv(lo)'
  <2>1. stage = "idle" /\ cbd = 0 /\ hlev = NoPad
    BY <1>1, <1>2 DEF OpInv, AtRest
  <2>2. QED
    BY <1>2, <1>3, <2>1, IdleInv
<1>7. Offsets'
  BY <1>1, <1>3 DEF Offsets
<1>8. QED
  BY <1>4, <1>5, <1>6, <1>7 DEF IInvAt, OpInv

(* The arguments and locals are gone: the type of a state at rest.         *)
LEMMA ReturnType ==
    ASSUME Return
    PROVE  /\ op' \in [kind : {"none", "insert", "update"}, page : Nat, hash : Hash]
           /\ cur' \in Int /\ ret' \in 0 .. MaxPos /\ slot' \in {Nowhere} \cup 0 .. MaxPos
           /\ pc' = "idle"
BY DiskAssumption DEF Return, NoOp, NullHash, Hash, Byte, NoPos

LEMMA UpdateReturnsInv ==
    ASSUME TypeOK, NEW lo, IInvAt(lo), UpdateReturns
    PROVE  TypeOK' /\ IInvAt(lo)'
<1>1. Sound(lo) /\ OpInv(lo) /\ Offsets
  BY InvParts
<1>2. /\ pc = "path" /\ op.kind = "update" /\ Return
      /\ acked' = [acked EXCEPT ![op.page] = op.hash] /\ cut' = cut \ {op.page}
      /\ UNCHANGED <<file, hdr, queueVars>>
  BY DEF UpdateReturns, PathEnded
<1>3. UNCHANGED <<file, hdr, stage, cbd, hlev>>
  BY <1>2 DEF queueVars
<1>4. /\ file \in [Pos -> Block] /\ hdr \in Header /\ hdr.rno \in Nat
      /\ Known \subseteq Pages /\ cut \subseteq Pages
  BY <1>1, TypeFacts, FirstOpenType DEF Sound
<1>5. Known' = Known /\ acked'[op.page] = op.hash /\ \A p \in Known : p # op.page => acked'[p] = acked[p]
  <2>1. op.page \in Known
    BY <1>1, <1>2 DEF OpInv, UpdateInv
  <2>2. QED
    BY <1>2, <2>1 DEF Known
<1>6. TypeOK'
  <2>1. QueueTypeOK'
    BY <1>2, QueueSame DEF TypeOK
  <2>2. DOMAIN acked' \subseteq Pages /\ cut' \subseteq Pages
    BY <1>2, <1>4, <1>5 DEF Known
  <2>3. QED
    BY <1>2, <1>3, <2>1, <2>2, ReturnType DEF TypeOK, DiskTypeOK
<1>7. HashesShown'
  <2>1. SUFFICES ASSUME NEW x \in 1 .. hdr.rno, LeafAt(file, hdr.rno, x), x < FirstOpen(hdr),
                        file[x].pn \notin cut'
                 PROVE  file[x].h = acked'[file[x].pn]
    BY <1>3 DEF HashesShown, FirstOpen
  <2>2. file[x].pn \in Known
    BY <1>1, <2>1 DEF Sound, Holds, PageRow
  <2>3. CASE file[x].pn = op.page
    <3>1. /\ op.page \in Known /\ ret \in 1 .. hdr.rno
          /\ LeafAt(file, hdr.rno, ret) /\ file[ret].pn = op.page /\ file[ret].h = op.hash
      BY <1>1, <1>2 DEF OpInv, UpdateInv
    <3>2. x = ret
      BY <1>1, <1>4, <2>1, <2>3, <3>1, LeafOfPage DEF Sound
    <3>3. QED
      BY <1>5, <2>3, <3>1, <3>2
  <2>4. CASE file[x].pn # op.page
    <3>1. file[x].pn \notin cut \cup Busy
      BY <1>2, <2>1, <2>4 DEF Busy
    <3>2. file[x].h = acked[file[x].pn]
      BY <1>1, <2>1, <3>1 DEF Sound, HashesShown
    <3>3. QED
      BY <1>5, <2>2, <2>4, <3>2
  <2>5. QED
    BY <2>3, <2>4
<1>8. Sound(lo)'
  BY <1>1, <1>3, <1>5, <1>7 DEF Sound
<1>9. OpInv(lo)'
  <2>1. stage = "idle" /\ cbd = 0 /\ hlev = NoPad
    BY <1>1, <1>2 DEF OpInv, AtRest
  <2>2. QED
    BY <1>2, <1>3, <2>1, IdleInv, ReturnType
<1>10. Offsets'
  BY <1>1, <1>3 DEF Offsets
<1>11. QED
  BY <1>6, <1>8, <1>9, <1>10 DEF IInvAt, OpInv

(* A step that writes a hash.                                              *)
Rewritten(f, g, p, v) == g = [f EXCEPT ![p] = [f[p] EXCEPT !.h = v]]

LEMMA HashWrite ==
    ASSUME NEW f \in [Pos -> Block], NEW g, NEW p \in Pos, NEW v \in Hash, Rewritten(f, g, p, v)
    PROVE  /\ g \in [Pos -> Block] /\ g[p].h = v
           /\ \A x \in Pos : SameShape(f, g, x) /\ g[x].pos = f[x].pos /\ g[x].rsvd = f[x].rsvd
           /\ \A x \in Pos : x # p => g[x] = f[x]
<1> DEFINE b == [f[p] EXCEPT !.h = v]
<1>1. /\ b \in Block /\ b.h = v /\ b.pos = f[p].pos /\ b.rsvd = f[p].rsvd /\ b.lvl = f[p].lvl
      /\ b.lcos = f[p].lcos /\ b.rcos = f[p].rcos /\ b.pn = f[p].pn /\ b.isn = f[p].isn
  BY BlockTypes DEF Block
<1> HIDE DEF b
<1>2. g = [f EXCEPT ![p] = b]
  BY DEF Rewritten, b
<1>3. g \in [Pos -> Block] /\ g[p] = b /\ \A x \in Pos : x # p => g[x] = f[x]
  BY <1>1, <1>2
<1>4. ASSUME NEW x \in Pos PROVE SameShape(f, g, x) /\ g[x].pos = f[x].pos /\ g[x].rsvd = f[x].rsvd
  <2>1. CASE x = p
    BY <1>1, <1>3, <2>1 DEF SameShape
  <2>2. CASE x # p
    BY <1>3, <2>2 DEF SameShape
  <2>3. QED
    BY <2>1, <2>2
<1>5. QED
  BY <1>1, <1>3, <1>4

LEMMA UpdateLeafInv ==
    ASSUME TypeOK, NEW lo, IInvAt(lo), UpdateLeaf
    PROVE  TypeOK' /\ IInvAt(lo)'
<1>1. Sound(lo) /\ OpInv(lo) /\ Offsets
  BY InvParts
<1>2. /\ pc = "search" /\ ~IsInterior(file, cur) /\ Read(file, cur).pn = op.page /\ ret # NoPos
      /\ file' = [file EXCEPT ![ret].h = op.hash] /\ cur' = ret /\ pc' = "path"
      /\ UNCHANGED <<hdr, op, ret, queueVars, storeVars>>
  BY DEF UpdateLeaf, Found, AtLeaf
<1>3. UNCHANGED <<hdr, op, ret, acked, cut, slot, stage, cbd, hlev, glob>>
  BY <1>2 DEF queueVars, storeVars
<1>4. /\ file \in [Pos -> Block] /\ hdr \in Header /\ hdr.rno \in Nat /\ op.hash \in Hash
      /\ 1 .. hdr.rno \subseteq Pos /\ ret \in 0 .. MaxPos /\ op.page \in Nat
  BY <1>1, TypeFacts, FirstOpenType DEF Sound
<1>5. /\ op.kind = "update" /\ op.page \in Known /\ cur \in 1 .. hdr.rno /\ ret = cur
  BY <1>1, <1>2 DEF OpInv, SearchInv
<1>6. file[cur].lvl = 0 /\ file[cur].pn = op.page /\ LeafAt(file, hdr.rno, cur)
  <2>1. Read(file, cur) = file[cur] /\ file[cur].lvl \in Nat
    BY <1>4, <1>5, BlockTypes DEF Read
  <2>2. QED
    BY <1>2, <1>5, <2>1 DEF IsInterior, LeafAt
<1>7. cur < FirstOpen(hdr)
  BY <1>1, <1>4, <1>5, <1>6, LeafOfPage DEF Sound
<1>8. Rewritten(file, file', cur, op.hash) /\ cur \in Pos
  BY <1>2, <1>4, <1>5 DEF Rewritten
<1>9. /\ file' \in [Pos -> Block] /\ file'[cur].h = op.hash
      /\ \A x \in Pos : SameShape(file, file', x) /\ file'[x].pos = file[x].pos
                        /\ file'[x].rsvd = file[x].rsvd
      /\ \A x \in Pos : x # cur => file'[x] = file[x]
  <2> DEFINE v == op.hash
  <2>1. v \in Hash /\ Rewritten(file, file', cur, v)
    BY <1>4, <1>8
  <2> HIDE DEF v
  <2>2. /\ file' \in [Pos -> Block] /\ file'[cur].h = v
        /\ \A x \in Pos : SameShape(file, file', x) /\ file'[x].pos = file[x].pos
                          /\ file'[x].rsvd = file[x].rsvd
        /\ \A x \in Pos : x # cur => file'[x] = file[x]
    BY <1>4, <1>8, <2>1, HashWrite
  <2>3. QED
    BY <2>2 DEF v
<1>10. TypeOK'
  <2>1. QueueTypeOK'
    BY <1>2, QueueSame DEF TypeOK
  <2>2. cur' \in Int
    BY <1>2, <1>4
  <2>3. QED
    BY <1>2, <1>3, <1>9, <2>1, <2>2 DEF TypeOK, DiskTypeOK
<1>11. Sound(lo)'
  <2>1. SameButHashes(file, file', hdr.rno)
    BY <1>4, <1>9 DEF SameButHashes
  <2>2. \A x \in 1 .. hdr.rno : file[x].pn \notin Busy' => file'[x].h = file[x].h
    BY <1>2, <1>3, <1>4, <1>6, <1>9 DEF Busy
  <2>3. QED
    BY <1>1, <1>2, <1>3, <2>1, <2>2, SoundFrame DEF Busy
<1>12. UpdateInv'
  <2>1. file'[cur].lvl = 0 /\ file'[cur].pn = op.page
    BY <1>6, <1>8, <1>9 DEF SameShape
  <2>2. QED
    BY <1>2, <1>3, <1>5, <1>7, <1>9, <2>1 DEF UpdateInv, Known, LeafAt, FirstOpen
<1>13. OpInv(lo)'
  BY <1>1, <1>2, <1>3, <1>4, <1>5, <1>12 DEF OpInv, SearchInv, InsertInv, SepsInv, NextInv, ClimbInv,
       ExtendInv, ScanInv, AtRest, Inserting
<1>14. Offsets'
  BY <1>1, <1>9 DEF Offsets
<1>15. QED
  BY <1>10, <1>11, <1>13, <1>14 DEF IInvAt, OpInv

LEMMA ClimbStepInv ==
    ASSUME TypeOK, NEW lo, IInvAt(lo), Climb
    PROVE  TypeOK' /\ IInvAt(lo)'
<1>1. Sound(lo) /\ OpInv(lo) /\ Offsets
  BY InvParts
<1>2. /\ pc = "path" /\ Climbs(file, cur) /\ cur' = Parent(file, cur)
      /\ file' = [file EXCEPT ![cur'] = Rehashed(file, cur')]
      /\ UNCHANGED <<hdr, pc, op, ret, queueVars, storeVars>>
  BY DEF Climb, PathStep
<1>3. UNCHANGED <<hdr, pc, op, ret, acked, cut, slot, stage, cbd, hlev, glob>>
  BY <1>2 DEF queueVars, storeVars
<1>4. /\ file \in [Pos -> Block] /\ hdr \in Header /\ hdr.rno \in Nat
      /\ 1 .. hdr.rno \subseteq Pos /\ FirstOpen(hdr) \in 1 .. hdr.rno + 1 /\ hdr.rno \in Pos
      /\ (hdr.fslo # NoPos => hdr.fslo \in 1 .. hdr.rno - 1)
  BY <1>1, TypeFacts, FirstOpenType DEF Sound
<1>5. cur \in Int /\ cur >= 1
  BY <1>1, <1>2 DEF OpInv, ClimbInv
<1>6. cur \in Pos /\ file[cur].pos \in Nat /\ file[cur].pos > 0 /\ cur' = cur + file[cur].pos
  <2>1. cur \in Pos
    BY <1>2, <1>5 DEF Climbs, Read, ZeroBlock
  <2>2. Read(file, cur) = file[cur] /\ file[cur].pos \in Nat
    BY <1>1, <2>1 DEF Read, Offsets
  <2>3. QED
    BY <1>2, <2>1, <2>2 DEF Climbs, Parent
<1>7. cur' \in Int /\ cur' >= 1
  BY <1>5, <1>6
<1>8. cur' \in 1 .. hdr.rno => file[cur'].lvl > 0
  <2>1. SUFFICES ASSUME cur' \in 1 .. hdr.rno PROVE file[cur'].lvl > 0
    OBVIOUS
  <2>2. cur \in 1 .. hdr.rno /\ cur < hdr.rno
    BY <1>4, <1>5, <1>6, <2>1
  <2>3. UpAt(file, hdr.rno, cur)
    BY <1>1, <2>2 DEF Sound, Holds, FileTree
  <2>4. QED
    BY <1>6, <2>2, <2>3 DEF UpAt
<1>9. /\ file' \in [Pos -> Block]
      /\ \A x \in Pos : SameShape(file, file', x) /\ file'[x].pos = file[x].pos
                        /\ file'[x].rsvd = file[x].rsvd
      /\ \A x \in 1 .. hdr.rno : file[x].lvl = 0 => file'[x] = file[x]
  <2>1. CASE cur' \in Pos
    <3> DEFINE v == ChildrenHash(file, cur')
    <3>1. v \in Hash
      <4>1. NullHash \in Hash /\ ZeroBlock.h = NullHash
        BY DEF ZeroBlock, NullHash, Hash, Byte
      <4>2. ASSUME NEW x PROVE Read(file, x).h \in Hash
        <5>1. x \in Pos => file[x].h \in Hash
          BY <1>4, BlockTypes
        <5>2. QED
          BY <4>1, <5>1 DEF Read
      <4>3. QED
        BY <4>2, CombineType DEF ChildrenHash
    <3>2. Rewritten(file, file', cur', v)
      BY <1>2, <2>1 DEF Rewritten, Rehashed, Read
    <3> HIDE DEF v
    <3>3. /\ file' \in [Pos -> Block]
          /\ \A x \in Pos : SameShape(file, file', x) /\ file'[x].pos = file[x].pos
                            /\ file'[x].rsvd = file[x].rsvd
          /\ \A x \in Pos : x # cur' => file'[x] = file[x]
      BY <1>4, <2>1, <3>1, <3>2, HashWrite
    <3>4. QED
      BY <1>4, <1>8, <3>3
  <2>2. CASE cur' \notin Pos
    <3>1. file' = file
      BY <1>2, <1>4, <2>2
    <3>2. QED
      BY <1>4, <3>1 DEF SameShape
  <2>3. QED
    BY <2>1, <2>2
<1>10. TypeOK'
  <2>1. QueueTypeOK'
    BY <1>2, QueueSame DEF TypeOK
  <2>2. QED
    BY <1>3, <1>7, <1>9, <2>1 DEF TypeOK, DiskTypeOK
<1>11. Sound(lo)'
  <2>1. SameButHashes(file, file', hdr.rno)
    BY <1>4, <1>9 DEF SameButHashes
  <2>2. \A x \in 1 .. hdr.rno : file[x].lvl = 0 => file'[x].h = file[x].h
    BY <1>9
  <2>3. QED
    BY <1>1, <1>2, <1>3, <2>1, <2>2, SoundFrame DEF Busy
<1>12. UpdateInv'
  BY <1>1, <1>2, <1>3, <1>9 DEF OpInv, UpdateInv, Known, LeafAt, FirstOpen
<1>13. InsertInv'
  <2>1. SUFFICES ASSUME Inserting' PROVE InsertInv'
    BY DEF InsertInv
  <2>2. Inserting
    BY <1>2, <1>3, <2>1 DEF Inserting
  <2>3. /\ Fresh /\ glob.rno = hdr.rno /\ slot = hdr.fslo /\ slot # NoPos
        /\ pc # "fill" => file[slot].pn = op.page /\ file[slot].h = op.hash /\ ~file[slot].isn
    BY <1>1, <2>2 DEF OpInv, InsertInv
  <2>4. slot \in 1 .. hdr.rno /\ file[slot].lvl = 0
    BY <1>1, <1>4, <2>3 DEF Sound, Holds, OpenAt
  <2>5. file'[slot] = file[slot]
    BY <1>9, <2>4
  <2>6. QED
    BY <1>2, <1>3, <2>3, <2>5 DEF InsertInv, Fresh, Known
<1>14. OpInv(lo)'
  BY <1>1, <1>2, <1>3, <1>7, <1>12, <1>13 DEF OpInv, SearchInv, SepsInv, NextInv, ClimbInv,
       ExtendInv, ScanInv, AtRest
<1>15. Offsets'
  BY <1>1, <1>9 DEF Offsets
<1>16. QED
  BY <1>10, <1>11, <1>14, <1>15 DEF IInvAt, OpInv

LEMMA CrashInv ==
    ASSUME TypeOK, NEW lo, IInvAt(lo), Crash
    PROVE  TypeOK' /\ IInvAt(lo)'
<1> DEFINE left == IF pc = "search" THEN {} ELSE {op.page}
<1>1. Sound(lo) /\ OpInv(lo) /\ Offsets
  BY InvParts
<1>2. /\ pc # "idle" /\ cut' = cut \cup left /\ Return
      /\ stage' = "idle" /\ q' = <<>> /\ at' = 0 /\ cbd' = 0 /\ hlev' = NoPad /\ wpos' = 1
      /\ glob' = NoGlobals
      /\ UNCHANGED <<file, hdr, acked>>
  BY DEF Crash, Dies
<1>3. left = Busy
  BY <1>2 DEF Busy
<1>4. Known \subseteq Pages /\ cut \subseteq Pages
  BY TypeFacts
<1>5. left \subseteq Pages
  <2>1. pc # "search" => op.page \in Known \/ Fresh
    BY <1>1, <1>2 DEF OpInv, UpdateInv, InsertInv, Inserting, ExtendInv, ScanInv, TypeOK
  <2>2. QED
    BY <1>4, <2>1 DEF Fresh
<1>6. TypeOK'
  <2>1. QueueTypeOK'
    BY <1>2, DiskAssumption DEF QueueTypeOK, NoPad, NoGlobals, Globals, NoPos
  <2>2. DOMAIN acked' \subseteq Pages /\ cut' \subseteq Pages
    BY <1>2, <1>4, <1>5 DEF Known
  <2>3. QED
    BY <1>2, <2>1, <2>2, ReturnType DEF TypeOK, DiskTypeOK
<1>7. Known' = Known /\ cut' = cut \cup Busy /\ Busy' = {} /\ FirstOpen(hdr)' = FirstOpen(hdr)
  BY <1>2, <1>3, ReturnType DEF Known, Busy, FirstOpen
<1>8. Sound(lo)'
  BY <1>1, <1>2, <1>7 DEF Sound, HashesShown
<1>9. OpInv(lo)'
  BY <1>2, IdleInv, ReturnType
<1>10. Offsets'
  BY <1>1, <1>2 DEF Offsets
<1>11. QED
  BY <1>6, <1>8, <1>9, <1>10 DEF IInvAt, OpInv

-----------------------------------------------------------------------------
(* The row of a queue that follows a file.                                 *)
RowOf(f, w, s) == [p \in 1 .. w - 1 + Len(s) |-> IF p < w THEN f[p] ELSE s[p - w + 1]]

LEMMA RowNow == Row = RowOf(file, wpos, q) /\ StreamEnd = wpos - 1 + Len(q)
BY DEF Row, RowOf, Stream, StreamEnd

LEMMA RowNext == Row' = RowOf(file', wpos', q') /\ StreamEnd' = wpos' - 1 + Len(q')
BY DEF Row, RowOf, Stream, StreamEnd

(* A tree in a file is a row with one peak.                                *)
LEMMA GrownStart ==
    ASSUME NEW f \in [Pos -> Block], NEW lo, NEW n, FileTree(f, lo, n), NEW A
    PROVE  /\ Grown(f, lo, n, n, A)
           /\ \A p \in 1 .. n - 1 : ~Peak(lo, n, p)
           /\ Peak(lo, n, n)
<1>1. n \in Nat /\ n \in 1 .. n /\ 1 .. n \subseteq Pos /\ lo[n] = 1
  BY PosFacts DEF FileTree
<1>2. ASSUME NEW p \in 1 .. n
      PROVE  TreeAt(f, lo, p) /\ f[p].lvl \in Nat /\ f[p].lcos \in Int /\ f[p].pos \in Nat
  BY <1>1, BlockTypes DEF FileTree, UpAt
<1>3. Peak(lo, n, n)
  BY <1>1 DEF Peak
<1>4. ASSUME NEW p \in 1 .. n - 1 PROVE ~Peak(lo, n, p)
  <2>1. n \in p + 1 .. n /\ ~(lo[n] > p)
    BY <1>1
  <2>2. QED
    BY <2>1 DEF Peak
<1>5. \A p \in n .. n : p = n
  BY <1>1
<1>6. n + 1 .. n = {} /\ ~(n > n)
  BY <1>1
<1>7. Grown(f, lo, n, n, A)
  BY <1>1, <1>2, <1>3, <1>5, <1>6 DEF Grown, TreeRow, RowCombines
<1>8. QED
  BY <1>3, <1>4, <1>7

LEMMA NodeOfFacts ==
    ASSUME NEW f \in [Pos -> Block], NEW p \in Pos
    PROVE  LET d == NodeOf(f, p)
               b == f[p]
           IN  /\ d \in QNode
               /\ d.lvl = b.lvl /\ d.lcos = b.lcos /\ d.rcos = b.rcos /\ d.pos = b.pos
               /\ d.pn = b.pn /\ d.h = b.h /\ d.isn = b.isn
               /\ d.rm = Read(f, Rightmost(f, p)).pn
<1>1. Read(f, p) = f[p] /\ f[p] \in Block
  BY BlockTypes DEF Read
<1>2. Read(f, Rightmost(f, p)).pn \in Nat
  BY BlockTypes DEF Read, ZeroBlock
<1>3. QED
  BY <1>1, <1>2, DiskAssumption DEF NodeOf, MakeQNode, QNode, Block

(* Its last leaf has the greatest page of a file without padding.          *)
LEMMA LastPage ==
    ASSUME NEW f \in [Pos -> Block], NEW lo, NEW h \in Header, NEW A, Holds(f, lo, h, A),
           h.fslo = NoPos, A \subseteq Nat
    PROVE  LET b == NodeOf(f, h.rno) IN \A p \in A : p <= RightmostPage(b)
<1> DEFINE n == h.rno
           y == Rightmost(f, n)
<1>1. n \in Nat /\ 1 .. n \subseteq Pos /\ n \in 1 .. n /\ FirstOpen(h) = n + 1 /\ n \in Pos
  BY FirstOpenType
<1>2. FileTree(f, lo, n)
  BY DEF Holds
<1>3. y \in lo[n] .. n /\ f[y].lvl = 0 /\ \A x \in y + 1 .. n : f[x].lvl # 0
  BY <1>1, <1>2, RightmostInTree
<1>4. lo[n] = 1 /\ TreeAt(f, lo, n)
  BY <1>1, <1>2 DEF FileTree
<1>5. RightmostPage(NodeOf(f, n)) = f[y].pn
  <2>1. Read(f, y).pn = f[y].pn
    BY <1>1, <1>3, <1>4 DEF Read
  <2>2. f[n].lvl = 0 => y = n
    BY <1>1, <1>3, <1>4 DEF TreeAt
  <2>3. NodeOf(f, n).lvl = f[n].lvl /\ NodeOf(f, n).pn = f[n].pn /\ NodeOf(f, n).rm = Read(f, y).pn
    BY <1>1, NodeOfFacts
  <2>4. QED
    BY <2>1, <2>2, <2>3 DEF RightmostPage
<1> HIDE DEF y
<1>6. ASSUME NEW p \in A PROVE p <= f[y].pn
  <2>1. PICK x \in 1 .. n : LeafAt(f, n, x) /\ f[x].pn = p
    BY DEF Holds, PageRow
  <2>2. x <= y
    BY <1>1, <1>3, <1>4, <2>1 DEF LeafAt
  <2>3. LeafAt(f, n, y) /\ y \in 1 .. n /\ y < FirstOpen(h)
    BY <1>1, <1>3, <1>4 DEF LeafAt
  <2>4. x < y => f[x].pn < f[y].pn
    BY <2>1, <2>3 DEF Holds, PageRow
  <2>5. f[x].pn \in Nat /\ f[y].pn \in Nat
    BY <1>1, <2>3, BlockTypes
  <2>6. QED
    BY <1>1, <2>1, <2>2, <2>3, <2>4, <2>5
<1>7. QED
  BY <1>5, <1>6

(* The extension starts with the old root alone in the queue.              *)
LEMMA ExtendBegins ==
    ASSUME file \in [Pos -> Block], hdr \in Header, NEW lo, FileTree(file, lo, hdr.rno),
           NEW A, RightmostPage(NodeOf(file, hdr.rno)) \in A,
           q' = <<NodeOf(file, hdr.rno)>>, wpos' = hdr.rno, stage' = "idle", cbd' = 0,
           UNCHANGED <<file, hdr>>
    PROVE  RowInv(lo, A)' /\ ExtendStage(lo, A)'
<1> DEFINE n == hdr.rno
           d == NodeOf(file, n)
<1>1. n \in Nat /\ n \in Pos /\ n \in 1 .. MaxPos /\ n \in 1 .. n
  BY TypeFacts DEF FileTree, Pos, Header
<1>2. /\ d \in QNode
      /\ d.lvl = file[n].lvl /\ d.lcos = file[n].lcos /\ d.rcos = file[n].rcos
      /\ d.pos = file[n].pos
      /\ d.pn = file[n].pn /\ d.h = file[n].h /\ d.isn = file[n].isn
  BY <1>1, NodeOfFacts
<1> HIDE DEF d
<1>3. Len(q') = 1 /\ q'[1] = d /\ q' # <<>> /\ q' = <<d>>
  BY DEF d
<1>4. StreamEnd' = n
  BY <1>1, <1>3, RowNext
<1>5. Row' = RowOf(file, n, q')
  BY RowNext
<1>6. Alike(file, Row', n)
  <2>1. ASSUME NEW p \in 1 .. n
        PROVE  SameShape(file, Row', p) /\ Row'[p].pos = file[p].pos /\ Row'[p].h = file[p].h
    <3>1. Row'[p] = IF p < n THEN file[p] ELSE q'[p - n + 1]
      BY <1>1, <1>3, <1>5 DEF RowOf
    <3>2. CASE p < n
      BY <3>1, <3>2 DEF SameShape
    <3>3. CASE p = n
      <4>1. Row'[p] = d
        BY <1>1, <1>3, <3>1, <3>3
      <4>2. QED
        BY <1>2, <3>3, <4>1 DEF SameShape
    <3>4. QED
      BY <3>2, <3>3, <1>1
  <2>2. QED
    BY <2>1 DEF Alike
<1>7. Grown(Row', lo, n, n, A) /\ \A p \in 1 .. n - 1 : ~Peak(lo, n, p)
  <2>1. Grown(file, lo, n, n, A)
    BY <1>1, GrownStart
  <2>2. \A p \in 1 .. n - 1 : ~Peak(lo, n, p)
    BY <1>1, GrownStart
  <2>3. QED
    BY <1>6, <2>1, <2>2, GrownAlike
<1>8. \A p \in 1 .. n - 1 : file[p].rsvd = "R"
  BY DEF FileTree
<1>9. OldRoot(A)'
  BY <1>2, <1>3 DEF OldRoot, d
<1>10. PaddingQueued'
  BY <1>1, <1>3 DEF PaddingQueued
<1>11. RowInv(lo, A)'
  <2>1. wpos' \in n .. MaxPos + 1
    BY <1>1, DiskAssumption
  <2>2. Grown(Row', lo, StreamEnd', hdr.rno, A)
    BY <1>4, <1>7
  <2>3. \A p \in 1 .. wpos' - 1 : ~Peak(lo, StreamEnd', p) /\ file'[p].rsvd = "R"
    BY <1>4, <1>7, <1>8
  <2>4. QED
    BY <1>9, <1>10, <2>1, <2>2, <2>3 DEF RowInv
<1>12. QED
  BY <1>3, <1>11 DEF ExtendStage

LEMMA StartInsertInv ==
    ASSUME TypeOK, NEW lo, IInvAt(lo), NEW args \in Args("insert"), StartInsert(args)
    PROVE  TypeOK' /\ IInvAt(lo)'
<1> DEFINE n == hdr.rno
           d == NodeOf(file, n)
<1>1. Sound(lo) /\ OpInv(lo) /\ Offsets
  BY InvParts
<1>2. /\ pc = "idle" /\ (\A p \in Known : p < args.page) /\ op' = args
      /\ glob' = [glob EXCEPT !.rno = hdr.rno] /\ slot' = hdr.fslo
      /\ IF hdr.fslo # NoPos
         THEN pc' = "fill" /\ UNCHANGED <<q, wpos>>
         ELSE pc' = "extend" /\ q' = <<d>> /\ wpos' = n
      /\ UNCHANGED <<file, hdr, cur, ret, stage, at, cbd, hlev, acked, cut>>
  BY DEF StartInsert, Known
<1>3. /\ file \in [Pos -> Block] /\ hdr \in Header /\ n \in Nat /\ n \in Pos /\ n \in 1 .. MaxPos
      /\ n \in 1 .. n
      /\ (hdr.fslo # NoPos => FirstOpen(hdr) = hdr.fslo /\ hdr.fslo \in 1 .. n - 1)
      /\ hdr.fslo \in 0 .. MaxPos /\ glob \in Globals /\ Known \subseteq Nat
  BY <1>1, TypeFacts, FirstOpenType DEF Sound, Pos, Header
<1>4. /\ args.kind = "insert" /\ args.page \in Nat /\ args.page \in Pages
      /\ args \in [kind : {"none", "insert", "update"}, page : Nat, hash : Hash]
  BY StoreAssumption DEF Args, StoreAssumption
<1>5. Fresh' /\ Known' = Known
  BY <1>2, <1>4 DEF Fresh, Known
<1>6. glob' \in Globals /\ glob'.rno = n
  BY <1>2, <1>3 DEF Globals
<1>7. stage = "idle" /\ cbd = 0 /\ hlev = NoPad
  BY <1>1, <1>2 DEF OpInv, AtRest
<1>8. /\ d \in QNode
      /\ d.lvl = file[n].lvl /\ d.lcos = file[n].lcos /\ d.rcos = file[n].rcos
      /\ d.pos = file[n].pos
      /\ d.pn = file[n].pn /\ d.h = file[n].h /\ d.isn = file[n].isn
  BY <1>3, NodeOfFacts
<1> HIDE DEF d
<1>9. TypeOK'
  <2>1. q' \in Seq(QNode)
    <3>1. CASE hdr.fslo # NoPos
      BY <1>2, <3>1 DEF TypeOK, QueueTypeOK
    <3>2. CASE hdr.fslo = NoPos
      <4>1. q' = <<d>>
        BY <1>2, <3>2
      <4>2. d \in QNode
        BY <1>8
      <4>3. QED
        BY <4>1, <4>2
    <3>3. QED
      BY <3>1, <3>2
  <2>2. wpos' \in Nat /\ at' \in Nat /\ cbd' \in Nat /\ hlev' \in Nat \cup {NoPad}
    BY <1>2, <1>3 DEF TypeOK, QueueTypeOK
  <2>3. QueueTypeOK'
    BY <1>6, <2>1, <2>2 DEF QueueTypeOK
  <2>4. pc' \in {"fill", "extend"} /\ slot' \in {Nowhere} \cup 0 .. MaxPos
    BY <1>2, <1>3
  <2>5. op' \in [kind : {"none", "insert", "update"}, page : Nat, hash : Hash]
    BY <1>2, <1>4
  <2>6. QED
    BY <1>2, <2>3, <2>4, <2>5 DEF TypeOK, DiskTypeOK
<1>10. Sound(lo)'
  BY <1>1, <1>2, SoundQuiet DEF Busy
<1>11. Offsets'
  BY <1>1, <1>2 DEF Offsets
<1>12. CASE hdr.fslo # NoPos
  <2>1. InsertInv'
    BY <1>2, <1>5, <1>6, <1>12 DEF InsertInv
  <2>2. OpInv(lo)'
    BY <1>2, <1>7, <1>12, <2>1 DEF OpInv, SearchInv, UpdateInv, SepsInv, NextInv, ClimbInv,
         ExtendInv, ScanInv, AtRest
  <2>3. QED
    BY <1>9, <1>10, <1>11, <2>2 DEF IInvAt, OpInv
<1>13. CASE hdr.fslo = NoPos
  <2>1. /\ pc' = "extend" /\ q' = <<d>> /\ wpos' = n /\ stage' = "idle" /\ cbd' = 0
        /\ UNCHANGED <<file, hdr>>
    BY <1>2, <1>7, <1>13
  <2>2. PICK A : A = Behind
    OBVIOUS
  <2>3. RightmostPage(d) \in A
    <3>1. \A p \in Known : p <= RightmostPage(d)
      BY <1>1, <1>3, <1>13, LastPage DEF Sound, d
    <3>2. RightmostPage(d) \in Nat
      BY <1>3, NodeOfFacts DEF d, QNode, RightmostPage
    <3>3. QED
      BY <2>2, <3>1, <3>2 DEF Behind
  <2>4. FileTree(file, lo, n)
    BY <1>1 DEF Sound, Holds
  <2>5. RowInv(lo, A)' /\ ExtendStage(lo, A)'
    BY <1>3, <2>1, <2>3, <2>4, ExtendBegins DEF d
  <2>6. ExtendInv(lo)'
    <3>1. Behind' = A
      BY <1>5, <2>2 DEF Behind
    <3>2. RowInv(lo, Behind)' <=> RowInv(lo, A)'
      BY <3>1 DEF RowInv, OldRoot
    <3>3. ExtendStage(lo, Behind)' <=> ExtendStage(lo, A)'
      BY <3>1 DEF ExtendStage, NewTree
    <3>4. QED
      BY <1>5, <1>13, <2>1, <2>5, <3>2, <3>3 DEF ExtendInv
  <2>7. OpInv(lo)'
    BY <2>1, <2>6 DEF OpInv, SearchInv, UpdateInv, InsertInv, SepsInv, NextInv, ClimbInv,
         ScanInv, AtRest, Inserting
  <2>8. QED
    BY <1>9, <1>10, <1>11, <2>7 DEF IInvAt, OpInv
<1>14. QED
  BY <1>12, <1>13

-----------------------------------------------------------------------------
(* A written block whose links are those of the block before.              *)
SameLinks(b, c) ==
    /\ b.lvl = c.lvl /\ b.lcos = c.lcos /\ b.rcos = c.rcos /\ b.pos = c.pos /\ b.rsvd = c.rsvd

Puts(f, g, p, b) == g = [f EXCEPT ![p] = b]

LEMMA LinksKept ==
    ASSUME NEW f \in [Pos -> Block], NEW lo, NEW n, FileTree(f, lo, n), NEW p \in Pos,
           NEW b \in Block, NEW g, Puts(f, g, p, b), SameLinks(b, f[p])
    PROVE  KeepsLinks(f, g, n) /\ g[n].rsvd = f[n].rsvd
<1>1. n \in Nat /\ 1 .. n \subseteq Pos /\ n \in 1 .. n
  BY PosFacts DEF FileTree
<1>2. f[n].pos \in Nat
  BY <1>1 DEF FileTree, UpAt
<1>3. ASSUME NEW x \in Pos PROVE SameLinks(g[x], f[x])
  <2>1. g[x] = IF x = p THEN b ELSE f[x]
    BY DEF Puts
  <2>2. QED
    BY <2>1 DEF SameLinks
<1>4. QED
  BY <1>1, <1>2, <1>3 DEF KeepsLinks, SameLinks

(* What is known while a page is inserted.                                 *)
LEMMA InsertFacts ==
    ASSUME TypeOK, NEW lo, IInvAt(lo), Inserting
    PROVE  /\ file \in [Pos -> Block] /\ hdr \in Header /\ hdr.rno \in Nat /\ hdr.rno \in Pos
           /\ 1 .. hdr.rno \subseteq Pos /\ hdr.rno \in 1 .. hdr.rno
           /\ Holds(file, lo, hdr, Known)
           /\ slot = hdr.fslo /\ slot # NoPos /\ slot \in 1 .. hdr.rno - 1 /\ slot \in 1 .. hdr.rno
           /\ slot \in Pos /\ FirstOpen(hdr) = slot
           /\ file[slot].lvl = 0 /\ lo[slot] = slot /\ file[hdr.rno].rsvd = "root"
           /\ \A p \in slot .. hdr.rno - 1 : file[p].pos > 0
           /\ \A p \in 1 .. hdr.rno - 1 : file[p].rsvd = "R"
           /\ Fresh /\ glob.rno = hdr.rno
<1>1. Sound(lo) /\ OpInv(lo)
  BY InvParts
<1>2. Holds(file, lo, hdr, Known) /\ file \in [Pos -> Block] /\ hdr \in Header
  BY <1>1, TypeFacts DEF Sound
<1>3. Fresh /\ glob.rno = hdr.rno /\ slot = hdr.fslo /\ slot # NoPos
  BY <1>1 DEF OpInv, InsertInv
<1>4. /\ hdr.rno \in Nat /\ hdr.rno \in Pos /\ 1 .. hdr.rno \subseteq Pos /\ hdr.rno \in 1 .. hdr.rno
      /\ slot \in 1 .. hdr.rno - 1 /\ FirstOpen(hdr) = slot
  BY <1>2, <1>3, FirstOpenType
<1>5. OpenAt(file, hdr.rno, slot) /\ FileTree(file, lo, hdr.rno)
  BY <1>2, <1>3 DEF Holds
<1>6. slot \in 1 .. hdr.rno /\ slot \in Pos
  BY <1>4
<1>7. lo[slot] = slot
  BY <1>5, <1>6 DEF FileTree, OpenAt, TreeAt
<1>8. QED
  BY <1>2, <1>3, <1>4, <1>5, <1>6, <1>7 DEF OpenAt, FileTree

LEMMA FillInv ==
    ASSUME TypeOK, NEW lo, IInvAt(lo), Fill
    PROVE  TypeOK' /\ IInvAt(lo)'
<1> DEFINE b == [file[slot] EXCEPT !.pn = op.page, !.h = op.hash, !.isn = FALSE, !.izn = FALSE]
           n == hdr.rno
<1>1. Sound(lo) /\ OpInv(lo) /\ Offsets
  BY InvParts
<1>2. /\ pc = "fill" /\ slot \in Pos
      /\ file' = [file EXCEPT ![slot] = b]
      /\ cur' = slot /\ pc' = "path"
      /\ UNCHANGED <<hdr, op, ret, queueVars, storeVars>>
  BY DEF Fill
<1>3. UNCHANGED <<hdr, op, ret, acked, cut, slot, stage, cbd, hlev, glob>>
  BY <1>2 DEF queueVars, storeVars
<1>4. Inserting
  BY <1>2 DEF Inserting
<1>5. /\ file \in [Pos -> Block] /\ hdr \in Header /\ n \in Nat
      /\ 1 .. n \subseteq Pos /\ n \in 1 .. n
      /\ Holds(file, lo, hdr, Known)
      /\ slot = hdr.fslo /\ slot # NoPos /\ slot \in 1 .. n /\ FirstOpen(hdr) = slot
      /\ file[slot].lvl = 0 /\ Fresh /\ glob.rno = n
  BY <1>4, InsertFacts
<1>6. op.page \in Nat /\ op.hash \in Hash /\ Known \subseteq Nat
  BY TypeFacts
<1>7. /\ b \in Block /\ SameLinks(b, file[slot])
      /\ b.pn = op.page /\ b.h = op.hash /\ b.isn = FALSE /\ b.lvl = 0 /\ b.pos = file[slot].pos
  <2>1. file[slot] \in Block
    BY <1>2, <1>5
  <2>2. QED
    BY <1>5, <1>6, <2>1 DEF Block, SameLinks
<1> HIDE DEF b
<1>8. file' \in [Pos -> Block] /\ file'[slot] = b /\ \A x \in Pos : x # slot => file'[x] = file[x]
  BY <1>2, <1>5, <1>7, WriteFacts
<1>9. TypeOK'
  <2>1. QueueTypeOK'
    BY <1>2, QueueSame DEF TypeOK
  <2>2. cur' \in Int
    BY <1>2 DEF Pos
  <2>3. QED
    BY <1>2, <1>3, <1>8, <2>1, <2>2 DEF TypeOK, DiskTypeOK
<1>10. KeepsLinks(file, file', n) /\ file'[n].rsvd = file[n].rsvd
  <2>1. FileTree(file, lo, n)
    BY <1>5 DEF Holds
  <2>2. Puts(file, file', slot, b)
    BY <1>2 DEF Puts
  <2>3. slot \in Pos /\ b \in Block /\ SameLinks(b, file[slot]) /\ file \in [Pos -> Block]
    BY <1>2, <1>5, <1>7
  <2>4. KeepsLinks(file, file', n)
    BY <2>1, <2>2, <2>3, LinksKept
  <2>5. file'[n].rsvd = file[n].rsvd
    BY <2>1, <2>2, <2>3, LinksKept
  <2>6. QED
    BY <2>4, <2>5
<1>11. KeepsRow(file, file', n, slot, Known)
  <2>1. \A a \in Known : a < file'[slot].pn
    BY <1>5, <1>7, <1>8 DEF Fresh
  <2>2. \A x \in 1 .. n : x # slot => file'[x] = file[x]
    BY <1>5, <1>8
  <2>3. QED
    BY <2>1, <2>2 DEF KeepsRow
<1>12. ASSUME NEW a \in 1 .. n, NEW x \in 1 .. n, LeafAt(file, n, x), x < slot
       PROVE  Sorts(file', lo, a, x)
  <2>1. Sorts(file, lo, a, x)
    BY <1>5, <1>12 DEF Holds, Ordered
  <2>2. file'[x] = file[x]
    BY <1>5, <1>8, <1>12
  <2>3. CASE a = slot
    BY <1>7, <1>8, <2>3 DEF Sorts
  <2>4. CASE a # slot
    <3>1. file'[a] = file[a]
      BY <1>5, <1>8, <2>4
    <3>2. QED
      BY <2>1, <2>2, <3>1 DEF Sorts
  <2>5. QED
    BY <2>3, <2>4
<1>13. Holds(file', lo, hdr, Known)
  BY <1>5, <1>10, <1>11, <1>12, HoldsFrame
<1>14. Sound(lo)'
  <2>1. Known' = Known /\ FirstOpen(hdr)' = slot /\ Busy' = Busy
    BY <1>2, <1>3, <1>5 DEF Known, Busy, FirstOpen
  <2>2. SUFFICES ASSUME NEW x \in 1 .. n, LeafAt(file', n, x), x < slot,
                        file'[x].pn \notin cut \cup Busy
                 PROVE  file'[x].h = acked[file'[x].pn]
    BY <1>3, <1>13, <2>1 DEF Sound, HashesShown
  <2>3. file'[x] = file[x]
    BY <1>5, <1>8, <2>2
  <2>4. QED
    BY <1>1, <1>5, <2>2, <2>3 DEF Sound, HashesShown, LeafAt
<1>15. InsertInv'
  BY <1>2, <1>3, <1>5, <1>7, <1>8 DEF InsertInv, Fresh, Known
<1>16. OpInv(lo)'
  <2>1. slot >= 1 /\ slot \in Int /\ op.kind = "insert"
    BY <1>5 DEF Fresh
  <2>2. stage = "idle" /\ cbd = 0 /\ hlev = NoPad
    BY <1>1, <1>2 DEF OpInv, AtRest
  <2>3. QED
    BY <1>2, <1>3, <1>15, <2>1, <2>2 DEF OpInv, SearchInv, UpdateInv, SepsInv, NextInv, ClimbInv,
         ExtendInv, ScanInv, AtRest
<1>17. Offsets'
  BY <1>1, <1>2, <1>7, <1>8 DEF Offsets
<1>18. QED
  BY <1>9, <1>14, <1>16, <1>17 DEF IInvAt, OpInv

LEMMA PathDoneInv ==
    ASSUME TypeOK, NEW lo, IInvAt(lo), PathDone
    PROVE  TypeOK' /\ IInvAt(lo)'
<1>1. Sound(lo) /\ OpInv(lo) /\ Offsets
  BY InvParts
<1>2. /\ pc = "path" /\ op.kind = "insert" /\ pc' = "seps" /\ cur' = slot
      /\ UNCHANGED <<file, hdr, op, ret, queueVars, storeVars>>
  BY DEF PathDone, PathEnded
<1>3. UNCHANGED <<file, hdr, op, ret, acked, cut, slot, stage, cbd, hlev, glob>>
  BY <1>2 DEF queueVars, storeVars
<1>4. Inserting
  BY <1>2 DEF Inserting
<1>5. hdr.rno \in Nat /\ slot \in 1 .. hdr.rno - 1 /\ lo[slot] = slot
  BY <1>4, InsertFacts
<1>6. TypeOK'
  <2>1. QueueTypeOK'
    BY <1>2, QueueSame DEF TypeOK
  <2>2. cur' \in Int
    BY <1>2, <1>5
  <2>3. QED
    BY <1>2, <1>3, <2>1, <2>2 DEF TypeOK, DiskTypeOK
<1>7. Sound(lo)'
  BY <1>1, <1>2, <1>3, SoundQuiet DEF Busy
<1>8. InsertInv'
  BY <1>1, <1>2, <1>3, <1>4 DEF OpInv, InsertInv, Fresh, Known
<1>9. SepsInv(lo)'
  <2>1. slot + 1 .. slot = {} /\ slot \in slot .. hdr.rno /\ slot < hdr.rno
    BY <1>5
  <2>2. QED
    BY <1>2, <1>3, <1>5, <2>1 DEF SepsInv
<1>10. OpInv(lo)'
  BY <1>1, <1>2, <1>3, <1>8, <1>9 DEF OpInv, SearchInv, UpdateInv, NextInv, ClimbInv,
       ExtendInv, ScanInv, AtRest
<1>11. Offsets'
  BY <1>1, <1>3 DEF Offsets
<1>12. QED
  BY <1>6, <1>7, <1>10, <1>11 DEF IInvAt, OpInv

(* The parent of a block between the open leaf and the root is above the   *)
(* leaf, too, and so is no block between the two.                          *)
LEMMA ParentAbove ==
    ASSUME NEW f \in [Pos -> Block], NEW lo, NEW n, FileTree(f, lo, n),
           NEW s \in 1 .. n, NEW y \in s .. n - 1, lo[y] <= s, f[y].pos > 0
    PROVE  LET u == Parent(f, y) IN
           /\ u \in y + 1 .. n /\ f[u].lvl > 0 /\ lo[u] <= s
           /\ \A a \in Int : y < a /\ a < u => lo[a] > s
<1> DEFINE u == Parent(f, y)
<1>1. n \in Nat /\ 1 .. n \subseteq Pos /\ y \in 1 .. n /\ y < n /\ s <= y
  BY PosFacts DEF FileTree
<1>2. Read(f, y) = f[y] /\ UpAt(f, n, y)
  BY <1>1 DEF Read, FileTree
<1>3. u = y + f[y].pos /\ f[y].pos \in Nat
  BY <1>2 DEF UpAt, Parent
<1> HIDE DEF u
<1>4. u <= n /\ f[u].lvl > 0 /\ y \in {u + f[u].lcos, u - 1} /\ u \in 1 .. n /\ u \in y + 1 .. n
  BY <1>1, <1>2, <1>3 DEF UpAt
<1>5. TreeAt(f, lo, u) /\ TreeAt(f, lo, y)
  BY <1>1, <1>4 DEF FileTree
<1> DEFINE l == u + f[u].lcos
<1>6. l \in 1 .. u - 2 /\ lo[u] = lo[l] /\ lo[u - 1] = l + 1 /\ lo[u] \in 1 .. u /\ lo[y] \in 1 .. y
  BY <1>4, <1>5 DEF TreeAt
<1>7. y = l \/ y = u - 1
  BY <1>4
<1> HIDE DEF l
<1>8. lo[l] \in 1 .. l
  <2>1. TreeAt(f, lo, l)
    BY <1>1, <1>4, <1>6 DEF FileTree
  <2>2. QED
    BY <2>1 DEF TreeAt
<1>9. lo[u] <= s
  BY <1>1, <1>6, <1>7, <1>8
<1>10. ASSUME NEW a \in Int, y < a, a < u PROVE lo[a] > s
  <2>1. y = l /\ a \in lo[u - 1] .. u - 1 /\ u - 1 \in 1 .. n
    BY <1>1, <1>4, <1>6, <1>7, <1>10
  <2>2. TreeRow(f, lo, n)
    BY <1>1, GrownStart DEF Grown
  <2>3. lo[a] >= lo[u - 1]
    BY <1>1, <2>1, <2>2, BelowInTree
  <2>4. TreeAt(f, lo, a)
    BY <1>1, <1>4, <2>1, <1>6 DEF FileTree
  <2>5. QED
    BY <1>1, <1>6, <2>1, <2>3, <2>4 DEF TreeAt
<1>11. QED
  BY <1>4, <1>9, <1>10 DEF u

LEMMA SepsBeginInv ==
    ASSUME TypeOK, NEW lo, IInvAt(lo), SepsBegin
    PROVE  TypeOK' /\ IInvAt(lo)'
<1>1. Sound(lo) /\ OpInv(lo) /\ Offsets
  BY InvParts
<1>2. /\ pc = "seps" /\ pc' = "sepParent" /\ cur' = Parent(file, cur)
      /\ UNCHANGED <<file, hdr, op, ret, queueVars, storeVars>>
  BY DEF SepsBegin
<1>3. UNCHANGED <<hdr, op, ret, acked, cut, slot, stage, cbd, hlev, glob>>
  BY <1>2 DEF queueVars, storeVars
<1>4. Inserting
  BY <1>2 DEF Inserting
<1>5. /\ file \in [Pos -> Block] /\ FileTree(file, lo, hdr.rno) /\ slot \in 1 .. hdr.rno
      /\ \A p \in slot .. hdr.rno - 1 : file[p].pos > 0
      /\ hdr.rno \in Nat
  BY <1>4, InsertFacts DEF Holds
<1>6. /\ cur \in slot .. hdr.rno - 1 /\ lo[cur] <= slot
      /\ \A a \in slot + 1 .. cur : Sorts(file, lo, a, slot)
  <2>1. /\ cur \in slot .. hdr.rno /\ lo[cur] <= slot /\ cur < hdr.rno
        /\ \A a \in slot + 1 .. cur : Sorts(file, lo, a, slot)
    BY <1>1, <1>2 DEF OpInv, SepsInv
  <2>2. QED
    BY <1>5, <2>1
<1>7. /\ cur' \in cur + 1 .. hdr.rno /\ lo[cur'] <= slot
      /\ \A a \in Int : cur < a /\ a < cur' => lo[a] > slot
  <2>1. file[cur].pos > 0
    BY <1>5, <1>6
  <2>2. QED
    BY <1>2, <1>5, <1>6, <2>1, ParentAbove
<1>8. cur' \in Int /\ cur' \in slot .. hdr.rno /\ cur' > slot
  BY <1>5, <1>6, <1>7
<1>9. /\ slot \in Int /\ cur \in Int /\ hdr.rno \in Int
      /\ slot >= 1 /\ slot <= cur /\ cur < cur' /\ cur' <= hdr.rno
  BY <1>5, <1>6, <1>7
<1>10. TypeOK'
  <2>1. QueueTypeOK'
    BY <1>2, QueueSame DEF TypeOK
  <2>2. QED
    BY <1>2, <1>3, <1>8, <2>1 DEF TypeOK, DiskTypeOK
<1>11. Sound(lo)'
  BY <1>1, <1>2, <1>3, SoundQuiet DEF Busy
<1>12. InsertInv'
  BY <1>1, <1>2, <1>3, <1>4 DEF OpInv, InsertInv, Fresh, Known
<1>13. ASSUME NEW a \in slot + 1 .. cur', a < cur' PROVE Sorts(file, lo, a, slot)
  <2>1. a \in Int /\ a >= slot + 1 /\ a < cur'
    BY <1>9, <1>8, <1>13
  <2>2. a <= cur \/ a > cur
    BY <1>9, <2>1
  <2>3. CASE a <= cur
    <3>1. a \in slot + 1 .. cur
      BY <1>9, <2>1, <2>3
    <3>2. QED
      BY <1>6, <3>1
  <2>4. CASE a > cur
    <3>1. lo[a] > slot
      BY <1>7, <2>1, <2>4
    <3>2. a \in 1 .. hdr.rno
      BY <1>9, <1>8, <2>1, <2>4
    <3>3. lo[a] \in 1 .. a /\ a \in Int
      BY <1>5, <3>2 DEF FileTree, TreeAt
    <3>4. ~(lo[a] <= slot)
      BY <1>9, <3>1, <3>3
    <3>5. QED
      BY <3>4 DEF Sorts
  <2>5. QED
    BY <2>2, <2>3, <2>4
<1>14. SepsInv(lo)'
  BY <1>2, <1>3, <1>7, <1>8, <1>13 DEF SepsInv
<1>15. OpInv(lo)'
  BY <1>1, <1>2, <1>3, <1>12, <1>14 DEF OpInv, SearchInv, UpdateInv, NextInv, ClimbInv,
       ExtendInv, ScanInv, AtRest
<1>16. Offsets'
  BY <1>1, <1>2 DEF Offsets
<1>17. QED
  BY <1>10, <1>11, <1>15, <1>16 DEF IInvAt, OpInv

(* The pages of the leaves rise up to the open leaf and the one behind it. *)
LEMMA RowOrder ==
    ASSUME NEW f \in [Pos -> Block], NEW n \in Pos, NEW s \in 1 .. n, NEW A, A \subseteq Nat,
           PageRow(f, n, s, A), \A a \in A : a < f[s].pn, f[s].pn < NoPage,
           NEW x \in 1 .. n, NEW y \in 1 .. n, LeafAt(f, n, x), LeafAt(f, n, y), x <= s, x < y
    PROVE  f[x].pn < f[y].pn
<1>1. n \in Nat /\ 1 .. n \subseteq Pos
  BY PosFacts
<1>2. f[x].pn \in Nat /\ f[y].pn \in Nat /\ f[s].pn \in Nat /\ NoPage \in Nat
  BY <1>1, BlockTypes, DiskAssumption
<1>3. x = s \/ f[x].pn \in A
  <2>1. x < s => f[x].pn \in A
    BY DEF PageRow
  <2>2. x < s \/ x = s
    BY <1>1
  <2>3. QED
    BY <2>1, <2>2
<1>4. y < s => f[x].pn < f[y].pn
  BY DEF PageRow
<1>5. CASE y = s
  <2>1. x # s
    BY <1>5
  <2>2. f[x].pn < f[s].pn
    BY <1>3, <2>1
  <2>3. QED
    BY <1>5, <2>2
<1>6. CASE y > s
  <2>1. f[y].pn = NoPage
    BY <1>6 DEF PageRow
  <2>2. f[x].pn <= f[s].pn
    <3>1. x = s \/ f[x].pn < f[s].pn
      BY <1>3
    <3>2. QED
      BY <1>2, <3>1
  <2>3. QED
    BY <1>2, <2>1, <2>2
<1>7. QED
  BY <1>1, <1>4, <1>5, <1>6

(* The page of the last leaf on its left sorts the leaves below a block.   *)
LEMMA LeftPageSorts ==
    ASSUME NEW f \in [Pos -> Block], NEW lo, NEW n, FileTree(f, lo, n),
           NEW s \in 1 .. n, NEW A, A \subseteq Nat,
           PageRow(f, n, s, A), \A a \in A : a < f[s].pn, f[s].pn < NoPage,
           NEW p \in 1 .. n, f[p].lvl > 0,
           NEW x \in 1 .. n, LeafAt(f, n, x), x <= s, lo[p] <= x, x < p
    PROVE  f[x].pn <= f[Rightmost(f, p + f[p].lcos)].pn <=> x <= p + f[p].lcos
<1> DEFINE l == p + f[p].lcos
           y == Rightmost(f, l)
<1>1. n \in Nat /\ 1 .. n \subseteq Pos /\ n \in Pos
  BY PosFacts DEF FileTree
<1>2. l \in 1 .. p - 2 /\ lo[p] = lo[l] /\ l \in 1 .. n /\ l \in Int
  BY <1>1 DEF FileTree, TreeAt
<1> HIDE DEF l
<1>3. lo[l] \in 1 .. l
  BY <1>2 DEF FileTree, TreeAt
<1>4. y \in lo[l] .. l /\ f[y].lvl = 0 /\ \A z \in y + 1 .. l : f[z].lvl # 0
  BY <1>2, RightmostInTree
<1> HIDE DEF y
<1>5. y \in 1 .. n /\ LeafAt(f, n, y) /\ y <= l
  BY <1>1, <1>2, <1>3, <1>4 DEF LeafAt
<1>6. f[x].pn \in Nat /\ f[y].pn \in Nat
  BY <1>1, <1>5, BlockTypes
<1>7. CASE x <= l
  <2>1. x <= y
    BY <1>1, <1>4, <1>5, <1>7 DEF LeafAt
  <2>2. x < y => f[x].pn < f[y].pn
    BY <1>1, <1>5, RowOrder
  <2>3. f[x].pn <= f[y].pn
    BY <1>1, <1>5, <1>6, <2>1, <2>2
  <2>4. QED
    BY <1>7, <2>3 DEF y, l
<1>8. CASE x > l
  <2>1. y < x /\ y <= s
    BY <1>1, <1>2, <1>5, <1>8
  <2>2. f[y].pn < f[x].pn
    BY <1>1, <1>5, <2>1, RowOrder
  <2>3. ~(f[x].pn <= f[y].pn) /\ ~(x <= l)
    BY <1>1, <1>2, <1>6, <1>8, <2>2
  <2>4. QED
    BY <2>3 DEF y, l
<1>9. QED
  BY <1>1, <1>2, <1>7, <1>8

LEMMA SepParentInv ==
    ASSUME TypeOK, NEW lo, IInvAt(lo), SepParent
    PROVE  TypeOK' /\ IInvAt(lo)'
<1> DEFINE l == Lchild(file, cur)
           r == Rchild(file, cur)
           b == [Read(file, cur) EXCEPT !.pn = Read(file, Rightmost(file, l)).pn,
                     !.lcpn = Read(file, l).pn, !.rcpn = Read(file, r).pn]
           n == hdr.rno
<1>1. Sound(lo) /\ OpInv(lo) /\ Offsets
  BY InvParts
<1>2. /\ pc = "sepParent" /\ file' = Written(cur, b) /\ pc' = "sepLeft"
      /\ UNCHANGED <<hdr, op, cur, ret, queueVars, storeVars>>
  BY DEF SepParent
<1>3. UNCHANGED <<hdr, op, cur, ret, acked, cut, slot, stage, cbd, hlev, glob>>
  BY <1>2 DEF queueVars, storeVars
<1>4. Inserting
  BY <1>2 DEF Inserting
<1>5. /\ file \in [Pos -> Block] /\ hdr \in Header /\ n \in Nat /\ n \in Pos
      /\ 1 .. n \subseteq Pos /\ n \in 1 .. n
      /\ Holds(file, lo, hdr, Known) /\ FileTree(file, lo, n)
      /\ slot = hdr.fslo /\ slot # NoPos /\ slot \in 1 .. n /\ FirstOpen(hdr) = slot
      /\ file[slot].lvl = 0 /\ Fresh /\ glob.rno = n /\ PageRow(file, n, slot, Known)
  BY <1>4, InsertFacts DEF Holds
<1>6. /\ cur \in slot .. n /\ lo[cur] <= slot /\ cur > slot
      /\ \A a \in slot + 1 .. cur : a < cur => Sorts(file, lo, a, slot)
  BY <1>1, <1>2 DEF OpInv, SepsInv
<1>7. cur \in 1 .. n /\ cur \in Pos /\ cur \in Int
  BY <1>5, <1>6
<1>8. file[cur].lvl > 0
  <2>1. TreeAt(file, lo, cur) /\ file[cur].lvl \in Nat
    BY <1>5, <1>7, BlockTypes DEF FileTree
  <2>2. QED
    BY <1>5, <1>6, <1>7, <2>1 DEF TreeAt
<1>9. Read(file, cur) = file[cur] /\ l = cur + file[cur].lcos
  BY <1>7 DEF Read, Lchild
<1>10. /\ b \in Block /\ SameLinks(b, file[cur])
       /\ b.pn = Read(file, Rightmost(file, l)).pn /\ b.isn = file[cur].isn
  <2>1. \A p : Read(file, p).pn \in Nat
    BY <1>5, BlockTypes DEF Read, ZeroBlock
  <2>2. file[cur] \in Block
    BY <1>5, <1>7
  <2> HIDE DEF l, r
  <2>3. QED
    BY <1>9, <2>1, <2>2 DEF Block, SameLinks
<1> HIDE DEF b
<1>11. /\ file' = [file EXCEPT ![cur] = b]
       /\ file' \in [Pos -> Block] /\ file'[cur] = b /\ \A x \in Pos : x # cur => file'[x] = file[x]
  <2>1. file' = [file EXCEPT ![cur] = b]
    BY <1>2, <1>7 DEF Written
  <2>2. QED
    BY <1>5, <1>7, <1>10, <2>1, WriteFacts
<1>12. TypeOK'
  <2>1. QueueTypeOK'
    BY <1>2, QueueSame DEF TypeOK
  <2>2. QED
    BY <1>2, <1>3, <1>11, <2>1 DEF TypeOK, DiskTypeOK
<1>13. KeepsLinks(file, file', n) /\ file'[n].rsvd = file[n].rsvd
  <2>1. Puts(file, file', cur, b)
    BY <1>11 DEF Puts
  <2>2. KeepsLinks(file, file', n)
    BY <1>5, <1>7, <1>10, <2>1, LinksKept
  <2>3. file'[n].rsvd = file[n].rsvd
    BY <1>5, <1>7, <1>10, <2>1, LinksKept
  <2>4. QED
    BY <2>2, <2>3
<1>14. \A x \in 1 .. n : file[x].lvl = 0 => file'[x] = file[x]
  <2>1. \A x \in 1 .. n : file[x].lvl = 0 => x # cur /\ x \in Pos
    BY <1>5, <1>8
  <2>2. QED
    BY <1>11, <2>1
<1>15. /\ file[slot].pn = op.page /\ file[slot].h = op.hash /\ ~file[slot].isn
       /\ file'[slot] = file[slot]
       /\ (\A a \in Known : a < file[slot].pn) /\ file[slot].pn < NoPage /\ Known \subseteq Nat
  <2>1. file[slot].pn = op.page /\ file[slot].h = op.hash /\ ~file[slot].isn
    BY <1>1, <1>2, <1>4 DEF OpInv, InsertInv
  <2>2. op.page < NoPage
    BY <1>5, StoreAssumption DEF Fresh, StoreAssumption
  <2>3. Known \subseteq Nat
    BY TypeFacts
  <2>4. QED
    BY <1>5, <1>14, <2>1, <2>2, <2>3 DEF Fresh
<1>16. KeepsRow(file, file', n, slot, Known)
  BY <1>14, <1>15 DEF KeepsRow
<1>17. ASSUME NEW x \in 1 .. n, LeafAt(file, n, x), x <= slot PROVE Sorts(file', lo, cur, x)
  <2>1. SUFFICES ASSUME lo[cur] <= x, x < cur
                 PROVE  file'[x].pn <= file'[cur].pn <=> x <= cur + file'[cur].lcos
    BY DEF Sorts
  <2>2. file[x].pn <= file[Rightmost(file, cur + file[cur].lcos)].pn <=> x <= cur + file[cur].lcos
    BY <1>5, <1>7, <1>8, <1>15, <1>17, <2>1, LeftPageSorts
  <2>3. file'[x] = file[x] /\ file'[cur] = b /\ b.lcos = file[cur].lcos
    BY <1>10, <1>11, <1>14, <1>17 DEF LeafAt, SameLinks
  <2>4. Rightmost(file, l) \in Pos
    <3>1. l \in 1 .. n /\ lo[l] \in 1 .. l
      <4>1. TreeAt(file, lo, cur)
        BY <1>5, <1>7 DEF FileTree
      <4>2. l \in 1 .. cur - 2
        BY <1>8, <1>9, <4>1 DEF TreeAt
      <4>3. l \in 1 .. n
        BY <1>5, <1>7, <4>2
      <4>4. TreeAt(file, lo, l)
        BY <1>5, <4>3 DEF FileTree
      <4> HIDE DEF l
      <4>5. QED
        BY <4>3, <4>4 DEF TreeAt
    <3> HIDE DEF l
    <3>2. Rightmost(file, l) \in lo[l] .. l
      BY <1>5, <3>1, RightmostInTree
    <3>3. QED
      BY <1>5, <3>1, <3>2
  <2>5. b.pn = file[Rightmost(file, cur + file[cur].lcos)].pn
    BY <1>9, <1>10, <2>4 DEF Read
  <2>6. QED
    BY <2>2, <2>3, <2>5
<1>18. ASSUME NEW a \in 1 .. n, NEW x \in 1 .. n, LeafAt(file, n, x), x < slot
       PROVE  Sorts(file', lo, a, x)
  <2>1. CASE a = cur
    BY <1>5, <1>17, <1>18, <2>1
  <2>2. CASE a # cur
    <3>1. Sorts(file, lo, a, x)
      BY <1>5, <1>18 DEF Holds, Ordered
    <3>2. file'[x] = file[x] /\ file'[a] = file[a]
      BY <1>5, <1>11, <1>14, <1>18, <2>2 DEF LeafAt
    <3>3. QED
      BY <3>1, <3>2 DEF Sorts
  <2>3. QED
    BY <2>1, <2>2
<1>19. Holds(file', lo, hdr, Known)
  BY <1>5, <1>13, <1>16, <1>18, HoldsFrame
<1>20. Sound(lo)'
  <2>1. Known' = Known /\ FirstOpen(hdr)' = slot /\ Busy' = Busy
    BY <1>2, <1>3, <1>5 DEF Known, Busy, FirstOpen
  <2>2. SUFFICES ASSUME NEW x \in 1 .. n, LeafAt(file', n, x), x < slot,
                        file'[x].pn \notin cut \cup Busy
                 PROVE  file'[x].h = acked[file'[x].pn]
    BY <1>3, <1>19, <2>1 DEF Sound, HashesShown
  <2>3. file'[x] = file[x] /\ file[x].lvl = 0
    BY <1>13, <1>14, <2>2 DEF LeafAt, KeepsLinks
  <2>4. QED
    BY <1>1, <1>5, <2>2, <2>3 DEF Sound, HashesShown, LeafAt
<1>21. InsertInv'
  BY <1>2, <1>3, <1>5, <1>15 DEF InsertInv, Fresh, Known
<1>22. SepsInv(lo)'
  <2>1. ASSUME NEW a \in slot + 1 .. cur PROVE Sorts(file', lo, a, slot)
    <3>1. CASE a = cur
      <4>1. LeafAt(file, n, slot) /\ slot <= slot
        BY <1>5 DEF LeafAt
      <4>2. QED
        BY <1>5, <1>17, <3>1, <4>1
    <3>2. CASE a # cur
      <4>1. a \in Pos /\ a < cur
        BY <1>5, <1>7, <3>2
      <4>2. Sorts(file, lo, a, slot)
        BY <1>6, <4>1
      <4>3. file'[a] = file[a]
        BY <1>11, <3>2, <4>1
      <4>4. QED
        BY <1>15, <4>2, <4>3 DEF Sorts
    <3>3. QED
      BY <3>1, <3>2
  <2>2. QED
    BY <1>2, <1>3, <1>6, <2>1 DEF SepsInv
<1>23. OpInv(lo)'
  BY <1>1, <1>2, <1>3, <1>21, <1>22 DEF OpInv, SearchInv, UpdateInv, NextInv, ClimbInv,
       ExtendInv, ScanInv, AtRest
<1>24. Offsets'
  BY <1>1, <1>10, <1>11 DEF Offsets, SameLinks
<1>25. QED
  BY <1>12, <1>20, <1>23, <1>24 DEF IInvAt, OpInv

(* A step that writes the page kept for the parent.                        *)
PutsPage(f, g, c, v) ==
    g = IF c \in Pos THEN [f EXCEPT ![c] = [f[c] EXCEPT !.ppn = v]] ELSE f

LEMMA PageWrite ==
    ASSUME NEW f \in [Pos -> Block], NEW g, NEW c, NEW v \in Nat, PutsPage(f, g, c, v)
    PROVE  /\ g \in [Pos -> Block]
           /\ \A x \in Pos : SameShape(f, g, x) /\ g[x].pos = f[x].pos /\ g[x].rsvd = f[x].rsvd
                             /\ g[x].h = f[x].h
<1>1. CASE c \in Pos
  <2> DEFINE b == [f[c] EXCEPT !.ppn = v]
  <2>1. /\ b \in Block /\ b.h = f[c].h /\ b.pos = f[c].pos /\ b.rsvd = f[c].rsvd
        /\ b.lvl = f[c].lvl /\ b.lcos = f[c].lcos /\ b.rcos = f[c].rcos /\ b.pn = f[c].pn
        /\ b.isn = f[c].isn
    BY <1>1, BlockTypes DEF Block
  <2> HIDE DEF b
  <2>2. g = [f EXCEPT ![c] = b]
    BY <1>1 DEF PutsPage, b
  <2>3. g \in [Pos -> Block] /\ g[c] = b /\ \A x \in Pos : x # c => g[x] = f[x]
    BY <1>1, <2>1, <2>2
  <2>4. ASSUME NEW x \in Pos
        PROVE  SameShape(f, g, x) /\ g[x].pos = f[x].pos /\ g[x].rsvd = f[x].rsvd /\ g[x].h = f[x].h
    <3>1. CASE x = c
      BY <2>1, <2>3, <3>1 DEF SameShape
    <3>2. CASE x # c
      BY <2>3, <3>2 DEF SameShape
    <3>3. QED
      BY <3>1, <3>2
  <2>5. QED
    BY <2>3, <2>4
<1>2. CASE c \notin Pos
  BY <1>2 DEF PutsPage, SameShape
<1>3. QED
  BY <1>1, <1>2

(* What such a step keeps while separators are written.                    *)
LEMMA SetParentPageInv ==
    ASSUME TypeOK, NEW lo, IInvAt(lo), Inserting, NEW c, SetParentPage(c),
           Inserting', pc # "fill", pc # "path",
           UNCHANGED <<hdr, op, cur, ret, queueVars, storeVars>>,
           pc' \in {"seps", "sepParent", "sepLeft", "sepRight", "sepsDone", "next"}
    PROVE  /\ TypeOK' /\ Sound(lo)' /\ InsertInv' /\ Offsets'
           /\ UNCHANGED <<cut, slot, stage, cbd, hlev, glob>>
           /\ \A a \in slot + 1 .. hdr.rno : Sorts(file, lo, a, slot) => Sorts(file', lo, a, slot)
<1> DEFINE v == Read(file, cur).pn
<1>1. Sound(lo) /\ OpInv(lo) /\ Offsets
  BY InvParts
<1>2. UNCHANGED <<hdr, op, cur, ret, acked, cut, slot, stage, cbd, hlev, glob>>
  BY DEF queueVars, storeVars
<1>3. /\ file \in [Pos -> Block] /\ hdr \in Header /\ hdr.rno \in Nat
      /\ 1 .. hdr.rno \subseteq Pos /\ slot \in 1 .. hdr.rno /\ slot \in Pos /\ Fresh
      /\ slot = hdr.fslo /\ slot # NoPos /\ glob.rno = hdr.rno
  BY InsertFacts
<1>4. /\ file' \in [Pos -> Block]
      /\ \A x \in Pos : SameShape(file, file', x) /\ file'[x].pos = file[x].pos
                        /\ file'[x].rsvd = file[x].rsvd /\ file'[x].h = file[x].h
  <2>1. v \in Nat
    BY <1>3, BlockTypes DEF Read, ZeroBlock
  <2>2. PutsPage(file, file', c, v)
    BY DEF SetParentPage, Written, PutsPage, Read
  <2> HIDE DEF v
  <2>3. QED
    BY <1>3, <2>1, <2>2, PageWrite
<1>5. TypeOK'
  <2>1. QueueTypeOK'
    BY QueueSame DEF TypeOK
  <2>2. QED
    BY <1>2, <1>4, <2>1 DEF TypeOK, DiskTypeOK
<1>6. Busy' = Busy
  BY <1>2 DEF Busy, Inserting
<1>7. Sound(lo)'
  <2>1. SameButHashes(file, file', hdr.rno)
    BY <1>3, <1>4 DEF SameButHashes
  <2>2. \A x \in 1 .. hdr.rno : file'[x].h = file[x].h
    BY <1>3, <1>4
  <2>3. QED
    BY <1>1, <1>2, <1>6, <2>1, <2>2, SoundFrame
<1>8. InsertInv'
  <2>1. file[slot].pn = op.page /\ file[slot].h = op.hash /\ ~file[slot].isn
    BY <1>1 DEF OpInv, InsertInv
  <2>2. file'[slot].pn = op.page /\ file'[slot].h = op.hash /\ ~file'[slot].isn
    BY <1>3, <1>4, <2>1 DEF SameShape
  <2>3. QED
    BY <1>2, <1>3, <2>2 DEF InsertInv, Fresh, Known
<1>9. Offsets'
  BY <1>1, <1>4 DEF Offsets
<1>10. ASSUME NEW a \in slot + 1 .. hdr.rno, Sorts(file, lo, a, slot) PROVE Sorts(file', lo, a, slot)
  <2>1. a \in Pos
    BY <1>3
  <2>2. SameShape(file, file', a) /\ SameShape(file, file', slot)
    BY <1>3, <1>4, <2>1
  <2>3. QED
    BY <1>10, <2>2 DEF Sorts, SameShape
<1>11. QED
  BY <1>2, <1>5, <1>7, <1>8, <1>9, <1>10

LEMMA SepLeftInv ==
    ASSUME TypeOK, NEW lo, IInvAt(lo), SepLeft
    PROVE  TypeOK' /\ IInvAt(lo)'
<1>1. Sound(lo) /\ OpInv(lo) /\ Offsets
  BY InvParts
<1>2. /\ pc = "sepLeft" /\ SetParentPage(Lchild(file, cur)) /\ pc' = "sepRight"
      /\ UNCHANGED <<hdr, op, cur, ret, queueVars, storeVars>>
  BY DEF SepLeft
<1>3. Inserting /\ Inserting'
  BY <1>2 DEF Inserting
<1>4. /\ TypeOK' /\ Sound(lo)' /\ InsertInv' /\ Offsets'
      /\ UNCHANGED <<cut, slot, stage, cbd, hlev, glob>>
      /\ \A a \in slot + 1 .. hdr.rno : Sorts(file, lo, a, slot) => Sorts(file', lo, a, slot)
  BY <1>2, <1>3, SetParentPageInv
<1>5. /\ cur \in slot .. hdr.rno /\ lo[cur] <= slot /\ cur > slot
      /\ \A a \in slot + 1 .. cur : Sorts(file, lo, a, slot)
  BY <1>1, <1>2 DEF OpInv, SepsInv
<1>6. slot \in Int /\ hdr.rno \in Int
  BY <1>3, InsertFacts
<1>7. SepsInv(lo)'
  <2>1. \A a \in slot + 1 .. cur : a \in slot + 1 .. hdr.rno
    BY <1>5, <1>6
  <2>2. \A a \in slot + 1 .. cur : Sorts(file', lo, a, slot)
    BY <1>4, <1>5, <2>1
  <2>3. QED
    BY <1>2, <1>4, <1>5, <2>2 DEF SepsInv
<1>8. OpInv(lo)'
  BY <1>1, <1>2, <1>4, <1>7 DEF OpInv, SearchInv, UpdateInv, NextInv, ClimbInv,
       ExtendInv, ScanInv, AtRest
<1>9. QED
  BY <1>4, <1>8 DEF IInvAt, OpInv

LEMMA SepRightInv ==
    ASSUME TypeOK, NEW lo, IInvAt(lo), SepRight
    PROVE  TypeOK' /\ IInvAt(lo)'
<1>1. Sound(lo) /\ OpInv(lo) /\ Offsets
  BY InvParts
<1>2. /\ pc = "sepRight" /\ SetParentPage(Rchild(file, cur))
      /\ pc' = (IF Climbs(file, cur) THEN "seps" ELSE "sepsDone")
      /\ UNCHANGED <<hdr, op, cur, ret, queueVars, storeVars>>
  BY DEF SepRight
<1>3. Inserting /\ Inserting'
  BY <1>2 DEF Inserting
<1>4. /\ TypeOK' /\ Sound(lo)' /\ InsertInv' /\ Offsets'
      /\ UNCHANGED <<cut, slot, stage, cbd, hlev, glob>>
      /\ \A a \in slot + 1 .. hdr.rno : Sorts(file, lo, a, slot) => Sorts(file', lo, a, slot)
  BY <1>2, <1>3, SetParentPageInv
<1>5. /\ cur \in slot .. hdr.rno /\ lo[cur] <= slot /\ cur > slot
      /\ \A a \in slot + 1 .. cur : Sorts(file, lo, a, slot)
  BY <1>1, <1>2 DEF OpInv, SepsInv
<1>6. /\ slot \in Int /\ hdr.rno \in Int /\ 1 .. hdr.rno \subseteq Pos /\ slot \in 1 .. hdr.rno
      /\ file[hdr.rno].rsvd = "root" /\ hdr.rno \in Pos
      /\ \A p \in slot .. hdr.rno - 1 : file[p].pos > 0
      /\ \A p \in 1 .. hdr.rno - 1 : file[p].rsvd = "R"
  BY <1>3, InsertFacts
<1>7. \A a \in slot + 1 .. cur : Sorts(file', lo, a, slot)
  <2>1. \A a \in slot + 1 .. cur : a \in slot + 1 .. hdr.rno
    BY <1>5, <1>6
  <2>2. QED
    BY <1>4, <1>5, <2>1
<1>8. SepsInv(lo)'
  <2>1. CASE cur = hdr.rno
    <3>1. ~Climbs(file, cur)
      BY <1>6, <2>1 DEF Climbs, Read
    <3>2. QED
      BY <1>2, <1>4, <1>7, <2>1, <3>1 DEF SepsInv
  <2>2. CASE cur < hdr.rno
    <3>1. cur \in slot .. hdr.rno - 1 /\ cur \in 1 .. hdr.rno - 1 /\ cur \in Pos
      BY <1>5, <1>6, <2>2
    <3>2. Climbs(file, cur)
      BY <1>6, <3>1 DEF Climbs, Read
    <3>3. QED
      BY <1>2, <1>4, <1>5, <1>7, <2>2, <3>2 DEF SepsInv
  <2>3. QED
    BY <1>5, <1>6, <2>1, <2>2
<1>9. OpInv(lo)'
  BY <1>1, <1>2, <1>4, <1>8 DEF OpInv, SearchInv, UpdateInv, NextInv, ClimbInv,
       ExtendInv, ScanInv, AtRest
<1>10. QED
  BY <1>4, <1>9 DEF IInvAt, OpInv

LEMMA NextPadInv ==
    ASSUME TypeOK, NEW lo, IInvAt(lo), NextPad
    PROVE  TypeOK' /\ IInvAt(lo)'
<1>1. Sound(lo) /\ OpInv(lo) /\ Offsets
  BY InvParts
<1>2. /\ pc = "sepsDone" /\ pc' = "next" /\ BeginScan(slot)
      /\ UNCHANGED <<file, hdr, op, ret, queueVars, storeVars>>
  BY DEF NextPad
<1>3. UNCHANGED <<file, hdr, op, ret, acked, cut, slot, stage, cbd, hlev, glob>>
  BY <1>2 DEF queueVars, storeVars
<1>4. Inserting
  BY <1>2 DEF Inserting
<1>5. /\ slot \in 1 .. hdr.rno - 1 /\ hdr.rno \in Nat /\ 1 .. hdr.rno \subseteq Pos
      /\ \A p \in 1 .. hdr.rno - 1 : file[p].rsvd = "R"
  BY <1>4, InsertFacts
<1>6. cur' = slot
  <2>1. slot # 1 => slot - 1 \in 1 .. hdr.rno - 1 /\ slot - 1 \in Pos
    BY <1>5
  <2>2. QED
    BY <1>2, <1>5, <2>1 DEF BeginScan, Read
<1>7. TypeOK'
  <2>1. QueueTypeOK'
    BY <1>2, QueueSame DEF TypeOK
  <2>2. cur' \in Int
    BY <1>5, <1>6
  <2>3. QED
    BY <1>2, <1>3, <2>1, <2>2 DEF TypeOK, DiskTypeOK
<1>8. Sound(lo)'
  BY <1>1, <1>2, <1>3, SoundQuiet DEF Busy
<1>9. InsertInv'
  BY <1>1, <1>2, <1>3, <1>4 DEF OpInv, InsertInv, Fresh, Known
<1>10. SepsInv(lo)'
  BY <1>1, <1>2, <1>3 DEF OpInv, SepsInv
<1>11. NextInv'
  <2>1. slot \in slot .. hdr.rno /\ slot + 1 .. slot - 1 = {}
    BY <1>5
  <2>2. QED
    BY <1>2, <1>3, <1>6, <2>1 DEF NextInv
<1>12. OpInv(lo)'
  BY <1>1, <1>2, <1>3, <1>9, <1>10, <1>11 DEF OpInv, SearchInv, UpdateInv, ClimbInv,
       ExtendInv, ScanInv, AtRest
<1>13. Offsets'
  BY <1>1, <1>3 DEF Offsets
<1>14. QED
  BY <1>7, <1>8, <1>12, <1>13 DEF IInvAt, OpInv

-----------------------------------------------------------------------------
(* What is known while the leaf behind the old root is looked for: that    *)
(* leaf is found, the old root is passed.                                  *)
LEMMA ScanFacts ==
    ASSUME TypeOK, NEW lo, IInvAt(lo), Extended(lo), hdr.fslo = NoPos
    PROVE  LET n == hdr.rno IN
           /\ file \in [Pos -> Block] /\ n \in Nat /\ n >= 1 /\ n \in Pos /\ n + 1 \in Pos
           /\ glob.rno \in Pos /\ glob.rno > n + 1 /\ 1 .. glob.rno \subseteq Pos
           /\ \A p \in 1 .. n + 1 : Read(file, p).rsvd = "R"
           /\ file[n + 1].lvl = 0 /\ file[n + 1].isn
           /\ cur = n => ~ScanFails /\ ~AtPadLeaf
           /\ cur = n + 1 => ~ScanFails /\ AtPadLeaf
<1> DEFINE n == hdr.rno
           m == glob.rno
           h2 == [rno |-> m, fslo |-> n + 1]
<1>1. Sound(lo) /\ OpInv(lo)
  BY InvParts
<1>2. /\ file \in [Pos -> Block] /\ n \in Nat /\ n >= 1 /\ n \in Pos /\ 1 .. n \subseteq Pos
      /\ FirstOpen(hdr) = n + 1 /\ n \in 1 .. n
  BY <1>1, TypeFacts, FirstOpenType DEF Sound
<1>3. Holds(file, lo, h2, Known) /\ m > n + 1 /\ file[n + 1].isn
  BY DEF Extended, Padding
<1>4. h2.rno = m /\ h2.fslo = n + 1 /\ h2.fslo # NoPos
  BY <1>2 DEF NoPos
<1>5. FileTree(file, lo, m) /\ OpenAt(file, m, n + 1)
  <2> HIDE DEF h2
  <2>1. QED
    BY <1>3, <1>4 DEF Holds
<1>6. m \in Pos /\ 1 .. m \subseteq Pos /\ m \in Nat
  BY <1>5, PosFacts DEF FileTree
<1>7. n + 1 \in Pos /\ \A p \in 1 .. n + 1 : p \in 1 .. m - 1 /\ p \in Pos
  BY <1>2, <1>3, <1>6
<1>8. \A p \in 1 .. n + 1 : Read(file, p).rsvd = "R"
  BY <1>5, <1>7 DEF FileTree, Read
<1>9. file[n + 1].lvl = 0
  BY <1>5 DEF OpenAt
<1>10. n \in 1 .. n + 1 /\ n + 1 \in 1 .. n + 1 /\ n # Nowhere /\ n + 1 # Nowhere
  BY <1>2 DEF Nowhere
<1>11. cur = n => ~ScanFails /\ ~AtPadLeaf
  <2>1. SUFFICES ASSUME cur = n PROVE ~ScanFails /\ ~AtPadLeaf
    OBVIOUS
  <2>2. Read(file, n).rsvd = "R" /\ Read(file, n) = file[n] /\ file[n].lvl \in Nat
    BY <1>2, <1>8, <1>10, BlockTypes DEF Read
  <2>3. file[n].lvl = 0 => ~file[n].isn
    <3>1. n < FirstOpen(hdr)
      BY <1>2
    <3>2. QED
      BY <1>1, <1>2, <3>1 DEF Sound, Holds, PageRow, LeafAt
  <2>4. QED
    BY <1>10, <2>1, <2>2, <2>3 DEF ScanFails, AtPadLeaf, IsInterior
<1>12. cur = n + 1 => ~ScanFails /\ AtPadLeaf
  <2>1. SUFFICES ASSUME cur = n + 1 PROVE ~ScanFails /\ AtPadLeaf
    OBVIOUS
  <2>2. Read(file, n + 1).rsvd = "R" /\ Read(file, n + 1) = file[n + 1]
    BY <1>7, <1>8, <1>10 DEF Read
  <2>3. QED
    BY <1>3, <1>9, <1>10, <2>1, <2>2 DEF ScanFails, AtPadLeaf, IsInterior
<1>13. QED
  BY <1>2, <1>3, <1>6, <1>7, <1>8, <1>9, <1>11, <1>12

LEMMA ScanStepInv ==
    ASSUME TypeOK, NEW lo, IInvAt(lo), ScanStep
    PROVE  TypeOK' /\ IInvAt(lo)'
<1>1. Sound(lo) /\ OpInv(lo) /\ Offsets
  BY InvParts
<1>2. /\ pc \in {"scan", "rescan", "next"} /\ ~AtPadLeaf /\ ~ScanFails
      /\ cur' = (IF cur \in Pos THEN cur + 1 ELSE cur)
      /\ UNCHANGED <<file, hdr, pc, op, ret, queueVars, storeVars>>
  BY DEF ScanStep, Scanning
<1>3. UNCHANGED <<file, hdr, pc, op, ret, acked, cut, slot, stage, cbd, hlev, glob>>
  BY <1>2 DEF queueVars, storeVars
<1>4. TypeOK'
  <2>1. QueueTypeOK'
    BY <1>2, QueueSame DEF TypeOK
  <2>2. cur \in Int
    BY TypeFacts
  <2>3. cur' \in Int
    BY <1>2, <2>2
  <2>4. QED
    BY <1>3, <2>1, <2>3 DEF TypeOK, DiskTypeOK
<1>5. Sound(lo)'
  BY <1>1, <1>3, SoundQuiet DEF Busy
<1>6. Offsets'
  BY <1>1, <1>3 DEF Offsets
<1>7. CASE pc = "next"
  <2>1. Inserting
    BY <1>7 DEF Inserting
  <2>2. /\ file \in [Pos -> Block] /\ hdr.rno \in Nat /\ 1 .. hdr.rno \subseteq Pos
        /\ slot \in 1 .. hdr.rno /\ file[hdr.rno].rsvd = "root" /\ hdr.rno \in Pos
        /\ FirstOpen(hdr) = slot /\ Holds(file, lo, hdr, Known) /\ slot \in 1 .. hdr.rno
    BY <2>1, InsertFacts
  <2>3. cur \in slot .. hdr.rno /\ \A x \in slot + 1 .. cur - 1 : file[x].lvl > 0
    BY <1>1, <1>7 DEF OpInv, NextInv
  <2>4. cur \in 1 .. hdr.rno /\ cur \in Pos /\ cur # Nowhere
    BY <2>2, <2>3 DEF Nowhere
  <2>5. cur # hdr.rno
    BY <1>2, <2>2 DEF ScanFails, Read
  <2>6. cur' = cur + 1 /\ cur' \in slot .. hdr.rno
    BY <1>2, <2>2, <2>3, <2>4, <2>5
  <2>7. cur > slot => file[cur].lvl > 0
    <3>1. SUFFICES ASSUME cur > slot PROVE file[cur].lvl > 0
      OBVIOUS
    <3>2. Read(file, cur) = file[cur] /\ file[cur].lvl \in Nat
      BY <2>2, <2>4, BlockTypes DEF Read
    <3>3. file[cur].lvl = 0 => file[cur].isn
      BY <2>2, <2>4, <3>1 DEF Holds, PageRow, LeafAt
    <3>4. file[cur].lvl # 0
      BY <1>2, <2>4, <3>2, <3>3 DEF AtPadLeaf, ScanFails, IsInterior
    <3>5. QED
      BY <3>2, <3>4
  <2>8. \A x \in slot + 1 .. cur + 1 - 1 : x \in slot + 1 .. cur - 1 \/ (x = cur /\ cur > slot)
    BY <2>2, <2>3
  <2>9. \A x \in slot + 1 .. cur' - 1 : file[x].lvl > 0
    BY <2>3, <2>6, <2>7, <2>8
  <2>10. NextInv'
    BY <1>3, <2>6, <2>9 DEF NextInv
  <2>11. OpInv(lo)'
    BY <1>1, <1>3, <1>7, <2>10 DEF OpInv, SearchInv, UpdateInv, InsertInv, SepsInv, ClimbInv,
         ExtendInv, ScanInv, AtRest, Inserting, Fresh, Known
  <2>12. QED
    BY <1>4, <1>5, <1>6, <2>11 DEF IInvAt, OpInv
<1>8. CASE pc \in {"scan", "rescan"}
  <2>1. /\ Fresh /\ hdr.fslo = NoPos /\ Extended(lo)
        /\ cur \in {hdr.rno, hdr.rno + 1} /\ (pc = "rescan" => cur = hdr.rno + 1)
    BY <1>1, <1>8 DEF OpInv, ScanInv
  <2>2. /\ hdr.rno \in Pos /\ (cur = hdr.rno + 1 => AtPadLeaf)
    BY <2>1, ScanFacts
  <2>3. cur = hdr.rno /\ pc = "scan" /\ cur' = hdr.rno + 1
    BY <1>2, <1>8, <2>1, <2>2
  <2>4. ScanInv(lo)'
    BY <1>3, <2>1, <2>3 DEF ScanInv, Fresh, Extended, Known
  <2>5. OpInv(lo)'
    BY <1>1, <1>3, <1>8, <2>4 DEF OpInv, SearchInv, UpdateInv, InsertInv, SepsInv, ClimbInv,
         ExtendInv, NextInv, AtRest, Inserting
  <2>6. QED
    BY <1>4, <1>5, <1>6, <2>5 DEF IInvAt, OpInv
<1>9. QED
  BY <1>2, <1>7, <1>8

LEMMA ExtendRescanInv ==
    ASSUME TypeOK, NEW lo, IInvAt(lo), ExtendRescan
    PROVE  TypeOK' /\ IInvAt(lo)'
<1>1. Sound(lo) /\ OpInv(lo) /\ Offsets
  BY InvParts
<1>2. /\ pc = "scan" /\ (AtPadLeaf \/ ScanFails) /\ pc' = "rescan"
      /\ BeginScan(ScanFound)
      /\ UNCHANGED <<file, hdr, op, ret, queueVars, storeVars>>
  BY DEF ExtendRescan, ScanEnded
<1>3. UNCHANGED <<file, hdr, op, ret, acked, cut, slot, stage, cbd, hlev, glob>>
  BY <1>2 DEF queueVars, storeVars
<1>4. Fresh /\ hdr.fslo = NoPos /\ Extended(lo) /\ cur \in {hdr.rno, hdr.rno + 1}
  BY <1>1, <1>2 DEF OpInv, ScanInv
<1>5. /\ hdr.rno \in Nat /\ hdr.rno >= 1 /\ (\A p \in 1 .. hdr.rno + 1 : Read(file, p).rsvd = "R")
      /\ (cur = hdr.rno => ~ScanFails /\ ~AtPadLeaf)
      /\ (cur = hdr.rno + 1 => ~ScanFails /\ AtPadLeaf)
  BY <1>4, ScanFacts
<1>6. cur = hdr.rno + 1 /\ ScanFound = hdr.rno + 1
  BY <1>2, <1>4, <1>5 DEF ScanFound
<1>7. cur' = hdr.rno + 1 /\ cur' \in Int
  <2>1. hdr.rno + 1 - 1 \in 1 .. hdr.rno + 1
    BY <1>5
  <2>2. QED
    BY <1>2, <1>5, <1>6, <2>1 DEF BeginScan
<1>8. TypeOK'
  <2>1. QueueTypeOK'
    BY <1>2, QueueSame DEF TypeOK
  <2>2. QED
    BY <1>2, <1>3, <1>7, <2>1 DEF TypeOK, DiskTypeOK
<1>9. Sound(lo)'
  BY <1>1, <1>2, <1>3, SoundQuiet DEF Busy
<1>10. ScanInv(lo)'
  BY <1>2, <1>3, <1>4, <1>7 DEF ScanInv, Fresh, Extended, Known
<1>11. OpInv(lo)'
  BY <1>1, <1>2, <1>3, <1>10 DEF OpInv, SearchInv, UpdateInv, InsertInv, SepsInv, ClimbInv,
       ExtendInv, NextInv, AtRest, Inserting
<1>12. Offsets'
  BY <1>1, <1>3 DEF Offsets
<1>13. QED
  BY <1>8, <1>9, <1>11, <1>12 DEF IInvAt, OpInv

LEMMA ExtendHeaderInv ==
    ASSUME TypeOK, NEW lo, IInvAt(lo), ExtendHeader
    PROVE  TypeOK' /\ IInvAt(lo)'
<1> DEFINE n == hdr.rno
           h2 == [rno |-> glob.rno, fslo |-> n + 1]
<1>1. Sound(lo) /\ OpInv(lo) /\ Offsets
  BY InvParts
<1>2. /\ pc = "rescan" /\ hdr' = NewHeader /\ slot' = ScanFound /\ pc' = "fill"
      /\ UNCHANGED <<file, op, cur, ret, queueVars, acked, cut>>
  BY DEF ExtendHeader
<1>3. UNCHANGED <<file, op, acked, cut, stage, cbd, hlev, glob>>
  BY <1>2 DEF queueVars
<1>4. Fresh /\ hdr.fslo = NoPos /\ Extended(lo) /\ cur = n + 1
  BY <1>1, <1>2 DEF OpInv, ScanInv
<1>5. /\ file \in [Pos -> Block] /\ n \in Nat /\ n >= 1 /\ n + 1 \in Pos /\ glob.rno \in Pos /\ glob.rno > n + 1
      /\ ~ScanFails
  BY <1>4, ScanFacts
<1>6. ScanFound = n + 1 /\ n + 1 # Nowhere /\ n + 1 # NoPos
  BY <1>4, <1>5 DEF ScanFound, Nowhere, NoPos
<1>7. hdr' = h2 /\ slot' = n + 1
  BY <1>2, <1>6 DEF NewHeader
<1>8. /\ h2.rno = glob.rno /\ h2.fslo = n + 1 /\ h2 \in Header /\ FirstOpen(h2) = n + 1
      /\ n + 1 \in 0 .. MaxPos
  <2>1. glob.rno \in 0 .. MaxPos /\ n + 1 \in 0 .. MaxPos
    BY <1>5, DiskAssumption DEF Pos
  <2>2. QED
    BY <1>6, <2>1 DEF Header, FirstOpen
<1> HIDE DEF h2
<1>9. Holds(file, lo, h2, Known)
  BY <1>4 DEF Extended, h2
<1>10. TypeOK'
  <2>1. QueueTypeOK'
    BY <1>2, QueueSame DEF TypeOK
  <2>2. slot' \in {Nowhere} \cup 0 .. MaxPos
    BY <1>7, <1>8
  <2>3. DiskTypeOK'
    BY <1>3, <1>5, <1>7, <1>8 DEF DiskTypeOK
  <2>4. QED
    BY <1>2, <1>3, <2>1, <2>2, <2>3 DEF TypeOK
<1>11. Sound(lo)'
  <2>1. Known' = Known /\ FirstOpen(hdr)' = n + 1 /\ Busy' = Busy /\ FirstOpen(hdr) = n + 1
    BY <1>2, <1>3, <1>4, <1>7, <1>8 DEF Known, Busy, FirstOpen
  <2>2. ASSUME NEW x \in 1 .. glob.rno, LeafAt(file, glob.rno, x), x < n + 1,
               file[x].pn \notin cut \cup Busy
        PROVE  file[x].h = acked[file[x].pn]
    <3>1. x \in 1 .. n /\ LeafAt(file, n, x)
      BY <1>5, <2>2 DEF LeafAt
    <3>2. QED
      BY <1>1, <2>1, <2>2, <3>1 DEF Sound, HashesShown
  <2>3. HashesShown'
    BY <1>3, <1>7, <1>8, <2>1, <2>2 DEF HashesShown
  <2>4. QED
    BY <1>3, <1>7, <1>9, <2>1, <2>3 DEF Sound
<1>12. InsertInv'
  BY <1>2, <1>3, <1>4, <1>6, <1>7, <1>8 DEF InsertInv, Fresh, Known
<1>13. OpInv(lo)'
  BY <1>1, <1>2, <1>3, <1>12 DEF OpInv, SearchInv, UpdateInv, SepsInv, ClimbInv,
       ExtendInv, ScanInv, NextInv, AtRest
<1>14. Offsets'
  BY <1>1, <1>3 DEF Offsets
<1>15. QED
  BY <1>10, <1>11, <1>13, <1>14 DEF IInvAt, OpInv

(* With the new root written the file up to it is one tree, with padding   *)
(* behind the old root.                                                    *)
LEMMA TreeJoined ==
    ASSUME NEW g \in [Pos -> Block], NEW lo, NEW n \in Pos, FileTree(g, lo, n), NEW A,
           NEW N \in Pos, Grown(g, lo, N, n, A), AllJoined(lo, N, n),
           \A p \in 1 .. N - 1 : g[p].rsvd = "R", g[N].rsvd = "root"
    PROVE  /\ N > n + 1 /\ FileTree(g, lo, N) /\ OpenAt(g, N, n + 1)
           /\ \A p \in n .. N - 1 : g[p].pos > 0
           /\ Padding(g, n + 1)
<1>1. n \in Nat /\ n >= 1 /\ N \in Nat
  BY PosFacts DEF Pos
<1>2. FileTree(g, lo, n)
  OBVIOUS
<1>3. /\ TreeRow(g, lo, N) /\ N > n /\ lo[N] = 1
      /\ \A p \in n .. N : Peak(lo, N, p) \/ Leads(g, N, p)
      /\ \A p \in n + 1 .. N : AddedAt(g, lo, n, A, p)
      /\ g[n + 1].lvl = 0
  BY DEF Grown, AllJoined
<1>4. N > n + 1
  <2>1. SUFFICES ASSUME N = n + 1 PROVE FALSE
    BY <1>1, <1>3
  <2>2. n + 1 \in 1 .. N
    BY <1>1, <1>3
  <2>3. TreeAt(g, lo, n + 1)
    BY <1>3, <2>2 DEF TreeRow
  <2>4. lo[n + 1] = n + 1
    BY <1>3, <2>3 DEF TreeAt
  <2>5. QED
    BY <1>1, <1>3, <2>1, <2>4
<1>5. ASSUME NEW p \in n .. N - 1 PROVE Leads(g, N, p)
  <2>1. N \in p + 1 .. N /\ ~(lo[N] > p) /\ p \in n .. N
    BY <1>1, <1>3
  <2>2. ~Peak(lo, N, p)
    BY <2>1 DEF Peak
  <2>3. QED
    BY <1>3, <2>1, <2>2
<1>6. \A p \in 1 .. N : g[p].pos \in Nat /\ TreeAt(g, lo, p)
  BY <1>3 DEF TreeRow
<1>7. ASSUME NEW p \in 1 .. N PROVE UpAt(g, N, p)
  <2>1. SUFFICES ASSUME p < N, g[p].pos > 0, NEW u \in Int, u = p + g[p].pos
                 PROVE  u <= N /\ g[u].lvl > 0 /\ p \in {u + g[u].lcos, u - 1}
    BY <1>6 DEF UpAt
  <2>2. CASE p >= n
    <3>1. Leads(g, N, p)
      BY <1>1, <1>5, <2>1, <2>2
    <3>2. QED
      BY <2>1, <3>1 DEF Leads
  <2>3. CASE p < n
    <3>1. p \in 1 .. n /\ p \in 1 .. N - 1
      BY <1>1, <1>3, <2>3
    <3>2. UpAt(g, n, p)
      BY <1>2, <3>1 DEF FileTree
    <3>3. u <= n /\ g[u].lvl > 0 /\ p \in {u + g[u].lcos, u - 1}
      BY <2>1, <2>3, <3>2 DEF UpAt
    <3>4. QED
      BY <1>1, <1>3, <2>1, <3>1, <3>3
  <2>4. QED
    BY <1>1, <2>2, <2>3
<1>8. FileTree(g, lo, N)
  BY <1>1, <1>3, <1>6, <1>7 DEF FileTree
<1>9. OpenAt(g, N, n + 1)
  <2>1. \A p \in n + 1 .. N - 1 : g[p].pos > 0
    BY <1>1, <1>5 DEF Leads
  <2>2. n + 1 \in 1 .. N - 1
    BY <1>1, <1>4
  <2>3. QED
    BY <1>3, <2>1, <2>2 DEF OpenAt
<1>10. g[n + 1].isn /\ g[n + 1].pn = NoPage
  <2>1. n + 1 \in n + 1 .. N
    BY <1>1, <1>4
  <2>2. QED
    BY <1>3, <2>1 DEF AddedAt
<1>11. \A p \in n .. N - 1 : g[p].pos > 0
  BY <1>5 DEF Leads
<1>12. QED
  BY <1>4, <1>8, <1>9, <1>10, <1>11 DEF Padding

(* It holds the pages the tree below the old root held.                    *)
LEMMA TreeGrown ==
    ASSUME NEW g \in [Pos -> Block], NEW h \in Header,
           NEW A, A \subseteq Nat, \A a \in A : a < NoPage,
           NEW lo, Holds(g, lo, h, A), h.fslo = NoPos,
           NEW E, \A e \in E, a \in A : a <= e,
           NEW N \in Pos, Grown(g, lo, N, h.rno, E), AllJoined(lo, N, h.rno),
           \A p \in 1 .. N - 1 : g[p].rsvd = "R", g[N].rsvd = "root",
           NEW h2, h2.rno = N, h2.fslo = h.rno + 1
    PROVE  /\ N > h.rno + 1 /\ Holds(g, lo, h2, A)
           /\ Padding(g, h.rno + 1)
<1> DEFINE n == h.rno
<1>1. /\ n \in Nat /\ n >= 1 /\ n \in Pos /\ FirstOpen(h) = n + 1 /\ 1 .. n \subseteq Pos
      /\ N \in Nat /\ 1 .. N \subseteq Pos
  BY FirstOpenType, PosFacts
<1>2. FileTree(g, lo, n) /\ PageRow(g, n, n + 1, A) /\ Ordered(g, lo, n, n + 1)
  BY <1>1 DEF Holds
<1>3. N > n /\ \A p \in n + 1 .. N : AddedAt(g, lo, n, E, p)
  BY DEF Grown, AllJoined
<1>4. N > n + 1 /\ FileTree(g, lo, N) /\ OpenAt(g, N, n + 1) /\ Padding(g, n + 1)
  BY <1>1, <1>2, TreeJoined
<1>5. \A p \in 1 .. N : TreeAt(g, lo, p)
  BY <1>4 DEF FileTree
<1> HIDE DEF n
<1>6. /\ \A x \in 1 .. n : LeafAt(g, n, x) => g[x].pn \in A /\ ~g[x].isn
      /\ \A x \in 1 .. n : LeafAt(g, N, x) <=> LeafAt(g, n, x)
  <2>1. \A x \in 1 .. n : x \in 1 .. N - 1 /\ x \in 1 .. N /\ x < n + 1
    BY <1>1, <1>3
  <2>2. \A x \in 1 .. n : LeafAt(g, n, x) => g[x].pn \in A /\ ~g[x].isn
    BY <1>2, <2>1 DEF PageRow
  <2>3. QED
    BY <2>1, <2>2 DEF LeafAt
<1>7. \A x \in n + 1 .. N : LeafAt(g, N, x) => g[x].pn = NoPage /\ g[x].isn
  BY <1>3 DEF LeafAt, AddedAt
<1>8. PageRow(g, N, n + 1, A)
  <2>1. ASSUME NEW x \in 1 .. N, LeafAt(g, N, x)
        PROVE  /\ x < n + 1 => g[x].pn \in A /\ ~g[x].isn
               /\ x >= n + 1 => \A p \in A : p < g[x].pn
               /\ x > n + 1 => g[x].pn = NoPage /\ g[x].isn
    <3>1. CASE x <= n
      <4>1. x \in 1 .. n
        BY <1>1, <3>1
      <4>2. QED
        BY <1>1, <1>6, <2>1, <3>1, <4>1
    <3>2. CASE x > n
      <4>1. x \in n + 1 .. N
        BY <1>1, <3>2
      <4>2. g[x].pn = NoPage /\ g[x].isn
        BY <1>7, <2>1, <4>1
      <4>3. QED
        BY <1>1, <3>2, <4>2
    <3>3. QED
      BY <1>1, <3>1, <3>2
  <2>2. ASSUME NEW p \in A PROVE \E x \in 1 .. N : LeafAt(g, N, x) /\ x < n + 1 /\ g[x].pn = p
    <3>1. PICK x \in 1 .. n : LeafAt(g, n, x) /\ g[x].pn = p
      BY <1>2 DEF PageRow
    <3>2. x \in 1 .. N /\ x < n + 1
      BY <1>1, <1>3
    <3>3. QED
      BY <1>6, <3>1, <3>2
  <2>3. ASSUME NEW x \in 1 .. N, NEW y \in 1 .. N,
               LeafAt(g, N, x), LeafAt(g, N, y), x < y, y < n + 1
        PROVE  g[x].pn < g[y].pn
    <3>1. x \in 1 .. n /\ y \in 1 .. n
      BY <1>1, <2>3
    <3>2. LeafAt(g, n, x) /\ LeafAt(g, n, y)
      BY <1>6, <2>3, <3>1
    <3>3. QED
      BY <1>2, <2>3, <3>1, <3>2 DEF PageRow
  <2>4. QED
    BY <2>1, <2>2, <2>3 DEF PageRow
<1>9. Ordered(g, lo, N, n + 1)
  <2>1. ASSUME NEW a \in 1 .. N, NEW x \in 1 .. N, LeafAt(g, N, x), x < n + 1
        PROVE  Sorts(g, lo, a, x)
    <3>1. x \in 1 .. n
      BY <1>1, <2>1
    <3>2. LeafAt(g, n, x) /\ g[x].pn \in A
      BY <1>6, <2>1, <3>1
    <3>3. CASE a <= n
      <4>1. a \in 1 .. n
        BY <1>1, <3>3
      <4>2. Sorts(g, lo, a, x)
        BY <1>2, <1>6, <2>1, <3>1, <3>2, <4>1 DEF Ordered
      <4>3. QED
        BY <3>2, <4>2 DEF Sorts
    <3>4. CASE a > n
      <4>1. SUFFICES ASSUME g[a].lvl > 0, lo[a] <= x
                     PROVE  g[x].pn <= g[a].pn <=> x <= a + g[a].lcos
        BY DEF Sorts
      <4>2. a \in n + 1 .. N
        BY <1>1, <3>4
      <4>3. lo[a] <= n
        <5>1. lo[a] \in 1 .. a
          BY <1>5 DEF TreeAt
        <5>2. QED
          BY <1>1, <3>1, <4>1, <5>1
      <4>4. a + g[a].lcos = n /\ g[a].pn \in E
        <5>1. AddedAt(g, lo, n, E, a)
          BY <1>3, <4>2
        <5>2. QED
          BY <4>1, <4>3, <5>1 DEF AddedAt
      <4>5. x <= a + g[a].lcos
        BY <1>1, <3>1, <4>4
      <4>6. g[x].pn <= g[a].pn
        BY <3>2, <4>4
      <4>7. QED
        BY <4>5, <4>6
    <3>5. QED
      BY <1>1, <3>3, <3>4
  <2>2. QED
    BY <2>1 DEF Ordered
<1>10. Holds(g, lo, h2, A)
  <2>1. h2.fslo # NoPos /\ FirstOpen(h2) = n + 1 /\ h2.rno = N /\ h2.fslo = n + 1
    BY <1>1 DEF FirstOpen, NoPos, n
  <2>2. QED
    BY <1>4, <1>8, <1>9, <2>1 DEF Holds
<1>11. QED
  BY <1>4, <1>10 DEF n

LEMMA ExtendScanInv ==
    ASSUME TypeOK, NEW lo, IInvAt(lo), ExtendScan
    PROVE  TypeOK' /\ IInvAt(lo)'
<1>1. Sound(lo) /\ OpInv(lo) /\ Offsets
  BY InvParts
<1>2. /\ pc = "extend" /\ stage = "root" /\ q = <<>>
      /\ stage' = "idle" /\ at' = 0 /\ hlev' = NoPad /\ wpos' = 1
      /\ BeginScan(hdr.rno) /\ pc' = "scan"
      /\ UNCHANGED <<file, hdr, op, ret, q, cbd, glob, slot, acked, cut>>
  BY DEF ExtendScan, storeVars
<1>3. Fresh /\ hdr.fslo = NoPos /\ NewTree(lo, Behind) /\ cbd = 0
  BY <1>1, <1>2 DEF OpInv, ExtendInv, ExtendStage
<1>4. Fresh /\ hdr.fslo = NoPos /\ Extended(lo) /\ cbd = 0
  <2>1. /\ file \in [Pos -> Block] /\ hdr \in Header /\ Holds(file, lo, hdr, Known)
        /\ Known \subseteq Nat /\ (\A a \in Known : a < NoPage)
        /\ \A e \in Behind, a \in Known : a <= e
    BY <1>1, TypeFacts DEF Sound, Behind
  <2>2. PICK h2 : h2 = [rno |-> glob.rno, fslo |-> hdr.rno + 1]
    OBVIOUS
  <2>3. h2.rno = glob.rno /\ h2.fslo = hdr.rno + 1
    BY <2>2
  <2>4. /\ glob.rno > hdr.rno + 1 /\ Holds(file, lo, h2, Known)
        /\ Padding(file, hdr.rno + 1)
    BY <1>3, <2>1, <2>3, TreeGrown DEF NewTree
  <2>5. RowCombines(file, hdr.rno, glob.rno)
    BY <1>3 DEF NewTree, Grown
  <2>6. file[hdr.rno].pos > 0
    <3>1. hdr.rno \in Pos /\ FileTree(file, lo, hdr.rno)
      BY <2>1 DEF Holds, FileTree
    <3>2. \A p \in hdr.rno .. glob.rno - 1 : file[p].pos > 0
      BY <1>3, <2>1, <3>1, TreeJoined DEF NewTree
    <3>3. hdr.rno \in hdr.rno .. glob.rno - 1
      <4>1. hdr.rno \in Nat /\ glob.rno \in Nat
        BY <1>3, <3>1, PosFacts DEF NewTree
      <4>2. QED
        BY <2>4, <4>1
    <3>4. QED
      BY <3>2, <3>3
  <2>7. QED
    BY <1>3, <2>2, <2>4, <2>5, <2>6 DEF Extended
<1>5. /\ hdr.rno \in Nat /\ hdr.rno >= 1 /\ (\A p \in 1 .. hdr.rno + 1 : Read(file, p).rsvd = "R")
  BY <1>4, ScanFacts
<1>6. cur' = hdr.rno
  <2>1. hdr.rno # 1 => hdr.rno - 1 \in 1 .. hdr.rno + 1
    BY <1>5
  <2>2. QED
    BY <1>2, <1>5, <2>1 DEF BeginScan
<1>7. TypeOK'
  <2>1. QueueTypeOK'
    <3>1. /\ q \in Seq(QNode) /\ cbd \in Nat /\ glob \in Globals
      BY DEF TypeOK, QueueTypeOK
    <3>2. at' \in Nat /\ hlev' \in Nat \cup {NoPad} /\ wpos' \in Nat
      BY <1>2
    <3>3. QED
      BY <1>2, <3>1, <3>2 DEF QueueTypeOK
  <2>2. cur' \in Int
    BY <1>5, <1>6
  <2>3. QED
    BY <1>2, <2>1, <2>2 DEF TypeOK, DiskTypeOK
<1>8. Sound(lo)'
  BY <1>1, <1>2, SoundQuiet DEF Busy
<1>9. ScanInv(lo)'
  BY <1>2, <1>4, <1>6 DEF ScanInv, Fresh, Extended, Known
<1>10. OpInv(lo)'
  BY <1>1, <1>2, <1>4, <1>9 DEF OpInv, SearchInv, UpdateInv, InsertInv, SepsInv, ClimbInv,
       ExtendInv, NextInv, AtRest, Inserting
<1>11. Offsets'
  BY <1>1, <1>2 DEF Offsets
<1>12. QED
  BY <1>7, <1>8, <1>10, <1>11 DEF IInvAt, OpInv

(* With the page in the open leaf, the file holds that page, too, as a     *)
(* header says that names the next leaf, or none when there is none.       *)
FilledWith(f, lo, h, A, p) ==
    /\ h.fslo # NoPos /\ f[h.fslo].pn = p /\ ~f[h.fslo].isn
    /\ p \in Nat /\ p < NoPage /\ \A a \in A : a < p
    /\ \A a \in h.fslo + 1 .. h.rno : Sorts(f, lo, a, h.fslo)

OpensNext(f, h, h2, c) ==
    /\ c \in h.fslo + 1 .. h.rno /\ \A x \in h.fslo + 1 .. c - 1 : f[x].lvl > 0
    /\ c < h.rno => f[c].lvl = 0
    /\ h2.rno = h.rno /\ h2.fslo = IF c = h.rno THEN NoPos ELSE c

LEMMA HoldsOneMore ==
    ASSUME NEW f \in [Pos -> Block], NEW lo, NEW h \in Header, NEW A, A \subseteq Nat,
           Holds(f, lo, h, A), NEW p, FilledWith(f, lo, h, A, p),
           NEW c, NEW h2 \in Header, OpensNext(f, h, h2, c)
    PROVE  /\ Holds(f, lo, h2, A \cup {p})
           /\ \A x \in 1 .. h.rno : LeafAt(f, h.rno, x) => (x < FirstOpen(h2) <=> x <= h.fslo)
<1>1. /\ h.fslo # NoPos /\ f[h.fslo].pn = p /\ ~f[h.fslo].isn
      /\ p \in Nat /\ p < NoPage /\ (\A a \in A : a < p)
      /\ \A a \in h.fslo + 1 .. h.rno : Sorts(f, lo, a, h.fslo)
  BY DEF FilledWith
<1>2. /\ c \in h.fslo + 1 .. h.rno /\ (\A x \in h.fslo + 1 .. c - 1 : f[x].lvl > 0)
      /\ (c < h.rno => f[c].lvl = 0)
      /\ h2.rno = h.rno /\ h2.fslo = IF c = h.rno THEN NoPos ELSE c
  BY DEF OpensNext
<1> USE <1>1, <1>2
<1> DEFINE n == h.rno
           s == h.fslo
           S == FirstOpen(h2)
           B == A \cup {p}
<1>3. /\ n \in Nat /\ n \in Pos /\ 1 .. n \subseteq Pos /\ n \in 1 .. n
      /\ s \in 1 .. n - 1 /\ s \in 1 .. n /\ FirstOpen(h) = s
  BY FirstOpenType
<1>4. FileTree(f, lo, n) /\ OpenAt(f, n, s) /\ PageRow(f, n, s, A) /\ Ordered(f, lo, n, s)
  BY <1>3 DEF Holds
<1>5. c \in 1 .. n /\ c > s /\ c \in Int
  BY <1>3
<1>6. S = IF c = n THEN n + 1 ELSE c
  BY <1>3, <1>5 DEF FirstOpen, NoPos
<1>7. f[n].lvl > 0
  <2>1. TreeAt(f, lo, n) /\ lo[n] = 1 /\ f[n].lvl \in Nat
    BY <1>3, <1>4, BlockTypes DEF FileTree
  <2>2. QED
    BY <1>3, <2>1 DEF TreeAt
<1>8. \A x \in 1 .. n : LeafAt(f, n, x) => (x < S <=> x <= s)
  <2>1. SUFFICES ASSUME NEW x \in 1 .. n, f[x].lvl = 0, x > s PROVE ~(x < S)
    BY <1>3, <1>5, <1>6 DEF LeafAt
  <2>2. x # n
    BY <1>7, <2>1
  <2>3. ~(x \in s + 1 .. c - 1)
    BY <2>1
  <2>4. QED
    BY <1>3, <1>5, <1>6, <2>1, <2>2, <2>3
<1>9. S \in Int /\ S > s
  BY <1>3, <1>5, <1>6
<1> HIDE DEF S
<1>10. NoPage \in Nat /\ \A a \in B : a <= p /\ a < NoPage /\ a \in Nat
  BY DiskAssumption
<1>11. ASSUME h2.fslo # NoPos PROVE OpenAt(f, n, h2.fslo)
  <2>1. h2.fslo = c /\ c # n
    BY <1>11
  <2>2. c \in 1 .. n - 1 /\ f[c].lvl = 0
    BY <1>3, <1>5, <2>1
  <2>3. \A a \in c .. n - 1 : a \in s .. n - 1
    BY <1>3, <1>5
  <2>4. QED
    BY <1>4, <2>1, <2>2, <2>3 DEF OpenAt
<1>12. ASSUME NEW x \in 1 .. n, LeafAt(f, n, x)
       PROVE  /\ x < S => f[x].pn \in B /\ ~f[x].isn
              /\ x >= S => \A a \in B : a < f[x].pn
              /\ x > S => f[x].pn = NoPage /\ f[x].isn
  <2>1. CASE x < s
    <3>1. f[x].pn \in A /\ ~f[x].isn
      BY <1>4, <1>12, <2>1 DEF PageRow
    <3>2. ~(x >= S) /\ ~(x > S)
      BY <1>3, <1>9, <2>1
    <3>3. QED
      BY <3>1, <3>2
  <2>2. CASE x = s
    <3>1. ~(x >= S) /\ ~(x > S)
      BY <1>3, <1>9, <2>2
    <3>2. QED
      BY <2>2, <3>1
  <2>3. CASE x > s
    <3>1. f[x].pn = NoPage /\ f[x].isn
      BY <1>4, <1>12, <2>3 DEF PageRow
    <3>2. ~(x < S)
      BY <1>3, <1>8, <1>12, <2>3
    <3>3. QED
      BY <1>10, <3>1, <3>2
  <2>4. QED
    BY <1>3, <2>1, <2>2, <2>3
<1>13. ASSUME NEW a \in B PROVE \E x \in 1 .. n : LeafAt(f, n, x) /\ x < S /\ f[x].pn = a
  <2>1. CASE a = p
    <3>1. LeafAt(f, n, s) /\ s < S /\ f[s].pn = a
      BY <1>3, <1>4, <1>9, <2>1 DEF LeafAt, OpenAt
    <3>2. QED
      BY <1>3, <3>1
  <2>2. CASE a \in A
    <3>1. PICK x \in 1 .. n : LeafAt(f, n, x) /\ x < s /\ f[x].pn = a
      BY <1>4, <2>2 DEF PageRow
    <3>2. x < S
      BY <1>3, <1>9, <3>1
    <3>3. QED
      BY <3>1, <3>2
  <2>3. QED
    BY <2>1, <2>2
<1>14. ASSUME NEW x \in 1 .. n, NEW y \in 1 .. n, LeafAt(f, n, x), LeafAt(f, n, y), x < y, y < S
       PROVE  f[x].pn < f[y].pn
  <2>1. y <= s
    BY <1>8, <1>14
  <2>2. x <= s
    BY <1>3, <1>14, <2>1
  <2>3. QED
    BY <1>3, <1>4, <1>14, <2>2, RowOrder
<1>15. PageRow(f, n, S, B)
  <2> HIDE DEF B
  <2>1. QED
    BY <1>12, <1>13, <1>14 DEF PageRow
<1>16. ASSUME NEW a \in 1 .. n, NEW x \in 1 .. n, LeafAt(f, n, x), x < S
       PROVE  Sorts(f, lo, a, x)
  <2>1. x <= s
    BY <1>8, <1>16
  <2>2. CASE x < s
    BY <1>4, <1>16, <2>2 DEF Ordered
  <2>3. CASE x = s
    <3>1. CASE a > s
      <4>1. a \in s + 1 .. n
        BY <1>3, <3>1
      <4>2. QED
        BY <2>3, <4>1
    <3>2. CASE ~(a > s)
      BY <2>3, <3>2, <1>3 DEF Sorts
    <3>3. QED
      BY <3>1, <3>2
  <2>4. QED
    BY <1>3, <2>1, <2>2, <2>3
<1>17. Holds(f, lo, h2, B)
  BY <1>4, <1>11, <1>15, <1>16 DEF Holds, Ordered, S
<1>18. QED
  BY <1>8, <1>17 DEF S

LEMMA InsertReturnsInv ==
    ASSUME TypeOK, NEW lo, IInvAt(lo), InsertReturns
    PROVE  TypeOK' /\ IInvAt(lo)'
<1> DEFINE n == hdr.rno
           h2 == NewHeader
           c == cur
           B == Known \cup {op.page}
<1>1. Sound(lo) /\ OpInv(lo) /\ Offsets
  BY InvParts
<1>2. /\ pc = "next" /\ (AtPadLeaf \/ ScanFails) /\ hdr' = h2 /\ Return
      /\ acked' = [p \in B |-> IF p = op.page THEN op.hash ELSE acked[p]]
      /\ cut' = cut \cap Known
      /\ UNCHANGED <<file, queueVars>>
  BY DEF InsertReturns, ScanEnded, Known
<1>3. UNCHANGED <<file, stage, cbd, hlev, glob>>
  BY <1>2 DEF queueVars
<1>4. Inserting
  BY <1>2 DEF Inserting
<1>5. /\ file \in [Pos -> Block] /\ hdr \in Header /\ n \in Nat /\ n \in Pos
      /\ 1 .. n \subseteq Pos /\ n \in 1 .. n
      /\ Holds(file, lo, hdr, Known)
      /\ slot = hdr.fslo /\ slot # NoPos /\ slot \in 1 .. n - 1 /\ slot \in Pos /\ FirstOpen(hdr) = slot
      /\ file[slot].lvl = 0 /\ Fresh /\ glob.rno = n
      /\ file[n].rsvd = "root" /\ \A p \in 1 .. n - 1 : file[p].rsvd = "R"
  BY <1>4, InsertFacts
<1>6. file[slot].pn = op.page /\ file[slot].h = op.hash /\ ~file[slot].isn
  BY <1>1, <1>2, <1>4 DEF OpInv, InsertInv
<1>7. /\ op.page \in Nat /\ op.hash \in Hash /\ Known \subseteq Nat /\ Known \subseteq Pages
      /\ cut \subseteq Pages
  BY TypeFacts
<1>8. op.page < NoPage /\ op.page \in Pages /\ \A a \in Known : a < op.page
  BY <1>5, StoreAssumption DEF Fresh, StoreAssumption
<1>9. /\ cur \in slot .. n
      /\ \A x \in slot + 1 .. cur - 1 : file[x].lvl > 0
      /\ \A a \in slot + 1 .. n : Sorts(file, lo, a, slot)
  BY <1>1, <1>2 DEF OpInv, NextInv, SepsInv
<1>10. cur \in 1 .. n /\ cur \in Pos /\ cur # Nowhere /\ Read(file, cur) = file[cur]
       /\ file[cur].lvl \in Nat
  <2>1. cur \in 1 .. n /\ cur \in Pos
    BY <1>5, <1>9
  <2>2. QED
    BY <1>5, <2>1, BlockTypes DEF Nowhere, Read
<1>11. ScanFails <=> cur = n
  <2>1. cur < n => file[cur].rsvd = "R"
    BY <1>5, <1>10
  <2>2. cur < n \/ cur = n
    BY <1>5, <1>10
  <2>3. QED
    BY <1>5, <1>10, <2>1, <2>2 DEF ScanFails
<1>12. /\ cur # n => file[cur].lvl = 0 /\ file[cur].isn
       /\ cur # slot
  <2>1. cur # n => file[cur].lvl = 0 /\ file[cur].isn
    BY <1>2, <1>10, <1>11 DEF AtPadLeaf, IsInterior
  <2>2. slot # n
    BY <1>5
  <2>3. QED
    BY <1>6, <2>1, <2>2
<1>13. cur \in slot + 1 .. n
  BY <1>5, <1>9, <1>10, <1>12
<1>14. /\ h2.rno = n /\ h2.fslo = (IF cur = n THEN NoPos ELSE cur) /\ h2 \in Header
  <2>1. h2 = [rno |-> n, fslo |-> IF cur = n THEN NoPos ELSE cur]
    BY <1>5, <1>10, <1>11 DEF NewHeader, ScanFound
  <2>2. n \in 0 .. MaxPos /\ cur \in 0 .. MaxPos /\ NoPos \in 0 .. MaxPos
    BY <1>5, <1>10, DiskAssumption DEF Pos, NoPos
  <2> HIDE DEF h2
  <2>3. QED
    BY <2>1, <2>2 DEF Header
<1> HIDE DEF h2
<1>15. /\ Holds(file, lo, h2, B)
       /\ \A x \in 1 .. n : LeafAt(file, n, x) => (x < FirstOpen(h2) <=> x <= slot)
  <2>1. c \in hdr.fslo + 1 .. hdr.rno /\ \A x \in hdr.fslo + 1 .. c - 1 : file[x].lvl > 0
    BY <1>5, <1>9, <1>13
  <2>2. c < hdr.rno => file[c].lvl = 0
    BY <1>5, <1>12, <1>13
  <2>3. /\ h2.rno = hdr.rno /\ h2.fslo = (IF c = hdr.rno THEN NoPos ELSE c)
        /\ \A a \in hdr.fslo + 1 .. hdr.rno : Sorts(file, lo, a, hdr.fslo)
    BY <1>5, <1>9, <1>14
  <2>4. file[hdr.fslo].pn = op.page /\ ~file[hdr.fslo].isn /\ hdr.fslo # NoPos
    BY <1>5, <1>6
  <2> HIDE DEF c
  <2>5. OpensNext(file, hdr, h2, c)
    BY <2>1, <2>2, <2>3 DEF OpensNext
  <2>6. FilledWith(file, lo, hdr, Known, op.page)
    BY <1>7, <1>8, <2>3, <2>4 DEF FilledWith
  <2>7. /\ Holds(file, lo, h2, Known \cup {op.page})
        /\ \A x \in 1 .. hdr.rno : LeafAt(file, hdr.rno, x) => (x < FirstOpen(h2) <=> x <= hdr.fslo)
    BY <1>5, <1>7, <1>14, <2>5, <2>6, HoldsOneMore
  <2>8. QED
    BY <1>5, <2>7
<1>16. /\ Known' = B /\ acked'[op.page] = op.hash /\ op.page \notin Known
       /\ \A p \in Known : acked'[p] = acked[p]
  <2>1. op.page \notin Known
    BY <1>7, <1>8
  <2>2. QED
    BY <1>2, <2>1 DEF Known
<1>17. TypeOK'
  <2>1. QueueTypeOK'
    BY <1>2, QueueSame DEF TypeOK
  <2>2. DOMAIN acked' \subseteq Pages /\ cut' \subseteq Pages
    BY <1>2, <1>7, <1>8, <1>16 DEF Known
  <2>3. DiskTypeOK'
    BY <1>2, <1>5, <1>14 DEF DiskTypeOK
  <2>4. stage' \in {"idle", "walk", "flush", "pad", "root"}
    BY <1>3 DEF TypeOK
  <2>5. QED
    BY <1>2, <2>1, <2>2, <2>3, <2>4, ReturnType DEF TypeOK
<1>18. Sound(lo)'
  <2>1. FirstOpen(hdr)' = FirstOpen(h2) /\ Busy' = {}
    BY <1>2, ReturnType DEF FirstOpen, Busy
  <2>2. ASSUME NEW x \in 1 .. n, LeafAt(file, n, x), x < FirstOpen(h2), file[x].pn \notin cut'
        PROVE  file[x].h = acked'[file[x].pn]
    <3>1. x <= slot
      BY <1>15, <2>2
    <3>2. CASE x = slot
      BY <1>6, <1>16, <3>2
    <3>3. CASE x < slot
      <4>1. file[x].pn \in Known
        BY <1>5, <2>2, <3>3 DEF Holds, PageRow
      <4>2. file[x].pn \notin cut \cup Busy
        BY <1>2, <1>16, <2>2, <4>1 DEF Busy
      <4>3. file[x].h = acked[file[x].pn]
        BY <1>1, <1>5, <2>2, <3>3, <4>2 DEF Sound, HashesShown
      <4>4. QED
        BY <1>16, <4>1, <4>3
    <3>4. QED
      BY <1>5, <3>1, <3>2, <3>3
  <2>3. HashesShown'
    BY <1>2, <1>14, <2>1, <2>2 DEF HashesShown
  <2>4. QED
    BY <1>2, <1>15, <1>16, <2>3 DEF Sound
<1>19. OpInv(lo)'
  <2>1. stage = "idle" /\ cbd = 0 /\ hlev = NoPad
    BY <1>1, <1>2 DEF OpInv, AtRest
  <2>2. QED
    BY <1>2, <1>3, <2>1, IdleInv, ReturnType
<1>20. Offsets'
  BY <1>1, <1>3 DEF Offsets
<1>21. QED
  BY <1>17, <1>18, <1>19, <1>20 DEF IInvAt, OpInv

-----------------------------------------------------------------------------
(* The steps of the extension work on the row of blocks and queued nodes.  *)
RowReads(t, f, w, s) ==
    /\ \A p \in 1 .. w - 1 : t[p] = f[p]
    /\ \A i \in 1 .. Len(s) : t[w - 1 + i] = s[i]

LEMMA RowIndex ==
    ASSUME NEW f, NEW w \in Nat, w >= 1, NEW s, Len(s) \in Nat
    PROVE  RowReads(RowOf(f, w, s), f, w, s)
<1>1. ASSUME NEW p \in 1 .. w - 1 PROVE RowOf(f, w, s)[p] = f[p]
  <2>1. p \in 1 .. w - 1 + Len(s) /\ p < w
    OBVIOUS
  <2>2. QED
    BY <2>1 DEF RowOf
<1>2. ASSUME NEW i \in 1 .. Len(s) PROVE RowOf(f, w, s)[w - 1 + i] = s[i]
  <2>1. w - 1 + i \in 1 .. w - 1 + Len(s) /\ ~(w - 1 + i < w) /\ w - 1 + i - w + 1 = i
    OBVIOUS
  <2>2. QED
    BY <2>1 DEF RowOf
<1>3. QED
  BY <1>1, <1>2 DEF RowReads

LEMMA NodeTypes ==
    ASSUME NEW d \in QNode
    PROVE  /\ d.pn \in Nat /\ d.lvl \in Nat /\ d.h \in Hash /\ d.isn \in BOOLEAN
           /\ d.lcos \in Int /\ d.rcos \in Int /\ d.pos \in Int /\ d.rm \in Nat
BY DEF QNode

(* The old root, written where it was, keeps what the file holds.          *)
KeepsOld(f, g, n) ==
    /\ \A x \in 1 .. n : SameShape(f, g, x) /\ g[x].h = f[x].h
    /\ \A x \in 1 .. n - 1 : g[x].pos = f[x].pos /\ g[x].rsvd = f[x].rsvd
    /\ g[n].pos \in Nat

(* What one step of the extension does, whatever operation asked for it.   *)
Grows(lo, lo2, A) ==
    /\ ExtendAt(lo2, A)' /\ hdr' = hdr
    /\ \A p \in 1 .. hdr.rno : lo2[p] = lo[p]
    /\ KeepsOld(file, file', hdr.rno)

LEMMA RowFacts ==
    ASSUME NEW lo, NEW A, ExtendAt(lo, A), stage # "root" \/ q # <<>>
    PROVE  LET n == hdr.rno
               N == StreamEnd
           IN  /\ file \in [Pos -> Block] /\ hdr \in Header /\ n \in Nat /\ n >= 1 /\ n \in Pos
               /\ 1 .. n \subseteq Pos
               /\ q \in Seq(QNode) /\ Len(q) \in Nat
               /\ wpos \in Nat /\ wpos >= n /\ wpos >= 1 /\ wpos <= MaxPos + 1
               /\ N = wpos - 1 + Len(q) /\ N \in Nat /\ n \in 1 .. N
               /\ \A p \in 1 .. wpos - 1 : Row[p] = file[p]
               /\ \A i \in 1 .. Len(q) : Row[wpos - 1 + i] = q[i] /\ q[i] \in QNode
               /\ Grown(Row, lo, N, n, A)
               /\ \A p \in 1 .. wpos - 1 : ~Peak(lo, N, p) /\ (p < N => file[p].rsvd = "R")
               /\ OldRoot(A) /\ PaddingQueued /\ ExtendStage(lo, A)
               /\ Row[n].lvl = file[n].lvl
<1> DEFINE n == hdr.rno
           N == StreamEnd
<1>1. RowInv(lo, A) /\ ExtendStage(lo, A)
  BY DEF ExtendAt
<1>2. /\ file \in [Pos -> Block] /\ hdr \in Header /\ n \in Nat /\ n >= 1 /\ n \in Pos
      /\ 1 .. n \subseteq Pos
  <2>1. file \in [Pos -> Block] /\ hdr \in Header /\ n \in Pos
    BY DEF ExtendAt, DiskTypeOK, FileTree
  <2>2. QED
    BY <2>1, PosFacts DEF Pos
<1>3. q \in Seq(QNode)
  BY DEF ExtendAt, QueueTypeOK
<1>4. Len(q) \in Nat /\ \A i \in 1 .. Len(q) : q[i] \in QNode
  BY <1>3
<1>5. wpos \in Nat /\ wpos >= n /\ wpos >= 1 /\ wpos <= MaxPos + 1
  <2>1. wpos \in n .. MaxPos + 1 /\ MaxPos \in Nat
    BY <1>1, DiskAssumption DEF RowInv
  <2>2. QED
    BY <1>2, <2>1
<1>6. Row = RowOf(file, wpos, q) /\ N = wpos - 1 + Len(q) /\ N \in Nat
  BY <1>4, <1>5, RowNow
<1>7. /\ \A p \in 1 .. wpos - 1 : Row[p] = file[p]
      /\ \A i \in 1 .. Len(q) : Row[wpos - 1 + i] = q[i]
  <2>1. wpos \in Nat /\ wpos >= 1 /\ Len(q) \in Nat
    BY <1>4, <1>5
  <2>2. RowReads(RowOf(file, wpos, q), file, wpos, q)
    BY <2>1, RowIndex, Zenon
  <2>3. QED
    BY <1>6, <2>2 DEF RowReads
<1>8. /\ Grown(Row, lo, N, n, A)
      /\ \A p \in 1 .. wpos - 1 : ~Peak(lo, N, p) /\ (p < N => file[p].rsvd = "R")
      /\ OldRoot(A) /\ PaddingQueued
  BY <1>1 DEF RowInv
<1>9. n \in 1 .. N
  BY <1>8 DEF Grown
<1>10. Row[n].lvl = file[n].lvl
  <2>1. CASE wpos = n
    <3>1. q # <<>> /\ q[1].lvl = file[n].lvl
      BY <1>8, <2>1 DEF OldRoot
    <3>2. 1 \in 1 .. Len(q) /\ wpos - 1 + 1 = n
      BY <1>3, <1>2, <2>1, <3>1
    <3>3. QED
      BY <1>7, <3>1, <3>2
  <2>2. CASE wpos > n
    <3>1. n \in 1 .. wpos - 1
      BY <1>2, <1>5, <2>2
    <3>2. QED
      BY <1>7, <3>1
  <2>3. QED
    BY <1>2, <1>5, <2>1, <2>2
<1>11. QED
  BY <1>1, <1>2, <1>3, <1>4, <1>5, <1>6, <1>7, <1>8, <1>9, <1>10

(* The old root written again, or nothing: the tree is the same.           *)
LEMMA TreeOld ==
    ASSUME NEW f \in [Pos -> Block], NEW g, NEW lo, NEW lo2, NEW n,
           FileTree(f, lo, n), KeepsOld(f, g, n), \A p \in 1 .. n : lo2[p] = lo[p]
    PROVE  FileTree(g, lo2, n)
<1>1. KeepsLinks(f, g, n)
  BY DEF KeepsOld, KeepsLinks, SameShape
<1>2. QED
  BY <1>1, TreeFrame

(* The rest of the invariant after a step that writes to the file, and     *)
(* after one that does not.                                                *)
LEMMA GrowsWriting ==
    ASSUME NEW lo, NEW A, ExtendAt(lo, A), hdr' = hdr,
           file' \in [Pos -> Block], KeepsOld(file, file', hdr.rno), Offsets', QueueTypeOK',
           stage' \in {"idle", "walk", "flush", "pad", "root"},
           stage' # "root" \/ q' # <<>> => RowInv(lo, A)', ExtendStage(lo, A)'
    PROVE  Grows(lo, lo, A)
<1>1. file \in [Pos -> Block] /\ hdr \in Header /\ FileTree(file, lo, hdr.rno)
  BY DEF ExtendAt, DiskTypeOK
<1>2. FileTree(file', lo, hdr.rno)
  <2>1. \A p \in 1 .. hdr.rno : lo[p] = lo[p]
    OBVIOUS
  <2>2. QED
    BY <1>1, <2>1, TreeOld
<1>3. ExtendAt(lo, A)'
  BY <1>1, <1>2 DEF ExtendAt, DiskTypeOK
<1>4. QED
  BY <1>3 DEF Grows

LEMMA GrowsQueued ==
    ASSUME NEW lo, NEW A, ExtendAt(lo, A), UNCHANGED <<file, hdr>>,
           NEW lo2, \A p \in 1 .. hdr.rno : lo2[p] = lo[p], QueueTypeOK',
           stage' \in {"idle", "walk", "flush", "pad", "root"},
           stage' # "root" \/ q' # <<>> => RowInv(lo2, A)', ExtendStage(lo2, A)'
    PROVE  Grows(lo, lo2, A)
<1>1. /\ file \in [Pos -> Block] /\ hdr \in Header /\ FileTree(file, lo, hdr.rno) /\ Offsets
      /\ hdr.rno \in Pos
  BY DEF ExtendAt, DiskTypeOK, FileTree
<1>2. KeepsOld(file, file', hdr.rno)
  <2>1. file[hdr.rno].pos \in Nat
    BY <1>1 DEF Offsets
  <2>2. QED
    BY <2>1 DEF KeepsOld, SameShape
<1>3. FileTree(file', lo2, hdr.rno)
  BY <1>1, <1>2, TreeOld
<1>4. ExtendAt(lo2, A)'
  BY <1>1, <1>3 DEF ExtendAt, DiskTypeOK, Offsets
<1>5. QED
  BY <1>2, <1>4 DEF Grows

LEMMA BeginGrows ==
    ASSUME NEW lo, NEW A, ExtendAt(lo, A), stage = "idle", BeginPadding,
           UNCHANGED <<file, hdr, q, at, cbd, wpos, glob>>
    PROVE  Grows(lo, lo, A)
<1> DEFINE n == hdr.rno
           N == StreamEnd
<1>1. hlev' = q[1].lvl /\ stage' = "pad"
  BY DEF BeginPadding
<1>2. /\ file \in [Pos -> Block] /\ n \in Nat /\ n >= 1
      /\ q \in Seq(QNode) /\ N = wpos - 1 + Len(q) /\ N \in Nat
      /\ Grown(Row, lo, N, n, A) /\ OldRoot(A) /\ ExtendStage(lo, A)
      /\ \A p \in 1 .. wpos - 1 : ~Peak(lo, N, p)
  BY RowFacts
<1>3. Len(q) = 1 /\ wpos = n /\ cbd = 0
  BY <1>2 DEF ExtendStage
<1>4. q[1] \in QNode /\ q[1].lvl = file[n].lvl /\ q[1].lvl \in Nat
  <2>1. q[1] \in QNode
    <3>1. q \in Seq(QNode) /\ Len(q) = 1
      BY <1>2, <1>3
    <3>2. QED
      BY ONLY <3>1
  <2>2. q[1].lvl = file[n].lvl
    <3>1. OldRoot(A) /\ wpos = hdr.rno
      BY <1>2, <1>3
    <3>2. QED
      BY ONLY <3>1 DEF OldRoot
  <2>3. q[1].lvl \in Nat
    BY <2>1, NodeTypes
  <2>4. QED
    BY <2>1, <2>2, <2>3
<1>5. N = n
  BY <1>2, <1>3
<1>6. Row' = Row /\ StreamEnd' = N
  BY RowNow, RowNext
<1>7. PadAt(Row, lo, N, n, wpos)
  <2>1. Peak(lo, N, n)
    BY <1>2, <1>5 DEF Peak
  <2>2. \A i, j \in 1 .. N : i < j => i \in 1 .. wpos - 1
    BY <1>2, <1>3, <1>5
  <2>3. Falls(Row, lo, N, N)
    BY <1>2, <2>2 DEF Falls
  <2>4. QED
    BY <1>2, <1>3, <1>5, <2>1, <2>3 DEF PadAt, Waits
<1>8. ExtendStage(lo, A)'
  BY <1>1, <1>3, <1>4, <1>6, <1>7 DEF ExtendStage
<1>9. RowInv(lo, A)'
  <2>1. RowInv(lo, A)
    BY DEF ExtendAt
  <2>2. QED
    BY <1>6, <2>1 DEF RowInv, OldRoot, PaddingQueued
<1>10. QueueTypeOK'
  BY <1>1, <1>4 DEF ExtendAt, QueueTypeOK
<1>11. stage' \in {"idle", "walk", "flush", "pad", "root"}
  BY <1>1
<1>12. \A p \in 1 .. hdr.rno : lo[p] = lo[p]
  OBVIOUS
<1>13. QED
  BY <1>8, <1>9, <1>10, <1>11, <1>12, GrowsQueued

(* A row that gets one node more, at the tail of the queue.                *)
LEMMA RowAppend ==
    ASSUME NEW f, NEW w \in Nat, w >= 1, NEW s \in Seq(QNode), NEW x \in QNode,
           NEW N, N = w - 1 + Len(s)
    PROVE  /\ \A p \in 1 .. N : RowOf(f, w, Append(s, x))[p] = RowOf(f, w, s)[p]
           /\ RowOf(f, w, Append(s, x))[N + 1] = x
           /\ w - 1 + Len(Append(s, x)) = N + 1
<1> DEFINE s2 == Append(s, x)
           k == Len(s)
<1>1. k \in Nat /\ N \in Nat /\ N = w - 1 + k
  OBVIOUS
<1>2. s2 \in Seq(QNode) /\ Len(s2) = k + 1 /\ s2[k + 1] = x /\ \A i \in 1 .. k : s2[i] = s[i]
  OBVIOUS
<1> HIDE DEF s2, k
<1>3. w - 1 + Len(s2) = N + 1
  BY <1>1, <1>2
<1>4. /\ \A p \in 1 .. N + 1 : RowOf(f, w, s2)[p] = IF p < w THEN f[p] ELSE s2[p - w + 1]
      /\ \A p \in 1 .. N : RowOf(f, w, s)[p] = IF p < w THEN f[p] ELSE s[p - w + 1]
  BY <1>1, <1>3 DEF RowOf, k
<1>5. ASSUME NEW p \in 1 .. N PROVE RowOf(f, w, s2)[p] = RowOf(f, w, s)[p]
  <2>1. p >= w => p - w + 1 \in 1 .. k
    BY <1>1
  <2>2. p \in 1 .. N + 1
    BY <1>1
  <2>3. CASE p < w
    BY <1>4, <2>2, <2>3
  <2>4. CASE p >= w
    <3>1. s2[p - w + 1] = s[p - w + 1]
      BY <1>2, <2>1, <2>4
    <3>2. QED
      BY <1>1, <1>4, <2>2, <2>4, <3>1
  <2>5. QED
    BY <1>1, <2>3, <2>4
<1>6. RowOf(f, w, s2)[N + 1] = x
  <2>1. N + 1 \in 1 .. N + 1 /\ ~(N + 1 < w) /\ N + 1 - w + 1 = k + 1
    BY <1>1
  <2>2. QED
    BY <1>2, <1>4, <2>1
<1>7. QED
  BY <1>3, <1>5, <1>6 DEF s2

LEMMA RowLonger ==
    ASSUME NEW lo, NEW A, ExtendAt(lo, A), stage # "root", NEW N, N = StreamEnd,
           wpos <= N, NEW f \in 1 .. N + 1, NEW lo2, lo2 = More(lo, N, f),
           UNCHANGED <<file, hdr, wpos>>, StreamEnd' = N + 1,
           Grown(Row', lo2, N + 1, hdr.rno, A), OldRoot(A)', PaddingQueued'
    PROVE  /\ RowInv(lo2, A)'
           /\ \A p \in 1 .. hdr.rno : lo2[p] = lo[p]
<1>1. /\ N \in Nat /\ wpos \in Nat /\ hdr.rno \in Nat /\ hdr.rno \in 1 .. N
      /\ \A p \in 1 .. wpos - 1 : ~Peak(lo, N, p) /\ (p < N => file[p].rsvd = "R")
  BY RowFacts
<1>2. wpos \in hdr.rno .. MaxPos + 1
  BY DEF ExtendAt, RowInv
<1>3. ASSUME NEW p \in 1 .. wpos - 1 PROVE ~Peak(lo2, N + 1, p) /\ file[p].rsvd = "R"
  <2>1. p \in 1 .. N /\ p < N
    BY <1>1
  <2>2. ~Peak(lo, N, p) /\ file[p].rsvd = "R"
    BY <1>1, <2>1
  <2>3. Peak(lo2, N + 1, p) <=> Peak(lo, N, p) /\ p < f
    BY <1>1, <2>1, MorePeaks
  <2>4. QED
    BY <2>2, <2>3
<1>4. \A p \in 1 .. hdr.rno : lo2[p] = lo[p]
  BY <1>1, MoreFacts
<1>5. RowInv(lo2, A)'
  BY <1>2, <1>3 DEF RowInv
<1>6. QED
  BY <1>4, <1>5

LEMMA PadNodeFacts ==
    /\ PadNode \in QNode /\ PadNode.lvl = 0 /\ PadNode.lcos = 0 /\ PadNode.rcos = 0
    /\ PadNode.pos = 0 /\ PadNode.pn = NoPage /\ PadNode.isn
<1>1. ZeroHash \in Hash /\ NoPage \in Nat
  BY DiskAssumption DEF ZeroHash, Hash, Byte
<1>2. PadNode \in QNode
  BY <1>1, MakeQNodeType DEF PadNode
<1>3. QED
  BY <1>2 DEF PadNode, MakeQNode

LEMMA PadGrows ==
    ASSUME NEW lo, NEW A, ExtendAt(lo, A), PadStep
    PROVE  \E lo2 : Grows(lo, lo2, A)
<1> DEFINE n == hdr.rno
<1>1. /\ stage = "pad" /\ q[Len(q)].lvl <= hlev /\ q' = Append(q, PadNode)
      /\ at' = Len(q) + 1 /\ stage' = "walk"
      /\ UNCHANGED <<file, hdr, cbd, hlev, wpos, glob>>
  BY DEF PadStep, Enqueue, Last
<1>2. PICK N : N = StreamEnd
  OBVIOUS
<1>3. /\ n \in Nat /\ wpos \in Nat /\ wpos >= n /\ wpos >= 1 /\ q \in Seq(QNode)
      /\ Len(q) \in Nat /\ N = wpos - 1 + Len(q) /\ N \in Nat
      /\ \A i \in 1 .. Len(q) : Row[wpos - 1 + i] = q[i] /\ q[i] \in QNode
      /\ Grown(Row, lo, N, n, A) /\ OldRoot(A) /\ PaddingQueued /\ ExtendStage(lo, A)
      /\ Row[n].lvl = file[n].lvl
  BY <1>1, <1>2, RowFacts
<1>4. PadAt(Row, lo, N, n, wpos) /\ hlev = file[n].lvl /\ cbd = 0
  BY <1>1, <1>2, <1>3 DEF ExtendStage
<1>5. wpos <= N
  BY <1>4 DEF PadAt
<1>6. Row[N].lvl <= Row[n].lvl
  <2>1. Len(q) \in 1 .. Len(q) /\ wpos - 1 + Len(q) = N
    BY <1>3, <1>5
  <2>2. Row[N] = q[Len(q)]
    BY <1>3, <2>1
  <2>3. QED
    BY <1>1, <1>3, <1>4, <2>2
<1>7. PICK lo2 : lo2 = More(lo, N, N + 1)
  OBVIOUS
<1>8. /\ \A p \in 1 .. N : Row'[p] = Row[p]
      /\ Row'[N + 1] = PadNode /\ StreamEnd' = N + 1
  <2>1. Row = RowOf(file, wpos, q) /\ Row' = RowOf(file, wpos, Append(q, PadNode))
        /\ StreamEnd' = wpos - 1 + Len(Append(q, PadNode))
    BY <1>1, RowNow, RowNext
  <2>2. PICK s, b, w : s = q /\ b = PadNode /\ w = wpos
    OBVIOUS
  <2>3. s \in Seq(QNode) /\ b \in QNode /\ w \in Nat /\ w >= 1 /\ N = w - 1 + Len(s)
    BY <1>3, <2>2, PadNodeFacts
  <2>4. /\ w - 1 + Len(Append(s, b)) = N + 1
        /\ RowOf(file, w, Append(s, b))[N + 1] = b
        /\ \A p \in 1 .. N : RowOf(file, w, Append(s, b))[p] = RowOf(file, w, s)[p]
    BY <2>3, RowAppend
  <2>5. QED
    BY <2>1, <2>2, <2>4
<1>9. PadRow(Row, Row', N)
  BY <1>8, PadNodeFacts DEF PadRow, Alike, SameShape
<1>10. Grown(Row', lo2, N + 1, n, A) /\ WalkAt(Row', lo2, N + 1, n, wpos, N + 1, 0)
  <2>1. wpos \in Int /\ wpos >= n
    BY <1>3
  <2>2. /\ Grown(Row', More(lo, N, N + 1), N + 1, n, A)
        /\ WalkAt(Row', More(lo, N, N + 1), N + 1, n, wpos, N + 1, 0)
    BY <1>3, <1>4, <1>6, <1>9, <2>1, GrowLeaf, Zenon
  <2>3. QED
    BY <1>7, <2>2
<1>11. OldRoot(A)'
  <2>1. ASSUME wpos = hdr.rno PROVE q' # <<>> /\ q'[1] = q[1]
    <3>1. Len(q) \in Nat /\ Len(q) >= 1
      BY <1>3, <1>5
    <3>2. QED
      BY <1>1, <1>3, <3>1
  <2>2. hdr' = hdr /\ wpos' = wpos /\ file' = file
    BY <1>1
  <2>3. QED
    BY <1>3, <2>1, <2>2 DEF OldRoot
<1>12. PaddingQueued'
  <2>1. ASSUME NEW i \in 1 .. Len(q'), wpos - 1 + i > n
        PROVE  RightmostPage(q'[i]) = NoPage
    <3>1. i \in 1 .. Len(q) + 1 /\ PadNode \in QNode /\ PadNode.lvl = 0 /\ PadNode.pn = NoPage
      BY <1>1, <1>3, PadNodeFacts
    <3>2. CASE i = Len(q) + 1
      BY <1>1, <1>3, <3>1, <3>2 DEF RightmostPage
    <3>3. CASE i \in 1 .. Len(q)
      BY <1>1, <1>3, <2>1, <3>1, <3>3 DEF PaddingQueued
    <3>4. QED
      BY <1>3, <3>1, <3>2, <3>3
  <2>2. QED
    BY <1>1, <2>1 DEF PaddingQueued
<1>13. N + 1 \in 1 .. N + 1
  BY <1>3
<1>14. RowInv(lo2, A)' /\ \A p \in 1 .. n : lo2[p] = lo[p]
  BY <1>1, <1>2, <1>5, <1>7, <1>8, <1>10, <1>11, <1>13, <1>12, RowLonger
<1>15. wpos - 1 + at' = N + 1
  BY <1>1, <1>3
<1>16. ExtendStage(lo2, A)'
  BY <1>1, <1>4, <1>8, <1>10, <1>15 DEF ExtendStage
<1>17. QueueTypeOK'
  <2>1. q' \in Seq(QNode) /\ at' \in Nat
    BY <1>1, <1>3, PadNodeFacts
  <2>2. QED
    BY <1>1, <2>1 DEF ExtendAt, QueueTypeOK
<1>18. stage' \in {"idle", "walk", "flush", "pad", "root"}
  BY <1>1
<1>19. Grows(lo, lo2, A)
  BY <1>1, <1>14, <1>16, <1>17, <1>18, GrowsQueued
<1>20. QED
  BY <1>19

(* A parent and the links to it.                                           *)
Links(x, c, e) ==
    /\ x.pos = e /\ x.lvl = c.lvl /\ x.lcos = c.lcos /\ x.rcos = c.rcos
    /\ x.pn = c.pn /\ x.isn = c.isn /\ x.h = c.h /\ x.rm = c.rm

Parents(p, l, d) ==
    /\ p.lvl = l.lvl + 1 /\ p.pos = 0 /\ p.lcos = -d /\ p.rcos = -1
    /\ p.pn = RightmostPage(l)

LEMMA NewParent ==
    ASSUME NEW l \in QNode, NEW r \in QNode, NEW d \in Int, NEW p, p = Combined(l, r, d)
    PROVE  p \in QNode /\ Parents(p, l, d) /\ p.h = Combine(l.h, r.h)
<1>1. /\ p \in QNode /\ p.lvl = l.lvl + 1 /\ p.pos = 0 /\ p.lcos = -d /\ p.rcos = -1
      /\ p.h = Combine(l.h, r.h)
  BY CombinedFacts
<1>2. p.pn = RightmostPage(l)
  BY DEF Combined
<1>3. QED
  BY <1>1, <1>2 DEF Parents

LEMMA NewLink ==
    ASSUME NEW c \in QNode, NEW p \in QNode, NEW e \in Int, NEW x, x = Linked(c, p, e)
    PROVE  x \in QNode /\ Links(x, c, e)
BY DEF Linked, QNode, Links

LinkedTwo(s, s2, k, a, x, y, z) ==
    /\ s2 \in Seq(QNode) /\ Len(s2) = k + 1 /\ s2[a] = x /\ s2[k] = y /\ s2[k + 1] = z
    /\ \A i \in 1 .. k : i # a /\ i # k => s2[i] = s[i]

LEMMA LinkTwo ==
    ASSUME NEW s \in Seq(QNode), NEW k \in Nat, k = Len(s), NEW a \in 1 .. k - 1,
           NEW x \in QNode, NEW y \in QNode, NEW z \in QNode
    PROVE  LinkedTwo(s, Append([s EXCEPT ![a] = x, ![k] = y], z), k, a, x, y, z)
<1> DEFINE s1 == [s EXCEPT ![a] = x, ![k] = y]
<1>1. /\ s1 \in Seq(QNode) /\ Len(s1) = k /\ s1[a] = x /\ s1[k] = y
      /\ \A i \in 1 .. k : i # a /\ i # k => s1[i] = s[i]
  OBVIOUS
<1> HIDE DEF s1
<1> DEFINE s2 == Append(s1, z)
<1>2. /\ s2 \in Seq(QNode) /\ Len(s2) = k + 1 /\ s2[k + 1] = z
      /\ \A i \in 1 .. k : s2[i] = s1[i]
  BY <1>1
<1> HIDE DEF s2
<1>3. LinkedTwo(s, s2, k, a, x, y, z)
  <2>1. a \in 1 .. k /\ k \in 1 .. k
    OBVIOUS
  <2>2. QED
    BY <1>1, <1>2, <2>1 DEF LinkedTwo
<1>4. QED
  BY <1>3 DEF s2, s1

Places(s, w, k, a, N, m) ==
    /\ w \in Nat /\ w >= 1 /\ s \in Seq(QNode) /\ k \in Nat /\ k = Len(s) /\ a \in 1 .. k - 1
    /\ N = w - 1 + k /\ m = w - 1 + a

RowLinked(f, w, s, s2, N, m, z) ==
    /\ NodeRow(RowOf(f, w, s), RowOf(f, w, s2), N, m)
    /\ RowOf(f, w, s2)[N + 1] = z /\ w - 1 + Len(s2) = N + 1

Linking(s, k, a, x, y, z) ==
    /\ Links(x, s[a], k + 1 - a) /\ Links(y, s[k], 1)
    /\ s[a].lvl = s[k].lvl /\ Parents(z, s[a], k + 1 - a)
    /\ z.h = Combine(s[a].h, s[k].h)

LEMMA RowLinks ==
    ASSUME NEW f, NEW w, NEW s, NEW k, NEW a, NEW N, NEW m, Places(s, w, k, a, N, m),
           NEW x, NEW y, NEW z, NEW s2, LinkedTwo(s, s2, k, a, x, y, z),
           Linking(s, k, a, x, y, z)
    PROVE  RowLinked(f, w, s, s2, N, m, z)
<1> DEFINE t == RowOf(f, w, s)
           t2 == RowOf(f, w, s2)
<1> USE DEF Places, Linking
<1>1. /\ Len(s2) = k + 1 /\ s2[a] = x /\ s2[k] = y /\ s2[k + 1] = z
      /\ \A i \in 1 .. k : i # a /\ i # k => s2[i] = s[i]
  BY DEF LinkedTwo
<1>2. RowReads(t, f, w, s) /\ RowReads(t2, f, w, s2)
  BY <1>1, RowIndex
<1> HIDE DEF t, t2
<1>3. /\ \A p \in 1 .. w - 1 : t2[p] = t[p]
      /\ \A i \in 1 .. k : t[w - 1 + i] = s[i]
      /\ \A i \in 1 .. k + 1 : t2[w - 1 + i] = s2[i]
  BY <1>1, <1>2 DEF RowReads
<1>4. t[m] = s[a] /\ t2[m] = x /\ t[N] = s[k] /\ t2[N] = y /\ t2[N + 1] = z
  <2>1. a \in 1 .. k /\ k \in 1 .. k /\ a \in 1 .. k + 1 /\ k \in 1 .. k + 1 /\ k + 1 \in 1 .. k + 1
    OBVIOUS
  <2>2. w - 1 + a = m /\ w - 1 + k = N /\ w - 1 + (k + 1) = N + 1
    OBVIOUS
  <2>3. t[w - 1 + a] = s[a] /\ t[w - 1 + k] = s[k]
    BY <1>3, <2>1
  <2>4. t2[w - 1 + a] = x /\ t2[w - 1 + k] = y /\ t2[w - 1 + (k + 1)] = z
    BY <1>1, <1>3, <2>1
  <2>5. QED
    BY <2>2, <2>3, <2>4
<1>5. ASSUME NEW p \in 1 .. N, p # m, p # N PROVE t2[p] = t[p]
  <2>1. CASE p < w
    BY <1>3, <2>1
  <2>2. CASE p >= w
    <3>1. PICK i \in 1 .. k : p = w - 1 + i
      <4>1. p - w + 1 \in 1 .. k /\ p = w - 1 + (p - w + 1)
        BY <2>2
      <4>2. QED
        BY <4>1
    <3>2. i # a /\ i # k /\ i \in 1 .. k + 1
      BY <1>5, <3>1
    <3>3. QED
      BY <1>1, <1>3, <3>1, <3>2
  <2>3. QED
    BY <2>1, <2>2
<1>6. SameShape(t, t2, m) /\ SameShape(t, t2, N) /\ t2[m].h = t[m].h /\ t2[N].h = t[N].h
  BY <1>4 DEF SameShape, Links
<1>7. \A p \in 1 .. N : SameShape(t, t2, p) /\ t2[p].h = t[p].h
  <2>1. ASSUME NEW p \in 1 .. N, p # m, p # N PROVE SameShape(t, t2, p) /\ t2[p].h = t[p].h
    BY <1>5, <2>1 DEF SameShape
  <2>2. QED
    BY <1>6, <2>1
<1>8. /\ k + 1 - a = N + 1 - m /\ -(k + 1 - a) = m - (N + 1)
  OBVIOUS
<1>9. NodeRow(t, t2, N, m)
  BY <1>4, <1>5, <1>7, <1>8 DEF NodeRow, Links, Parents
<1>10. w - 1 + Len(s2) = N + 1
  BY <1>1
<1>11. t2[N + 1] = z
  BY <1>4
<1>12. QED
  BY <1>9, <1>10, <1>11 DEF t, t2, RowLinked

LEMMA CombineGrows ==
    ASSUME NEW lo, NEW A, ExtendAt(lo, A), CombineStep
    PROVE  \E lo2 : Grows(lo, lo2, A)
<1> DEFINE n == hdr.rno
<1>1. /\ stage = "walk" /\ at > 1 /\ q[at - 1].lvl = q[Len(q)].lvl
      /\ q' = Append([q EXCEPT
                 ![at - 1] = Linked(q[at - 1], Combined(q[at - 1], q[Len(q)], Len(q) + 2 - at),
                                    Len(q) + 2 - at),
                 ![Len(q)] = Linked(q[Len(q)], Combined(q[at - 1], q[Len(q)], Len(q) + 2 - at), 1)],
                 Combined(q[at - 1], q[Len(q)], Len(q) + 2 - at))
      /\ cbd' = Combined(q[at - 1], q[Len(q)], Len(q) + 2 - at).lvl
      /\ at' = at - 1
      /\ UNCHANGED <<file, hdr, stage, hlev, wpos, glob>>
  <2>1. CombineStep /\ at - 1 \in Int /\ at - 1 # Len(q)
    <3>1. WalkAt(Row, lo, StreamEnd, hdr.rno, wpos, wpos - 1 + at, cbd)
      BY RowFacts DEF CombineStep, ExtendStage
    <3>2. wpos - 1 + at \in wpos .. StreamEnd /\ StreamEnd = wpos - 1 + Len(q)
          /\ Len(q) \in Nat /\ wpos \in Nat /\ at \in Nat
      BY <3>1, RowFacts DEF WalkAt, ExtendAt, QueueTypeOK, CombineStep
    <3>3. QED
      BY <3>2
  <2>2. QED
    BY <2>1 DEF CombineStep, Last
<1>2. PICK N : N = StreamEnd
  OBVIOUS
<1>3. /\ n \in Nat /\ wpos \in Nat /\ wpos >= n /\ wpos >= 1 /\ q \in Seq(QNode)
      /\ Len(q) \in Nat /\ N = wpos - 1 + Len(q) /\ N \in Nat
      /\ \A i \in 1 .. Len(q) : Row[wpos - 1 + i] = q[i] /\ q[i] \in QNode
      /\ Grown(Row, lo, N, n, A) /\ OldRoot(A) /\ PaddingQueued /\ ExtendStage(lo, A)
      /\ Row[n].lvl = file[n].lvl
  BY <1>1, <1>2, RowFacts
<1>4. WalkAt(Row, lo, N, n, wpos, wpos - 1 + at, cbd) /\ hlev = file[n].lvl
  BY <1>1, <1>2, <1>3 DEF ExtendStage
<1>5. PICK k \in Nat : k = Len(q)
  BY <1>3
<1>6. PICK a \in Int : a = at - 1
  BY DEF ExtendAt, QueueTypeOK
<1>7. PICK m \in Int : m = wpos - 1 + a
  BY <1>3
<1>8. /\ a \in 1 .. k - 1 /\ k \in 1 .. k /\ a \in 1 .. k /\ m + 1 = wpos - 1 + at /\ wpos = n
      /\ N = wpos - 1 + k /\ wpos <= m /\ m < N /\ m \in 1 .. N /\ wpos <= N /\ at = a + 1
  <2>1. PICK w \in Nat : w = wpos
    BY <1>3
  <2>2. w - 1 + at \in w .. N /\ w = n /\ at \in Nat
    BY <1>4, <2>1 DEF WalkAt, ExtendAt, QueueTypeOK
  <2>3. w >= 1 /\ N = w - 1 + k /\ at > 1 /\ N \in Nat /\ a = at - 1 /\ m = w - 1 + a
    BY <1>1, <1>3, <1>5, <1>6, <1>7, <2>1
  <2>4. at <= k /\ at = a + 1 /\ a >= 1
    BY <2>2, <2>3
  <2>5. QED
    BY <2>1, <2>2, <2>3, <2>4
<1>9. PICK p : p = Combined(q[a], q[k], k + 1 - a)
  OBVIOUS
<1>10. PICK x : x = Linked(q[a], p, k + 1 - a)
  OBVIOUS
<1>11. PICK y : y = Linked(q[k], p, 1)
  OBVIOUS
<1>12. /\ q' = Append([q EXCEPT ![a] = x, ![k] = y], p) /\ cbd' = p.lvl /\ at' = a
       /\ q[a].lvl = q[k].lvl
  <2>1. at - 1 = a /\ Len(q) = k /\ Len(q) + 2 - at = k + 1 - a
    BY <1>5, <1>6, <1>8
  <2>2. QED
    BY <1>1, <1>9, <1>10, <1>11, <2>1
<1>13. q[a] \in QNode /\ q[k] \in QNode /\ k + 1 - a \in Int /\ 1 \in Int
  BY <1>3, <1>5, <1>8
<1>14. /\ p \in QNode /\ Parents(p, q[a], k + 1 - a) /\ p.h = Combine(q[a].h, q[k].h)
       /\ x \in QNode /\ y \in QNode /\ Links(x, q[a], k + 1 - a) /\ Links(y, q[k], 1)
  <2>1. p \in QNode /\ Parents(p, q[a], k + 1 - a) /\ p.h = Combine(q[a].h, q[k].h)
    <3>1. PICK l \in QNode, r \in QNode, d \in Int : l = q[a] /\ r = q[k] /\ d = k + 1 - a
      BY <1>13
    <3>2. p = Combined(l, r, d)
      BY <1>9, <3>1
    <3>3. p \in QNode /\ Parents(p, l, d) /\ p.h = Combine(l.h, r.h)
      BY <3>2, NewParent, Zenon
    <3>4. QED
      BY <3>1, <3>3
  <2>2. x \in QNode /\ Links(x, q[a], k + 1 - a)
    BY <1>10, <1>13, <2>1, NewLink, Zenon
  <2>3. y \in QNode /\ Links(y, q[k], 1)
    BY <1>11, <1>13, <2>1, NewLink, Zenon
  <2>4. QED
    BY <2>1, <2>2, <2>3
<1>15. LinkedTwo(q, q', k, a, x, y, p)
  BY <1>3, <1>5, <1>8, <1>12, <1>14, LinkTwo
<1>16. NodeRow(Row, Row', N, m) /\ Row'[N + 1] = p /\ StreamEnd' = N + 1
  <2>1. Row = RowOf(file, wpos, q) /\ Row' = RowOf(file, wpos, q')
        /\ StreamEnd' = wpos - 1 + Len(q')
    BY <1>1, RowNow, RowNext
  <2>2. q[a].lvl = q[k].lvl
    BY <1>12
  <2>3. Places(q, wpos, k, a, N, m)
    BY <1>3, <1>5, <1>7, <1>8 DEF Places
  <2>4. Linking(q, k, a, x, y, p)
    BY <1>14, <2>2 DEF Linking
  <2>5. RowLinked(file, wpos, q, q', N, m, p)
    BY <1>15, <2>3, <2>4, RowLinks, Zenon
  <2>6. QED
    BY <2>1, <2>5 DEF RowLinked
<1>17. Row[m].lvl = Row[N].lvl
  <2>1. Row[wpos - 1 + a] = q[a] /\ Row[wpos - 1 + k] = q[k]
    BY <1>3, <1>5, <1>8
  <2>2. QED
    BY <1>7, <1>8, <1>12, <2>1
<1>18. m = n => Row'[N + 1].pn \in A
  <2>1. ASSUME m = n PROVE p.pn \in A
    <3>1. a = 1 /\ wpos = hdr.rno
      <4>1. PICK w \in Nat : w = wpos
        BY <1>3
      <4>2. m = w - 1 + a /\ w = n /\ m = n
        BY <1>7, <1>8, <2>1, <4>1
      <4>3. QED
        BY <4>1, <4>2
    <3>2. RightmostPage(q[1]) \in A
      BY <1>3, <3>1 DEF OldRoot
    <3>3. QED
      BY <1>14, <3>1, <3>2 DEF Parents
  <2>2. QED
    BY <1>16, <2>1
<1>19. \A i \in 1 .. k : n < wpos - 1 + i => RightmostPage(q[i]) = NoPage
  BY <1>3, <1>5 DEF PaddingQueued
<1>20. m > n => Row'[N + 1].pn = NoPage
  <2>1. Row'[N + 1].pn = RightmostPage(q[a])
    BY <1>14, <1>16 DEF Parents
  <2>2. QED
    BY <1>3, <1>7, <1>8, <1>19, <2>1
<1>21. PICK lo2 : lo2 = More(lo, N, lo[m])
  OBVIOUS
<1>22. /\ lo[m] <= m /\ Grown(Row', lo2, N + 1, n, A)
       /\ WalkAt(Row', lo2, N + 1, n, wpos, m, p.lvl)
  <2>1. wpos \in Int /\ m \in Int /\ wpos <= m /\ m < N
    BY <1>3, <1>8
  <2>2. WalkAt(Row, lo, N, n, wpos, m + 1, cbd)
    BY <1>4, <1>8
  <2>3. /\ lo[m] <= m /\ Grown(Row', More(lo, N, lo[m]), N + 1, n, A)
        /\ WalkAt(Row', More(lo, N, lo[m]), N + 1, n, wpos, m, Row'[N + 1].lvl)
    BY <1>3, <1>16, <1>17, <1>18, <1>20, <2>1, <2>2, GrowNode, Zenon
  <2>4. QED
    BY <1>16, <1>21, <2>3
<1>23. lo[m] \in 1 .. N + 1
  <2>1. TreeAt(Row, lo, m)
    BY <1>3, <1>8 DEF Grown, TreeRow
  <2>2. lo[m] \in 1 .. m
    BY <2>1 DEF TreeAt
  <2>3. m \in 1 .. N /\ N \in Nat
    BY <1>3, <1>8
  <2>4. QED
    BY ONLY <2>2, <2>3
<1>24. OldRoot(A)'
  <2>1. /\ q' # <<>> /\ q'[1].lvl = q[1].lvl /\ q'[1].lcos = q[1].lcos /\ q'[1].rcos = q[1].rcos
        /\ q'[1].pn = q[1].pn /\ q'[1].h = q[1].h /\ q'[1].isn = q[1].isn /\ q'[1].rm = q[1].rm
    <3>1. q' \in Seq(QNode) /\ Len(q') = k + 1
      BY <1>15 DEF LinkedTwo
    <3>2. CASE a = 1
      <4>1. q'[1] = x
        BY <1>15, <3>2 DEF LinkedTwo
      <4>2. QED
        BY <1>14, <3>1, <3>2, <4>1 DEF Links
    <3>3. CASE a # 1
      <4>1. q'[1] = q[1]
        <5>1. 1 \in 1 .. k /\ 1 # k
          BY <1>8, <3>3
        <5>2. QED
          BY <1>15, <3>3, <5>1 DEF LinkedTwo
      <4>2. QED
        BY <3>1, <4>1
    <3>4. QED
      BY <3>2, <3>3
  <2>2. RightmostPage(q'[1]) = RightmostPage(q[1])
    BY <2>1 DEF RightmostPage
  <2>3. hdr' = hdr /\ wpos' = wpos /\ file' = file
    BY <1>1
  <2>4. QED
    BY <1>3, <2>1, <2>2, <2>3 DEF OldRoot
<1>25. PaddingQueued'
  <2>1. q' \in Seq(QNode) /\ Len(q') = k + 1
    BY <1>15 DEF LinkedTwo
  <2>2. x.lvl = q[a].lvl /\ x.pn = q[a].pn /\ x.rm = q[a].rm
        /\ y.lvl = q[k].lvl /\ y.pn = q[k].pn /\ y.rm = q[k].rm
    BY <1>14 DEF Links
  <2>3. RightmostPage(x) = RightmostPage(q[a]) /\ RightmostPage(y) = RightmostPage(q[k])
    BY <2>2 DEF RightmostPage
  <2>4. RightmostPage(p) = RightmostPage(q[k])
    <3>1. p.lvl = q[a].lvl + 1 /\ q[a].lvl \in Nat
      BY <1>13, <1>14, NodeTypes DEF Parents
    <3>2. p.rm = RightmostPage(q[k])
      BY <1>9 DEF Combined
    <3>3. p.lvl # 0
      BY <3>1
    <3>4. QED
      BY <3>2, <3>3 DEF RightmostPage
  <2>5. RightmostPage(q[k]) = NoPage
    BY <1>3, <1>8, <1>19
  <2>6. ASSUME NEW i \in 1 .. Len(q'), wpos - 1 + i > n
        PROVE  RightmostPage(q'[i]) = NoPage
    <3>1. i \in 1 .. k + 1
      BY <2>1
    <3>2. CASE i = k + 1
      BY <1>15, <2>4, <2>5, <3>2 DEF LinkedTwo
    <3>3. CASE i = k
      BY <1>15, <2>3, <2>5, <3>3 DEF LinkedTwo
    <3>4. CASE i = a
      BY <1>15, <1>19, <1>8, <2>3, <2>6, <3>4 DEF LinkedTwo
    <3>5. CASE i \in 1 .. k /\ i # a /\ i # k
      BY <1>15, <1>19, <2>6, <3>5 DEF LinkedTwo
    <3>6. QED
      BY <3>1, <3>2, <3>3, <3>4, <3>5
  <2>7. QED
    BY <1>1, <2>6 DEF PaddingQueued
<1>26. RowInv(lo2, A)' /\ \A b \in 1 .. n : lo2[b] = lo[b]
  <2>1. PICK e \in 1 .. N + 1 : e = lo[m]
    BY <1>23
  <2>2. lo2 = More(lo, N, e) /\ wpos <= N /\ stage # "root" /\ UNCHANGED <<file, hdr, wpos>>
    BY <1>1, <1>8, <1>21, <2>1
  <2>3. N = StreamEnd /\ StreamEnd' = N + 1 /\ Grown(Row', lo2, N + 1, hdr.rno, A)
    BY <1>2, <1>16, <1>22
  <2>4. RowInv(lo2, A)' /\ \A b \in 1 .. hdr.rno : lo2[b] = lo[b]
    BY <1>24, <1>25, <2>2, <2>3, RowLonger
  <2>5. QED
    BY <2>4
<1>27. wpos - 1 + at' = m
  BY <1>7, <1>12
<1>28. ExtendStage(lo2, A)'
  BY <1>1, <1>4, <1>12, <1>16, <1>22, <1>27 DEF ExtendStage
<1>29. QueueTypeOK'
  <2>1. q' \in Seq(QNode) /\ at' \in Nat /\ cbd' \in Nat
    <3>1. q' \in Seq(QNode)
      BY <1>15 DEF LinkedTwo
    <3>2. p.lvl \in Nat
      BY <1>14, NodeTypes
    <3>3. QED
      BY <1>8, <1>12, <3>1, <3>2
  <2>2. QED
    BY <1>1, <2>1 DEF ExtendAt, QueueTypeOK
<1>30. stage' \in {"idle", "walk", "flush", "pad", "root"}
  BY <1>1
<1>31. Grows(lo, lo2, A)
  BY <1>1, <1>26, <1>28, <1>29, <1>30, GrowsQueued
<1>32. QED
  BY <1>31

(* The walk passes a node below the last one.                              *)
LEMMA WalkSkips ==
    ASSUME NEW t, NEW lo, NEW N, NEW n, NEW w \in Int, NEW A, NEW m \in Int, NEW level,
           Grown(t, lo, N, n, A), WalkAt(t, lo, N, n, w, m + 1, level),
           w <= m, w >= 1, t[m].lvl < t[N].lvl
    PROVE  WalkAt(t, lo, N, n, w, m, level)
<1>1. N \in Nat /\ TreeRow(t, lo, N) /\ m + 1 \in w .. N /\ lo[N] <= m + 1
  BY DEF Grown, WalkAt
<1>2. N \in 1 .. N /\ m \in 1 .. N /\ lo[N] \in 1 .. N
  <2>1. N \in 1 .. N /\ m \in 1 .. N
    BY <1>1
  <2>2. TreeAt(t, lo, N)
    BY <1>1, <2>1 DEF TreeRow
  <2>3. QED
    BY <2>1, <2>2 DEF TreeAt
<1>3. lo[N] # m + 1
  <2>1. SUFFICES ASSUME lo[N] = m + 1 PROVE FALSE
    OBVIOUS
  <2>2. Peak(lo, N, N)
    BY <1>1 DEF Peak
  <2>3. lo[N] > 1 /\ lo[N] - 1 = m
    BY <1>2, <2>1
  <2>4. Peak(lo, N, m)
    BY <1>1, <1>2, <2>2, <2>3, PeakBefore
  <2>5. m \in 1 .. lo[N] - 1
    BY <1>2, <2>3
  <2>6. t[m].lvl >= t[N].lvl
    BY <2>4, <2>5 DEF WalkAt
  <2>7. t[m].lvl \in Nat /\ t[N].lvl \in Nat
    BY <1>1, <1>2 DEF TreeRow
  <2>8. QED
    BY <2>6, <2>7
<1>4. lo[N] <= m /\ m \in w .. N
  BY <1>1, <1>2, <1>3
<1>5. QED
  BY <1>4 DEF WalkAt

(* The walk ends at the head of the queue or behind a higher node.         *)
LEMMA WalkEnds ==
    ASSUME NEW t, NEW lo, NEW N, NEW n, NEW w \in Int, NEW A, NEW c \in Int, NEW level,
           Grown(t, lo, N, n, A), WalkAt(t, lo, N, n, w, c, level), w >= 1,
           c > w => t[c - 1].lvl > t[N].lvl,
           \A p \in 1 .. w - 1 : ~Peak(lo, N, p)
    PROVE  FlushAt(t, lo, N, n, w, level)
<1>1. /\ N \in Nat /\ TreeRow(t, lo, N) /\ c \in w .. N /\ lo[N] <= c /\ N > n /\ w <= N
      /\ Falls(t, lo, N, lo[N] - 1) /\ level \in {0, t[N].lvl}
      /\ Waits(lo, N, n, w) \/ (AllJoined(lo, N, n) /\ level = t[N].lvl)
  BY DEF Grown, WalkAt
<1>2. /\ N \in 1 .. N /\ lo[N] \in 1 .. N
      /\ \A p \in 1 .. N : t[p].lvl \in Nat
  <2>1. N \in 1 .. N
    BY <1>1
  <2>2. TreeAt(t, lo, N)
    BY <1>1, <2>1 DEF TreeRow
  <2>3. QED
    BY <1>1, <2>1, <2>2 DEF TreeAt, TreeRow
<1>3. ASSUME NEW i \in 1 .. N - 1, Peak(lo, N, i)
      PROVE  i \in 1 .. lo[N] - 1 /\ t[i].lvl > t[N].lvl
  <2>1. lo[N] > i
    <3>1. N \in i + 1 .. N
      BY <1>1
    <3>2. QED
      BY <1>3, <3>1 DEF Peak
  <2>2. i \in 1 .. lo[N] - 1
    BY <1>2, <2>1
  <2>3. c > w
    <3>1. SUFFICES ASSUME c = w PROVE FALSE
      BY <1>1
    <3>2. i \in 1 .. w - 1
      BY <1>1, <1>2, <2>1, <3>1
    <3>3. QED
      BY <1>3, <3>2
  <2>4. c - 1 \in 1 .. N - 1 /\ c - 1 \in 1 .. N /\ c - 1 + 1 = c /\ t[c - 1].lvl > t[N].lvl
    BY <1>1, <2>3
  <2>5. t[c - 1].lvl >= t[N].lvl
    BY <1>2, <2>4
  <2>6. PICK m \in 1 .. N - 1 : m = c - 1
    BY <2>4
  <2>7. lo[N] = m + 1 /\ Peak(lo, N, m)
    <3>1. WalkAt(t, lo, N, n, w, m + 1, level) /\ t[m].lvl >= t[N].lvl
      BY <2>4, <2>5, <2>6
    <3>2. QED
      BY <3>1, MeetsPeak
  <2>8. CASE i = m
    BY <2>2, <2>4, <2>6, <2>8
  <2>9. CASE i # m
    <3>1. i < m /\ m \in 1 .. lo[N] - 1 /\ i \in 1 .. N
      BY <1>1, <1>2, <2>2, <2>7, <2>9
    <3>2. t[i].lvl > t[m].lvl
      BY <1>1, <1>3, <2>2, <2>7, <3>1 DEF Falls
    <3>3. t[m].lvl > t[N].lvl /\ t[i].lvl \in Nat /\ t[m].lvl \in Nat /\ t[N].lvl \in Nat
      BY <1>2, <2>4, <2>6, <3>1
    <3>4. QED
      BY <2>2, <3>2, <3>3
  <2>10. QED
    BY <2>8, <2>9
<1>4. Falls(t, lo, N, N)
  <2>1. ASSUME NEW i \in 1 .. N, NEW j \in 1 .. N, i < j, Peak(lo, N, i), Peak(lo, N, j)
        PROVE  t[i].lvl > t[j].lvl
    <3>1. i \in 1 .. N - 1
      BY <1>1, <2>1
    <3>2. i \in 1 .. lo[N] - 1 /\ t[i].lvl > t[N].lvl
      BY <1>3, <2>1, <3>1
    <3>3. CASE j = N
      BY <3>2, <3>3
    <3>4. CASE j # N
      <4>1. j \in 1 .. N - 1
        BY <1>1, <2>1, <3>4
      <4>2. j \in 1 .. lo[N] - 1
        BY <1>3, <2>1, <4>1
      <4>3. QED
        BY <1>1, <2>1, <3>2, <4>2 DEF Falls
    <3>5. QED
      BY <3>3, <3>4
  <2>2. QED
    BY <2>1 DEF Falls
<1>5. QED
  BY <1>1, <1>4 DEF FlushAt

LEMMA SkipGrows ==
    ASSUME NEW lo, NEW A, ExtendAt(lo, A), SkipStep
    PROVE  Grows(lo, lo, A)
<1> DEFINE n == hdr.rno
<1>1. /\ stage = "walk" /\ at > 1 /\ q[at - 1].lvl < q[Len(q)].lvl /\ at' = at - 1
      /\ UNCHANGED <<file, hdr, stage, q, cbd, hlev, wpos, glob>>
  BY DEF SkipStep, Last
<1>2. PICK N : N = StreamEnd
  OBVIOUS
<1>3. /\ n \in Nat /\ wpos \in Nat /\ wpos >= 1 /\ q \in Seq(QNode)
      /\ Len(q) \in Nat /\ N = wpos - 1 + Len(q) /\ N \in Nat
      /\ \A i \in 1 .. Len(q) : Row[wpos - 1 + i] = q[i] /\ q[i] \in QNode
      /\ Grown(Row, lo, N, n, A) /\ ExtendStage(lo, A)
     
  BY <1>1, <1>2, RowFacts
<1>4. WalkAt(Row, lo, N, n, wpos, wpos - 1 + at, cbd) /\ hlev = file[n].lvl
  BY <1>1, <1>2, <1>3 DEF ExtendStage
<1>5. PICK w \in Nat : w = wpos
  BY <1>3
<1>6. PICK k \in Nat : k = Len(q)
  BY <1>3
<1>7. PICK a \in Nat : a = at - 1
  BY <1>1 DEF ExtendAt, QueueTypeOK
<1>8. PICK m \in Int : m = w - 1 + a
  OBVIOUS
<1>9. a \in 1 .. k /\ k \in 1 .. k /\ m + 1 = w - 1 + at /\ w <= m /\ at = a + 1 /\ w >= 1 /\ w - 1 + k = N
  <2>1. w - 1 + at \in w .. N /\ at \in Nat
    BY <1>4, <1>5 DEF WalkAt, ExtendAt, QueueTypeOK
  <2>2. w >= 1 /\ N = w - 1 + k /\ at > 1 /\ a = at - 1
    BY <1>1, <1>3, <1>5, <1>6, <1>7
  <2>3. at <= k /\ at = a + 1 /\ a >= 1
    BY <2>1, <2>2
  <2>4. QED
    BY <1>8, <2>2, <2>3
<1>10. Row[m].lvl < Row[N].lvl
  <2>1. Row[w - 1 + a] = q[a] /\ Row[w - 1 + k] = q[k]
    BY <1>3, <1>5, <1>6, <1>9
  <2>2. q[a].lvl < q[k].lvl
    BY <1>1, <1>6, <1>7
  <2>3. QED
    BY <1>8, <1>9, <2>1, <2>2
<1>11. WalkAt(Row, lo, N, n, w, m, cbd)
  <2>1. WalkAt(Row, lo, N, n, w, m + 1, cbd) /\ w \in Int
    BY <1>4, <1>5, <1>9
  <2>2. QED
    BY <1>3, <1>9, <1>10, <2>1, WalkSkips, Zenon
<1>12. Row' = Row /\ StreamEnd' = N
  BY <1>1, <1>2, RowNow, RowNext
<1>13. wpos' - 1 + at' = m
  BY <1>1, <1>5, <1>7, <1>8
<1>14. ExtendStage(lo, A)'
  BY <1>1, <1>4, <1>5, <1>11, <1>12, <1>13 DEF ExtendStage
<1>15. RowInv(lo, A)'
  <2>1. RowInv(lo, A)
    BY <1>1 DEF ExtendAt
  <2>2. QED
    BY <1>1, <1>2, <1>12, <2>1 DEF RowInv, OldRoot, PaddingQueued
<1>16. QueueTypeOK'
  BY <1>1, <1>7 DEF ExtendAt, QueueTypeOK
<1>17. \A p \in 1 .. hdr.rno : lo[p] = lo[p]
  OBVIOUS
<1>18. stage' \in {"idle", "walk", "flush", "pad", "root"}
  BY <1>1 DEF ExtendAt
<1>19. QED
  BY <1>1, <1>14, <1>15, <1>16, <1>17, <1>18, GrowsQueued

LEMMA WalkEndGrows ==
    ASSUME NEW lo, NEW A, ExtendAt(lo, A), WalkEnd
    PROVE  Grows(lo, lo, A)
<1> DEFINE n == hdr.rno
<1>1. /\ stage = "walk" /\ (at > 1 => q[at - 1].lvl > q[Len(q)].lvl) /\ stage' = "flush"
      /\ UNCHANGED <<file, hdr, q, at, cbd, hlev, wpos, glob>>
  BY DEF WalkEnd, Last
<1>2. PICK N : N = StreamEnd
  OBVIOUS
<1>3. /\ n \in Nat /\ wpos \in Nat /\ wpos >= 1 /\ q \in Seq(QNode)
      /\ Len(q) \in Nat /\ N = wpos - 1 + Len(q) /\ N \in Nat
      /\ \A i \in 1 .. Len(q) : Row[wpos - 1 + i] = q[i] /\ q[i] \in QNode
      /\ Grown(Row, lo, N, n, A) /\ ExtendStage(lo, A)
      /\ \A p \in 1 .. wpos - 1 : ~Peak(lo, N, p)
     
  BY <1>1, <1>2, RowFacts
<1>4. WalkAt(Row, lo, N, n, wpos, wpos - 1 + at, cbd) /\ hlev = file[n].lvl
  BY <1>1, <1>2, <1>3 DEF ExtendStage
<1>5. PICK w \in Nat : w = wpos
  BY <1>3
<1>6. PICK k \in Nat : k = Len(q)
  BY <1>3
<1>7. PICK c \in Int : c = w - 1 + at
  BY DEF ExtendAt, QueueTypeOK
<1>8. /\ at \in 1 .. k /\ at \in Nat /\ k \in 1 .. k /\ w >= 1 /\ w - 1 + k = N
  <2>1. w - 1 + at \in w .. N /\ at \in Nat
    BY <1>4, <1>5 DEF WalkAt, ExtendAt, QueueTypeOK
  <2>2. w >= 1 /\ N = w - 1 + k
    BY <1>3, <1>5, <1>6
  <2>3. QED
    BY <2>1, <2>2
<1>9. c > w => Row[c - 1].lvl > Row[N].lvl
  <2>1. SUFFICES ASSUME c > w PROVE Row[c - 1].lvl > Row[N].lvl
    OBVIOUS
  <2>2. PICK a \in Nat : a = at - 1
    BY <1>8
  <2>3. a \in 1 .. k /\ c - 1 = w - 1 + a /\ at > 1
    BY <1>7, <1>8, <2>1, <2>2
  <2>4. Row[w - 1 + a] = q[a] /\ Row[w - 1 + k] = q[k]
    BY <1>3, <1>5, <1>6, <1>8, <2>3
  <2>5. q[a].lvl > q[k].lvl
    BY <1>1, <1>6, <2>2, <2>3
  <2>6. QED
    BY <1>8, <2>3, <2>4, <2>5
<1>10. FlushAt(Row, lo, N, n, w, cbd)
  <2>1. WalkAt(Row, lo, N, n, w, c, cbd) /\ w \in Int /\ \A p \in 1 .. w - 1 : ~Peak(lo, N, p)
    BY <1>3, <1>4, <1>5, <1>7
  <2>2. QED
    BY <1>3, <1>8, <1>9, <2>1, WalkEnds, Zenon
<1>11. Row' = Row /\ StreamEnd' = N
  BY <1>1, <1>2, RowNow, RowNext
<1>12. ExtendStage(lo, A)'
  BY <1>1, <1>4, <1>5, <1>10, <1>11 DEF ExtendStage
<1>13. RowInv(lo, A)'
  <2>1. RowInv(lo, A)
    BY <1>1 DEF ExtendAt
  <2>2. QED
    BY <1>1, <1>2, <1>11, <2>1 DEF RowInv, OldRoot, PaddingQueued
<1>14. QueueTypeOK'
  BY <1>1 DEF ExtendAt, QueueTypeOK
<1>15. \A p \in 1 .. hdr.rno : lo[p] = lo[p]
  OBVIOUS
<1>16. QED
  BY <1>1, <1>12, <1>13, <1>14, <1>15, GrowsQueued

LEMMA FlushEndGrows ==
    ASSUME NEW lo, NEW A, ExtendAt(lo, A), FlushEnd
    PROVE  Grows(lo, lo, A)
<1> DEFINE n == hdr.rno
<1>1. /\ stage = "flush" /\ ~(cbd > 0 /\ q[1].lvl < cbd) /\ cbd' = 0
      /\ stage' = IF hlev = NoPad THEN "read" ELSE "pad"
      /\ UNCHANGED <<file, hdr, q, at, hlev, wpos, glob>>
  BY DEF FlushEnd, MustFlush
<1>2. PICK N : N = StreamEnd
  OBVIOUS
<1>3. /\ n \in Nat /\ wpos \in Nat /\ wpos >= 1 /\ q \in Seq(QNode)
      /\ Len(q) \in Nat /\ N = wpos - 1 + Len(q) /\ N \in Nat
      /\ \A i \in 1 .. Len(q) : Row[wpos - 1 + i] = q[i] /\ q[i] \in QNode
      /\ Grown(Row, lo, N, n, A) /\ ExtendStage(lo, A)
      /\ n \in Pos /\ file \in [Pos -> Block]
  BY <1>1, <1>2, RowFacts
<1>4. FlushAt(Row, lo, N, n, wpos, cbd) /\ hlev = file[n].lvl
  BY <1>1, <1>2, <1>3 DEF ExtendStage
<1>5. file[n].lvl \in Nat
  BY <1>3, BlockTypes
<1>6. stage' = "pad" /\ hlev \in Nat
  BY <1>1, <1>4, <1>5 DEF NoPad
<1>7. PICK w \in Nat : w = wpos
  BY <1>3
<1>8. /\ w <= N /\ Falls(Row, lo, N, N) /\ cbd \in {0, Row[N].lvl}
      /\ Waits(lo, N, n, w) \/ (AllJoined(lo, N, n) /\ cbd = Row[N].lvl)
  BY <1>4, <1>7 DEF FlushAt
<1>9. AllJoined(lo, N, n) /\ cbd = Row[N].lvl => w = N
  <2>1. SUFFICES ASSUME lo[N] = 1, cbd = Row[N].lvl, w < N PROVE FALSE
    BY <1>3, <1>8 DEF AllJoined
  <2>2. w \in 1 .. N - 1 /\ N \in 1 .. N /\ w >= 1
    BY <1>3, <1>7, <2>1
  <2>3. TreeRow(Row, lo, N)
    BY <1>3 DEF Grown
  <2>4. Row[w].lvl < Row[N].lvl
    <3>1. \A s \in lo[N] .. N - 1 : Row[s].lvl < Row[N].lvl
      BY <1>3, <2>2, <2>3, BelowInTree
    <3>2. QED
      BY <2>1, <2>2, <3>1
  <2>5. Row[w].lvl \in Nat /\ Row[N].lvl \in Nat
    BY <2>2, <2>3 DEF TreeRow
  <2>6. Row[w] = q[1]
    <3>1. 1 \in 1 .. Len(q) /\ wpos - 1 + 1 = w
      BY <1>3, <1>7, <2>1
    <3>2. QED
      BY <1>3, <3>1
  <2>7. QED
    BY <1>1, <2>1, <2>4, <2>5, <2>6
<1>10. PadAt(Row, lo, N, n, w)
  BY <1>8, <1>9 DEF PadAt
<1>11. Row' = Row /\ StreamEnd' = N
  BY <1>1, <1>2, RowNow, RowNext
<1>12. ExtendStage(lo, A)'
  BY <1>1, <1>4, <1>6, <1>7, <1>10, <1>11 DEF ExtendStage
<1>13. RowInv(lo, A)'
  <2>1. RowInv(lo, A)
    BY <1>1 DEF ExtendAt
  <2>2. QED
    BY <1>1, <1>2, <1>11, <2>1 DEF RowInv, OldRoot, PaddingQueued
<1>14. QueueTypeOK'
  BY <1>1 DEF ExtendAt, QueueTypeOK
<1>15. \A p \in 1 .. hdr.rno : lo[p] = lo[p]
  OBVIOUS
<1>16. QED
  BY <1>1, <1>6, <1>12, <1>13, <1>14, <1>15, GrowsQueued

LEMMA PadEndGrows ==
    ASSUME NEW lo, NEW A, ExtendAt(lo, A), PadEnd
    PROVE  Grows(lo, lo, A)
<1> DEFINE n == hdr.rno
<1>1. /\ stage = "pad" /\ q[Len(q)].lvl > hlev /\ stage' = "root"
      /\ UNCHANGED <<file, hdr, q, at, cbd, hlev, wpos, glob>>
  BY DEF PadEnd, Last
<1>2. PICK N : N = StreamEnd
  OBVIOUS
<1>3. /\ n \in Nat /\ wpos \in Nat /\ wpos >= 1 /\ q \in Seq(QNode)
      /\ Len(q) \in Nat /\ N = wpos - 1 + Len(q) /\ N \in Nat
      /\ \A i \in 1 .. Len(q) : Row[wpos - 1 + i] = q[i] /\ q[i] \in QNode
      /\ Grown(Row, lo, N, n, A) /\ ExtendStage(lo, A) /\ Row[n].lvl = file[n].lvl
      /\ n \in 1 .. N
  BY <1>1, <1>2, RowFacts
<1>4. PadAt(Row, lo, N, n, wpos) /\ hlev = file[n].lvl /\ cbd = 0
  BY <1>1, <1>2, <1>3 DEF ExtendStage
<1>5. PICK w \in Nat : w = wpos
  BY <1>3
<1>6. PICK k \in Nat : k = Len(q)
  BY <1>3
<1>7. w <= N /\ Falls(Row, lo, N, N) /\ (Waits(lo, N, n, w) \/ (AllJoined(lo, N, n) /\ w = N))
  BY <1>4, <1>5 DEF PadAt
<1>8. k \in 1 .. k /\ w - 1 + k = N /\ N \in 1 .. N
  BY <1>3, <1>5, <1>6, <1>7
<1>9. Row[N].lvl > Row[n].lvl
  <2>1. Row[w - 1 + k] = q[k]
    BY <1>3, <1>5, <1>6, <1>8
  <2>2. QED
    BY <1>1, <1>3, <1>4, <1>6, <1>8, <2>1
<1>10. Row[N].lvl \in Nat /\ Row[n].lvl \in Nat
  BY <1>3, <1>8 DEF Grown, TreeRow
<1>11. AllJoined(lo, N, n) /\ w = N
  <2>1. SUFFICES ASSUME Waits(lo, N, n, w) PROVE FALSE
    BY <1>7
  <2>2. n < N
    <3>1. n # N
      BY ONLY <1>9, <1>10
    <3>2. n \in 1 .. N /\ N \in Nat
      BY <1>3
    <3>3. QED
      BY ONLY <3>1, <3>2
  <2>3. Peak(lo, N, n) /\ Peak(lo, N, N)
    BY <1>3, <2>1 DEF Waits, Peak
  <2>4. Row[n].lvl > Row[N].lvl
    BY <1>3, <1>7, <1>8, <2>2, <2>3 DEF Falls
  <2>5. QED
    BY <1>9, <1>10, <2>4
<1>12. Len(q) = 1
  BY <1>6, <1>8, <1>11
<1>13. Row' = Row /\ StreamEnd' = N
  BY <1>1, <1>2, RowNow, RowNext
<1>14. ExtendStage(lo, A)'
  <2>1. q' # <<>>
    BY <1>1, <1>12
  <2>2. QED
    BY <1>1, <1>4, <1>11, <1>12, <1>13, <2>1 DEF ExtendStage
<1>15. RowInv(lo, A)'
  <2>1. RowInv(lo, A)
    BY <1>1 DEF ExtendAt
  <2>2. QED
    BY <1>1, <1>2, <1>13, <2>1 DEF RowInv, OldRoot, PaddingQueued
<1>16. QueueTypeOK'
  BY <1>1 DEF ExtendAt, QueueTypeOK
<1>17. \A p \in 1 .. hdr.rno : lo[p] = lo[p]
  OBVIOUS
<1>18. QED
  BY <1>1, <1>14, <1>15, <1>16, <1>17, GrowsQueued

(* Writing the head of the queue moves it into the file and leaves the row *)
(* as it is.                                                               *)
HeadWritten(f, f2, w, s, s2, mark) ==
    /\ f2 = [f EXCEPT ![w] = ToBlock(s[1], mark)]
    /\ s2 = Tail(s) /\ s # <<>> /\ w \in Pos

LEMMA HeadBlock ==
    ASSUME NEW d \in QNode, NEW mark \in Mark, NEW b, b = ToBlock(d, mark)
    PROVE  /\ b \in Block /\ b.lvl = d.lvl /\ b.lcos = d.lcos /\ b.rcos = d.rcos
           /\ b.pos = d.pos /\ b.pn = d.pn /\ b.isn = d.isn /\ b.h = d.h /\ b.rsvd = mark
BY DEF ToBlock, QNode, Block

LEMMA HeadFacts ==
    ASSUME NEW f \in [Pos -> Block], NEW f2, NEW w, NEW s \in Seq(QNode), NEW s2,
           NEW mark \in Mark, HeadWritten(f, f2, w, s, s2, mark)
    PROVE  /\ f2 \in [Pos -> Block] /\ s2 \in Seq(QNode) /\ Len(s2) = Len(s) - 1
           /\ \A p \in Pos : p # w => f2[p] = f[p]
           /\ f2[w].lvl = s[1].lvl /\ f2[w].lcos = s[1].lcos /\ f2[w].rcos = s[1].rcos
           /\ f2[w].pos = s[1].pos /\ f2[w].pn = s[1].pn /\ f2[w].isn = s[1].isn
           /\ f2[w].h = s[1].h /\ f2[w].rsvd = mark
           /\ (w + 1) - 1 + Len(s2) = w - 1 + Len(s)
           /\ Alike(RowOf(f, w, s), RowOf(f2, w + 1, s2), w - 1 + Len(s))
<1>1. PICK k \in Nat : k = Len(s)
  OBVIOUS
<1>2. k >= 1 /\ w \in Pos /\ w \in Nat /\ w >= 1 /\ s # <<>>
  <2>1. w \in Pos /\ s # <<>>
    BY DEF HeadWritten
  <2>2. QED
    BY <1>1, <2>1, DiskAssumption DEF Pos
<1>3. s2 \in Seq(QNode) /\ Len(s2) = k - 1 /\ \A i \in 1 .. k - 1 : s2[i] = s[i + 1]
  <2>1. s2 = Tail(s)
    BY DEF HeadWritten
  <2>2. QED
    BY <1>1, <1>2, <2>1
<1>4. s[1] \in QNode
  BY <1>1, <1>2
<1>5. PICK b : b = ToBlock(s[1], mark)
  OBVIOUS
<1>6. /\ b \in Block /\ b.lvl = s[1].lvl /\ b.lcos = s[1].lcos /\ b.rcos = s[1].rcos
      /\ b.pos = s[1].pos /\ b.pn = s[1].pn /\ b.isn = s[1].isn /\ b.h = s[1].h /\ b.rsvd = mark
  BY <1>4, <1>5, HeadBlock
<1>7. f2 \in [Pos -> Block] /\ f2[w] = b /\ \A p \in Pos : p # w => f2[p] = f[p]
  <2>1. f2 = [f EXCEPT ![w] = b]
    BY <1>5 DEF HeadWritten
  <2>2. QED
    BY <1>2, <1>6, <2>1, WriteFacts
<1>8. Len(s2) = Len(s) - 1 /\ (w + 1) - 1 + Len(s2) = w - 1 + Len(s)
  BY <1>1, <1>2, <1>3
<1> DEFINE t == RowOf(f, w, s)
           t2 == RowOf(f2, w + 1, s2)
<1>9. RowReads(t, f, w, s) /\ RowReads(t2, f2, w + 1, s2)
  <2>1. w + 1 \in Nat /\ w + 1 >= 1 /\ Len(s) \in Nat /\ Len(s2) \in Nat
    BY <1>1, <1>2, <1>3
  <2>2. QED
    BY <1>2, <2>1, RowIndex, Zenon
<1> HIDE DEF t, t2
<1>10. /\ \A p \in 1 .. w - 1 : t[p] = f[p]
       /\ \A i \in 1 .. k : t[w - 1 + i] = s[i]
       /\ \A p \in 1 .. w : t2[p] = f2[p]
       /\ \A i \in 1 .. k - 1 : t2[w + i] = s2[i]
  <2>1. (w + 1) - 1 = w
    BY <1>2
  <2>2. (\A p \in 1 .. w - 1 : t[p] = f[p]) /\ \A i \in 1 .. k : t[w - 1 + i] = s[i]
    BY <1>1, <1>9 DEF RowReads
  <2>3. /\ \A p \in 1 .. (w + 1) - 1 : t2[p] = f2[p]
        /\ \A i \in 1 .. Len(s2) : t2[(w + 1) - 1 + i] = s2[i]
    <3>1. RowReads(t2, f2, w + 1, s2)
      BY <1>9
    <3>2. QED
      BY ONLY <3>1 DEF RowReads
  <2>4. ASSUME NEW p \in 1 .. w PROVE t2[p] = f2[p]
    <3>1. p \in 1 .. (w + 1) - 1
      BY <1>2
    <3>2. QED
      BY <2>3, <3>1
  <2>5. ASSUME NEW i \in 1 .. k - 1 PROVE t2[w + i] = s2[i]
    <3>1. (w + 1) - 1 + i = w + i
      BY <1>2
    <3>2. i \in 1 .. Len(s2)
      BY <1>3
    <3>3. t2[(w + 1) - 1 + i] = s2[i]
      BY <2>3, <3>2
    <3>4. QED
      BY <3>1, <3>3
  <2>6. QED
    BY <2>2, <2>4, <2>5
<1>11. ASSUME NEW p \in 1 .. w - 1 + k
       PROVE  SameShape(t, t2, p) /\ t2[p].pos = t[p].pos /\ t2[p].h = t[p].h
  <2>1. CASE p < w
    <3>1. p \in 1 .. w - 1 /\ p \in 1 .. w
      BY <1>2, <2>1
    <3>2. p \in Pos /\ p # w
      BY <1>2, <2>1, DiskAssumption DEF Pos
    <3>3. t2[p] = t[p]
      BY <1>7, <1>10, <3>1, <3>2
    <3>4. QED
      BY <3>3 DEF SameShape
  <2>2. CASE p = w
    <3>1. t2[w] = b
      <4>1. w \in 1 .. w
        BY <1>2
      <4>2. QED
        BY <1>7, <1>10, <4>1
    <3>2. 1 \in 1 .. k /\ w - 1 + 1 = w
      BY <1>2
    <3>3. t[w] = s[1]
      BY <1>10, <3>2
    <3>4. QED
      BY <1>6, <2>2, <3>1, <3>3 DEF SameShape
  <2>3. CASE p > w
    <3>1. PICK i \in 1 .. k - 1 : p = w + i
      <4>1. p - w \in 1 .. k - 1 /\ p = w + (p - w)
        BY <1>2, <2>3
      <4>2. QED
        BY <4>1
    <3>2. i + 1 \in 1 .. k /\ p = w - 1 + (i + 1)
      BY <1>2, <3>1
    <3>3. t2[p] = s2[i] /\ t[p] = s[i + 1] /\ s2[i] = s[i + 1]
      BY <1>3, <1>10, <3>1, <3>2
    <3>4. QED
      BY <3>3 DEF SameShape
  <2>4. QED
    BY <1>2, <2>1, <2>2, <2>3
<1>12. Alike(t, t2, w - 1 + Len(s))
  BY <1>1, <1>11 DEF Alike
<1>13. Alike(RowOf(f, w, s), RowOf(f2, w + 1, s2), w - 1 + Len(s))
  BY <1>12 DEF t, t2
<1>14. QED
  BY <1>3, <1>6, <1>7, <1>8, <1>13

(* A node below the last combined one is below the last of the row, which  *)
(* has joined all others.                                                  *)
LEMMA FlushBelow ==
    ASSUME NEW t, NEW lo, NEW N, NEW n, NEW w \in Int, NEW A, NEW level,
           Grown(t, lo, N, n, A), FlushAt(t, lo, N, n, w, level),
           w >= n, level > 0, t[w].lvl < level
    PROVE  /\ level = t[N].lvl /\ w < N /\ lo[N] = 1 /\ N > n /\ Falls(t, lo, N, N)
           /\ \A p \in 1 .. N - 1 : ~Peak(lo, N, p)
<1>1. /\ N \in Nat /\ n \in 1 .. N /\ TreeRow(t, lo, N) /\ N > n /\ w <= N
      /\ Falls(t, lo, N, N) /\ level \in {0, t[N].lvl}
      /\ Waits(lo, N, n, w) \/ (AllJoined(lo, N, n) /\ level = t[N].lvl)
  BY DEF Grown, FlushAt
<1>2. level = t[N].lvl /\ n \in Nat /\ N \in 1 .. N /\ w \in 1 .. N
  BY <1>1
<1>3. t[N].lvl \in Nat /\ t[w].lvl \in Nat
  BY <1>1, <1>2 DEF TreeRow
<1>4. w < N
  <2>1. w # N
    BY <1>2, <1>3
  <2>2. QED
    BY <1>1, <1>2, <2>1
<1>5. AllJoined(lo, N, n)
  <2>1. SUFFICES ASSUME Waits(lo, N, n, w) PROVE FALSE
    BY <1>1
  <2>2. w = n /\ Peak(lo, N, w) /\ Peak(lo, N, N)
    BY <1>1, <2>1 DEF Waits, Peak
  <2>3. t[w].lvl > t[N].lvl
    BY <1>1, <1>2, <1>4, <2>2 DEF Falls
  <2>4. QED
    BY <1>2, <1>3, <2>3
<1>6. lo[N] = 1 /\ N > n
  BY <1>5 DEF AllJoined
<1>7. ASSUME NEW p \in 1 .. N - 1 PROVE ~Peak(lo, N, p)
  <2>1. N \in p + 1 .. N /\ ~(lo[N] > p)
    BY <1>1, <1>6
  <2>2. QED
    BY <2>1 DEF Peak
<1>8. QED
  BY <1>1, <1>2, <1>4, <1>6, <1>7

LEMMA HoldsOld ==
    ASSUME NEW f \in [Pos -> Block], NEW g, NEW lo, NEW lo2, NEW h \in Header, NEW A,
           Holds(f, lo, h, A), h.fslo = NoPos, KeepsOld(f, g, h.rno),
           \A p \in 1 .. h.rno : lo2[p] = lo[p]
    PROVE  Holds(g, lo2, h, A)
<1> DEFINE n == h.rno
<1>1. /\ n \in Nat /\ n >= 1 /\ n \in Pos /\ FirstOpen(h) = n + 1 /\ n \in 1 .. n
  BY FirstOpenType
<1>2. KeepsLinks(f, g, n)
  BY DEF KeepsOld, KeepsLinks, SameShape
<1>3. KeepsRow(f, g, n, n + 1, A)
  <2>1. n + 1 \notin 1 .. n
    BY <1>1
  <2>2. QED
    BY <2>1 DEF KeepsOld, KeepsRow, SameShape
<1>4. ASSUME NEW a \in 1 .. n, NEW x \in 1 .. n, LeafAt(f, n, x), x < n + 1
      PROVE  Sorts(g, lo, a, x)
  <2>1. Sorts(f, lo, a, x)
    BY <1>1, <1>4 DEF Holds, Ordered
  <2>2. SameShape(f, g, a) /\ SameShape(f, g, x)
    BY DEF KeepsOld
  <2>3. QED
    BY <2>1, <2>2 DEF Sorts, SameShape
<1>5. QED
  BY <1>1, <1>2, <1>3, <1>4, HoldsFrame

LEMMA SoundOld ==
    ASSUME TypeOK, NEW lo, Sound(lo), hdr.fslo = NoPos, pc = "extend",
           UNCHANGED <<hdr, pc, op, acked, cut>>, KeepsOld(file, file', hdr.rno),
           NEW lo2, \A p \in 1 .. hdr.rno : lo2[p] = lo[p]
    PROVE  Sound(lo2)'
<1>1. file \in [Pos -> Block] /\ hdr \in Header /\ Holds(file, lo, hdr, Known)
  BY TypeFacts DEF Sound
<1>2. Holds(file', lo2, hdr, Known)
  BY <1>1, HoldsOld
<1>3. Busy' = Busy /\ Known' = Known /\ FirstOpen(hdr)' = FirstOpen(hdr) /\ hdr' = hdr
  BY DEF Busy, Known, FirstOpen
<1>4. HashesShown'
  <2>1. \A x \in 1 .. hdr.rno :
           /\ file'[x].lvl = file[x].lvl /\ file'[x].pn = file[x].pn /\ file'[x].h = file[x].h
    BY DEF KeepsOld, SameShape
  <2>2. HashesShown
    BY DEF Sound
  <2>3. QED
    BY <1>3, <2>1, <2>2 DEF HashesShown, LeafAt
<1>5. QED
  BY <1>2, <1>3, <1>4 DEF Sound

LEMMA FlushGlobals ==
    ASSUME glob \in Globals, wpos \in Pos,
           glob' = IF q[1].lvl = 0 /\ q[1].pn >= NoPage /\ ~glob.enc
                   THEN [glob EXCEPT !.fslo = wpos, !.enc = TRUE] ELSE glob
    PROVE  glob' \in Globals
<1>1. wpos \in 0 .. MaxPos
  BY DiskAssumption DEF Pos
<1>2. [glob EXCEPT !.fslo = wpos, !.enc = TRUE] \in Globals
  BY <1>1 DEF Globals
<1>3. QED
  BY <1>2

LEMMA FlushGrows ==
    ASSUME NEW lo, NEW A, ExtendAt(lo, A), FlushStep
    PROVE  Grows(lo, lo, A)
<1> DEFINE n == hdr.rno
<1>1. /\ stage = "flush" /\ cbd > 0 /\ q[1].lvl < cbd /\ wpos \in Pos
      /\ file' = [file EXCEPT ![wpos] = ToBlock(q[1], "R")]
      /\ glob' = IF q[1].lvl = 0 /\ q[1].pn >= NoPage /\ ~glob.enc
                 THEN [glob EXCEPT !.fslo = wpos, !.enc = TRUE] ELSE glob
      /\ q' = Tail(q) /\ wpos' = wpos + 1
      /\ UNCHANGED <<hdr, stage, at, cbd, hlev>>
  BY DEF FlushStep, MustFlush
<1>2. PICK N : N = StreamEnd
  OBVIOUS
<1>3. /\ n \in Nat /\ n >= 1 /\ n \in Pos /\ wpos \in Nat /\ wpos >= n /\ wpos >= 1 /\ q \in Seq(QNode)
      /\ Len(q) \in Nat /\ N = wpos - 1 + Len(q) /\ N \in Nat
      /\ \A i \in 1 .. Len(q) : Row[wpos - 1 + i] = q[i] /\ q[i] \in QNode
      /\ Grown(Row, lo, N, n, A) /\ OldRoot(A) /\ PaddingQueued /\ ExtendStage(lo, A)
      /\ \A p \in 1 .. wpos - 1 : ~Peak(lo, N, p) /\ (p < N => file[p].rsvd = "R")
      /\ file \in [Pos -> Block] /\ 1 .. n \subseteq Pos
  BY <1>1, <1>2, RowFacts
<1>4. FlushAt(Row, lo, N, n, wpos, cbd) /\ hlev = file[n].lvl
  BY <1>1, <1>2, <1>3 DEF ExtendStage
<1>5. wpos <= N /\ N > n
  BY <1>4 DEF FlushAt
<1>6. q # <<>> /\ Row[wpos] = q[1] /\ q[1] \in QNode
  <2>1. 1 \in 1 .. Len(q) /\ wpos - 1 + 1 = wpos
    BY <1>3, <1>5
  <2>2. q # <<>>
    BY <1>3, <2>1
  <2>3. Row[wpos - 1 + 1] = q[1] /\ q[1] \in QNode
    BY <1>3, <2>1
  <2>4. QED
    BY <2>1, <2>2, <2>3
<1>7. /\ cbd = Row[N].lvl /\ wpos < N /\ lo[N] = 1 /\ Falls(Row, lo, N, N)
      /\ \A p \in 1 .. N - 1 : ~Peak(lo, N, p)
  <2>1. wpos \in Int /\ wpos >= n /\ cbd > 0 /\ Row[wpos].lvl < cbd
    BY <1>1, <1>3, <1>6
  <2>2. Grown(Row, lo, N, n, A) /\ FlushAt(Row, lo, N, n, wpos, cbd)
    BY <1>3, <1>4
  <2>3. QED
    BY ONLY <2>1, <2>2, FlushBelow
<1>8. HeadWritten(file, file', wpos, q, q', "R")
  BY <1>1, <1>6 DEF HeadWritten
<1>9. /\ file' \in [Pos -> Block] /\ q' \in Seq(QNode) /\ Len(q') = Len(q) - 1
      /\ \A p \in Pos : p # wpos => file'[p] = file[p]
      /\ file'[wpos].lvl = q[1].lvl /\ file'[wpos].lcos = q[1].lcos /\ file'[wpos].rcos = q[1].rcos
      /\ file'[wpos].pos = q[1].pos /\ file'[wpos].pn = q[1].pn /\ file'[wpos].isn = q[1].isn
      /\ file'[wpos].h = q[1].h /\ file'[wpos].rsvd = "R"
      /\ (wpos + 1) - 1 + Len(q') = wpos - 1 + Len(q)
      /\ Alike(RowOf(file, wpos, q), RowOf(file', wpos + 1, q'), wpos - 1 + Len(q))
  <2>1. "R" \in Mark
    BY DEF Mark
  <2>2. QED
    BY <1>3, <1>8, <2>1, HeadFacts
<1>10. Alike(Row, Row', N) /\ StreamEnd' = N
  <2>1. Row = RowOf(file, wpos, q) /\ Row' = RowOf(file', wpos + 1, q')
        /\ StreamEnd' = (wpos + 1) - 1 + Len(q')
    BY <1>1, RowNow, RowNext
  <2>2. QED
    BY <1>3, <1>9, <2>1
<1>11. Grown(Row', lo, N, n, A) /\ Falls(Row', lo, N, N) /\ Row'[N].lvl = Row[N].lvl
  <2>1. Grown(Row', lo, N, n, A)
    BY <1>3, <1>10, GrownAlike
  <2>2. N \in Int /\ N <= N /\ N \in 1 .. N
    BY <1>3, <1>5
  <2>3. Falls(Row', lo, N, N)
    BY <1>3, <1>7, <1>10, <2>2, FallsAlike
  <2>4. QED
    BY <1>10, <2>1, <2>2, <2>3 DEF Alike, SameShape
<1>12. q[1].pos \in Nat
  <2>1. wpos \in 1 .. N /\ TreeRow(Row, lo, N)
    <3>1. wpos \in 1 .. N
      BY <1>3, <1>5
    <3>2. QED
      BY <1>3, <3>1 DEF Grown
  <2>2. Row[wpos].pos \in Nat
    BY ONLY <2>1 DEF TreeRow
  <2>3. QED
    BY <1>6, <2>2
<1>13. KeepsOld(file, file', n)
  <2>1. n \in Pos /\ n \in 1 .. n
    BY <1>3
  <2>2. ASSUME NEW x \in 1 .. n - 1 PROVE file'[x] = file[x]
    <3>1. x \in 1 .. n /\ x # wpos
      BY <1>3
    <3>2. QED
      BY <1>3, <1>9, <3>1
  <2>3. SameShape(file, file', n) /\ file'[n].h = file[n].h /\ file'[n].pos \in Nat
    <3>1. CASE wpos = n
      <4>1. /\ q[1].lvl = file[n].lvl /\ q[1].lcos = file[n].lcos /\ q[1].rcos = file[n].rcos
            /\ q[1].pn = file[n].pn /\ q[1].h = file[n].h /\ q[1].isn = file[n].isn
        <5>1. OldRoot(A) /\ wpos = hdr.rno
          BY <1>3, <3>1
        <5>2. QED
          BY ONLY <5>1 DEF OldRoot
      <4>2. QED
        BY <1>9, <1>12, <3>1, <4>1 DEF SameShape
    <3>2. CASE wpos # n
      <4>1. file'[n] = file[n]
        BY <1>9, <2>1, <3>2
      <4>2. file[n].pos \in Nat
        BY <2>1 DEF ExtendAt, Offsets
      <4>3. QED
        BY <4>1, <4>2 DEF SameShape
    <3>3. QED
      BY <3>1, <3>2
  <2>4. ASSUME NEW x \in 1 .. n PROVE SameShape(file, file', x) /\ file'[x].h = file[x].h
    <3>1. x = n \/ x \in 1 .. n - 1
      BY <1>3
    <3>2. CASE x = n
      BY <2>3, <3>2
    <3>3. CASE x \in 1 .. n - 1
      BY <2>2, <3>3 DEF SameShape
    <3>4. QED
      BY <3>1, <3>2, <3>3
  <2>5. QED
    BY <2>2, <2>3, <2>4 DEF KeepsOld
<1>14. Offsets'
  BY <1>9, <1>12 DEF ExtendAt, Offsets
<1>15. RowInv(lo, A)'
  <2>1. wpos + 1 \in n .. MaxPos + 1 /\ wpos + 1 # n
    BY <1>1, <1>3, DiskAssumption DEF Pos
  <2>2. ASSUME NEW p \in 1 .. (wpos + 1) - 1
        PROVE  ~Peak(lo, N, p) /\ file'[p].rsvd = "R"
    <3>1. p \in 1 .. N - 1 /\ p <= wpos
      BY <1>3, <1>7
    <3>2. CASE p = wpos
      BY <1>7, <1>9, <3>1, <3>2
    <3>3. CASE p # wpos
      <4>1. p \in 1 .. wpos - 1 /\ p < N /\ p \in Pos
        BY <1>1, <1>3, <3>1, <3>3, DiskAssumption DEF Pos
      <4>2. file'[p] = file[p] /\ file[p].rsvd = "R"
        BY <1>3, <1>9, <3>3, <4>1
      <4>3. QED
        BY <1>7, <3>1, <4>2
    <3>4. QED
      BY <3>2, <3>3
  <2>3. OldRoot(A)'
    BY <1>1, <2>1 DEF OldRoot
  <2>4. PaddingQueued'
    <3>1. ASSUME NEW i \in 1 .. Len(q'), wpos' - 1 + i > n
          PROVE  RightmostPage(q'[i]) = NoPage
      <4>1. i + 1 \in 1 .. Len(q) /\ wpos - 1 + (i + 1) > n /\ q'[i] = q[i + 1]
        BY <1>1, <1>3, <1>9, <3>1
      <4>2. QED
        BY <1>3, <4>1 DEF PaddingQueued
    <3>2. QED
      BY <1>1, <3>1 DEF PaddingQueued
  <2>5. QED
    BY <1>1, <1>10, <1>11, <2>1, <2>2, <2>3, <2>4 DEF RowInv
<1>16. ExtendStage(lo, A)'
  <2>1. FlushAt(Row', lo, N, n, wpos + 1, cbd)
    BY <1>3, <1>5, <1>7, <1>11 DEF FlushAt, AllJoined
  <2>2. file'[n].lvl = file[n].lvl
    BY <1>3, <1>13 DEF KeepsOld, SameShape
  <2>3. QED
    BY <1>1, <1>4, <1>10, <2>1, <2>2 DEF ExtendStage
<1>17. QueueTypeOK'
  <2>1. glob' \in Globals
    BY <1>1, FlushGlobals DEF ExtendAt, QueueTypeOK
  <2>2. wpos' \in Nat
    BY <1>1, <1>3
  <2>3. QED
    BY <1>1, <1>9, <2>1, <2>2 DEF ExtendAt, QueueTypeOK
<1>18. stage' \in {"idle", "walk", "flush", "pad", "root"}
  BY <1>1
<1>19. QED
  BY <1>1, <1>9, <1>13, <1>14, <1>15, <1>16, <1>17, <1>18, GrowsWriting

LEMMA RootGrows ==
    ASSUME NEW lo, NEW A, ExtendAt(lo, A), WriteRoot
    PROVE  Grows(lo, lo, A)
<1> DEFINE n == hdr.rno
<1>1. /\ stage = "root" /\ q # <<>> /\ wpos \in Pos
      /\ file' = [file EXCEPT ![wpos] = ToBlock(q[1], "root")]
      /\ glob' = [glob EXCEPT !.rno = wpos]
      /\ q' = Tail(q) /\ wpos' = wpos + 1
      /\ UNCHANGED <<hdr, stage, at, cbd, hlev>>
  BY DEF WriteRoot
<1>2. PICK N : N = StreamEnd
  OBVIOUS
<1>3. /\ n \in Nat /\ n >= 1 /\ n \in Pos /\ wpos \in Nat /\ wpos >= 1 /\ q \in Seq(QNode)
      /\ N = wpos - 1 + Len(q) /\ N \in Nat
      /\ \A i \in 1 .. Len(q) : Row[wpos - 1 + i] = q[i] /\ q[i] \in QNode
      /\ Grown(Row, lo, N, n, A) /\ ExtendStage(lo, A)
      /\ \A p \in 1 .. wpos - 1 : ~Peak(lo, N, p) /\ (p < N => file[p].rsvd = "R")
      /\ file \in [Pos -> Block] /\ hdr \in Header
      /\ 1 .. n \subseteq Pos
  BY <1>1, <1>2, RowFacts
<1>4. Len(q) = 1 /\ AllJoined(lo, N, n) /\ hlev = file[n].lvl /\ cbd = 0
  BY <1>1, <1>2, <1>3 DEF ExtendStage
<1>5. wpos = N /\ N > n /\ N \in Pos /\ Row[N] = q[1] /\ q[1] \in QNode
  <2>1. wpos = N
    BY <1>3, <1>4
  <2>2. N > n
    BY <1>4 DEF AllJoined
  <2>3. 1 \in 1 .. Len(q) /\ wpos - 1 + 1 = wpos
    BY <1>3, <1>4
  <2>4. Row[wpos - 1 + 1] = q[1] /\ q[1] \in QNode
    BY <1>3, <2>3
  <2>5. QED
    BY <1>1, <2>1, <2>2, <2>3, <2>4
<1>6. HeadWritten(file, file', wpos, q, q', "root")
  BY <1>1 DEF HeadWritten
<1>7. /\ file' \in [Pos -> Block] /\ q' \in Seq(QNode) /\ Len(q') = Len(q) - 1
      /\ \A p \in Pos : p # wpos => file'[p] = file[p]
      /\ file'[wpos].lvl = q[1].lvl /\ file'[wpos].lcos = q[1].lcos /\ file'[wpos].rcos = q[1].rcos
      /\ file'[wpos].pos = q[1].pos /\ file'[wpos].pn = q[1].pn /\ file'[wpos].isn = q[1].isn
      /\ file'[wpos].h = q[1].h /\ file'[wpos].rsvd = "root"
      /\ (wpos + 1) - 1 + Len(q') = wpos - 1 + Len(q)
      /\ Alike(RowOf(file, wpos, q), RowOf(file', wpos + 1, q'), wpos - 1 + Len(q))
  <2>1. "root" \in Mark
    BY DEF Mark
  <2>2. QED
    BY <1>3, <1>6, <2>1, HeadFacts
<1>8. q' = <<>>
  BY <1>4, <1>7
<1>9. Grown(file', lo, N, n, A)
  <2>1. Alike(Row, Row', N)
    <3>1. Row = RowOf(file, wpos, q) /\ Row' = RowOf(file', wpos + 1, q')
      BY <1>1, RowNow, RowNext
    <3>2. QED
      BY <1>3, <1>7, <3>1
  <2>2. Grown(Row', lo, N, n, A)
    BY <1>3, <2>1, GrownAlike
  <2>3. \A p \in 1 .. N : Row'[p] = file'[p]
    <3>1. Row' = RowOf(file', wpos + 1, q')
      BY <1>1, RowNext
    <3>2. RowReads(RowOf(file', wpos + 1, q'), file', wpos + 1, q')
      <4>1. wpos + 1 \in Nat /\ wpos + 1 >= 1 /\ Len(q') \in Nat
        BY <1>3, <1>7
      <4>2. QED
        BY <4>1, RowIndex, Zenon
    <3>3. \A p \in 1 .. (wpos + 1) - 1 : Row'[p] = file'[p]
      BY <3>1, <3>2 DEF RowReads
    <3>4. QED
      BY <1>3, <1>5, <3>3
  <2>4. Alike(Row', file', N)
    BY <2>3 DEF Alike, SameShape
  <2>5. QED
    BY <2>2, <2>4, GrownAlike
<1>10. \A p \in 1 .. N - 1 : file'[p] = file[p] /\ file[p].rsvd = "R"
  <2>1. ASSUME NEW p \in 1 .. N - 1 PROVE file'[p] = file[p] /\ file[p].rsvd = "R"
    <3>1. p \in 1 .. wpos - 1 /\ p < N /\ p # wpos /\ p \in Pos
      BY <1>3, <1>5, PosFacts
    <3>2. QED
      BY <1>3, <1>7, <3>1
  <2>2. QED
    BY <2>1
<1>11. glob' \in Globals /\ glob'.rno = N
  <2>1. glob \in Globals /\ wpos \in 0 .. MaxPos
    BY <1>1, DiskAssumption DEF ExtendAt, QueueTypeOK, Pos
  <2>2. [glob EXCEPT !.rno = wpos] \in Globals /\ [glob EXCEPT !.rno = wpos].rno = wpos
    BY <2>1 DEF Globals
  <2>3. QED
    BY <1>1, <1>5, <2>2
<1>12. NewTree(lo, A)'
  <2>1. file'[N].rsvd = "root"
    BY <1>5, <1>7
  <2>2. QED
    BY <1>1, <1>4, <1>5, <1>9, <1>10, <1>11, <2>1 DEF NewTree
<1>13. q[1].pos \in Nat
  <2>1. N \in 1 .. N /\ TreeRow(Row, lo, N)
    BY <1>3, <1>5 DEF Grown
  <2>2. Row[N].pos \in Nat
    BY ONLY <2>1 DEF TreeRow
  <2>3. QED
    BY <1>5, <2>2
<1>14. KeepsOld(file, file', n) /\ Offsets'
  <2>1. ASSUME NEW x \in 1 .. n PROVE file'[x] = file[x] /\ file[x].pos \in Nat
    <3>1. x \in Pos /\ x # wpos
      BY <1>3, <1>5
    <3>2. QED
      BY <1>7, <3>1 DEF ExtendAt, Offsets
  <2>2. n \in 1 .. n /\ \A x \in 1 .. n - 1 : x \in 1 .. n
    BY <1>3
  <2>3. KeepsOld(file, file', n)
    BY <2>1, <2>2 DEF KeepsOld, SameShape
  <2>4. Offsets'
    BY <1>7, <1>13 DEF ExtendAt, Offsets
  <2>5. QED
    BY <2>3, <2>4
<1>15. ExtendStage(lo, A)'
  <2>1. file'[n].lvl = file[n].lvl
    <3>1. n \in Pos /\ n # wpos
      BY <1>3, <1>5
    <3>2. QED
      BY <1>7, <3>1
  <2>2. QED
    BY <1>1, <1>4, <1>8, <1>12, <2>1 DEF ExtendStage
<1>16. QueueTypeOK'
  <2>1. wpos' \in Nat
    BY <1>1, <1>3
  <2>2. QED
    BY <1>1, <1>7, <1>11, <2>1 DEF ExtendAt, QueueTypeOK
<1>17. stage' \in {"idle", "walk", "flush", "pad", "root"} /\ (stage' # "root" \/ q' # <<>> => RowInv(lo, A)')
  BY <1>1, <1>8
<1>18. QED
  BY <1>1, <1>7, <1>14, <1>15, <1>16, <1>17, GrowsWriting

LEMMA QueueGrows ==
    ASSUME NEW lo, NEW A, ExtendAt(lo, A), QueueStep
    PROVE  \E lo2 : Grows(lo, lo2, A)
<1>1. CASE CombineStep
  BY <1>1, CombineGrows
<1>2. CASE SkipStep
  BY <1>2, SkipGrows
<1>3. CASE WalkEnd
  BY <1>3, WalkEndGrows
<1>4. CASE FlushStep
  BY <1>4, FlushGrows
<1>5. CASE FlushEnd
  BY <1>5, FlushEndGrows
<1>6. CASE PadStep
  BY <1>6, PadGrows
<1>7. CASE PadEnd
  BY <1>7, PadEndGrows
<1>8. CASE WriteRoot
  BY <1>8, RootGrows
<1>9. QED
  BY <1>1, <1>2, <1>3, <1>4, <1>5, <1>6, <1>7, <1>8 DEF QueueStep

(* The extension as a part of the insertion behind the last page.          *)
LEMMA ExtendHere ==
    ASSUME TypeOK, NEW lo, IInvAt(lo), pc = "extend"
    PROVE  ExtendAt(lo, Behind) /\ hdr.fslo = NoPos /\ Fresh
<1>1. Sound(lo) /\ OpInv(lo) /\ Offsets
  BY InvParts
<1>2. QED
  BY <1>1 DEF OpInv, ExtendInv, Sound, Holds, ExtendAt, TypeOK

LEMMA ExtendDone ==
    ASSUME TypeOK, NEW lo, IInvAt(lo), pc = "extend",
           UNCHANGED <<pc, op, ret, cur, acked, cut, slot>>,
           NEW A, A = Behind, NEW lo2, Grows(lo, lo2, A)
    PROVE  TypeOK' /\ IInvAt(lo2)'
<1>1. Sound(lo) /\ hdr.fslo = NoPos /\ Fresh
  BY InvParts, ExtendHere
<1>2. /\ ExtendAt(lo2, A)' /\ hdr' = hdr /\ KeepsOld(file, file', hdr.rno)
      /\ \A p \in 1 .. hdr.rno : lo2[p] = lo[p]
  BY DEF Grows
<1>3. TypeOK' /\ Offsets'
  BY <1>2 DEF ExtendAt, TypeOK
<1>4. Sound(lo2)'
  BY <1>1, <1>2, SoundOld
<1>5. ExtendInv(lo2)'
  <2>1. Known' = Known /\ Behind' = A
    BY DEF Known, Behind
  <2>2. (stage' # "root" \/ q' # <<>> => RowInv(lo2, A)') /\ ExtendStage(lo2, A)'
    BY <1>2 DEF ExtendAt
  <2>3. RowInv(lo2, Behind)' <=> RowInv(lo2, A)'
    BY <2>1 DEF RowInv, OldRoot
  <2>4. ExtendStage(lo2, Behind)' <=> ExtendStage(lo2, A)'
    BY <2>1 DEF ExtendStage, NewTree
  <2>5. QED
    BY <1>1, <1>2, <2>1, <2>2, <2>3, <2>4 DEF ExtendInv, Fresh
<1>6. OpInv(lo2)'
  BY <1>5 DEF OpInv, SearchInv, UpdateInv, InsertInv, SepsInv, NextInv, ClimbInv, ScanInv,
       AtRest, Inserting
<1>7. QED
  BY <1>3, <1>4, <1>6 DEF IInvAt, OpInv

LEMMA ExtendBeginInv ==
    ASSUME TypeOK, NEW lo, IInvAt(lo), ExtendBegin
    PROVE  TypeOK' /\ IInvAt(lo)'
<1>1. /\ pc = "extend" /\ stage = "idle" /\ BeginPadding
      /\ UNCHANGED <<file, hdr, pc, op, cur, ret, q, at, cbd, wpos, glob, slot, acked, cut>>
  BY DEF ExtendBegin, walkVars, storeVars
<1>2. PICK A : A = Behind
  OBVIOUS
<1>3. ExtendAt(lo, A)
  BY <1>1, <1>2, ExtendHere
<1>4. Grows(lo, lo, A)
  BY <1>1, <1>3, BeginGrows
<1>5. QED
  BY <1>1, <1>2, <1>4, ExtendDone

LEMMA ExtendStepInv ==
    ASSUME TypeOK, NEW lo, IInvAt(lo), ExtendStep
    PROVE  TypeOK' /\ \E lo2 : IInvAt(lo2)'
<1>1. pc = "extend" /\ QueueStep /\ UNCHANGED <<pc, op, cur, ret, slot, acked, cut>>
  BY DEF ExtendStep, walkVars, storeVars
<1>2. PICK A : A = Behind
  OBVIOUS
<1>3. ExtendAt(lo, A)
  BY <1>1, <1>2, ExtendHere
<1>4. PICK lo2 : Grows(lo, lo2, A)
  BY <1>1, <1>3, QueueGrows
<1>5. TypeOK' /\ IInvAt(lo2)'
  BY <1>1, <1>2, <1>4, ExtendDone
<1>6. QED
  BY <1>5

LEMMA StutterInv ==
    ASSUME TypeOK, NEW lo, IInvAt(lo), UNCHANGED vars
    PROVE  TypeOK' /\ IInvAt(lo)'
<1>1. UNCHANGED <<file, hdr, pc, op, cur, ret, stage, q, at, cbd, hlev, wpos, glob,
                  slot, acked, cut>>
  BY DEF vars
<1>2. TypeOK'
  <2>1. QueueTypeOK' /\ DiskTypeOK'
    BY <1>1 DEF TypeOK, QueueTypeOK, DiskTypeOK
  <2>2. QED
    BY <1>1, <2>1 DEF TypeOK
<1>3. Sound(lo)'
  BY <1>1, InvParts, SoundQuiet DEF Busy
<1>4. Offsets'
  BY <1>1, InvParts DEF Offsets
<1>5. OpInv(lo)'
  <2>1. Row' = Row /\ StreamEnd' = StreamEnd
    BY <1>1, RowNow, RowNext
  <2>2. Known' = Known /\ FirstOpen(hdr)' = FirstOpen(hdr) /\ (Fresh' <=> Fresh)
        /\ (Inserting' <=> Inserting) /\ Behind' = Behind
    BY <1>1 DEF Known, FirstOpen, Fresh, Inserting, Behind
  <2>3. SearchInv(lo)' /\ UpdateInv' /\ InsertInv' /\ SepsInv(lo)' /\ NextInv' /\ ClimbInv' /\ AtRest'
    BY <1>1, <2>2 DEF IInvAt, SearchInv, UpdateInv, InsertInv, SepsInv, NextInv,
       ClimbInv, AtRest
  <2>4. (Extended(lo)' <=> Extended(lo)) /\ (OldRoot(Behind)' <=> OldRoot(Behind))
    BY <1>1, <2>2 DEF Extended, OldRoot
  <2>5. ScanInv(lo)'
    BY <1>1, <2>2, <2>4 DEF IInvAt, ScanInv
  <2>6. ExtendInv(lo)'
    <3>1. RowInv(lo, Behind)' <=> RowInv(lo, Behind)
      BY <1>1, <2>1, <2>2, <2>4 DEF RowInv, PaddingQueued
    <3>2. NewTree(lo, Behind)' <=> NewTree(lo, Behind)
      BY <1>1, <2>2 DEF NewTree
    <3>3. ExtendStage(lo, Behind)' <=> ExtendStage(lo, Behind)
      BY <1>1, <2>1, <3>2 DEF ExtendStage
    <3>4. QED
      BY <1>1, <2>2, <3>1, <3>3 DEF IInvAt, ExtendInv
  <2>7. QED
    BY <2>3, <2>5, <2>6 DEF OpInv
<1>6. IInvAt(lo)'
  BY <1>3, <1>4, <1>5 DEF IInvAt, OpInv
<1>7. QED
  BY <1>2, <1>6

LEMMA NextInvariant ==
    ASSUME IInv, [Next]_vars
    PROVE  IInv'
<1>1. TypeOK
  BY DEF IInv
<1>2. PICK lo : IInvAt(lo)
  BY DEF IInv
<1>3. ASSUME TypeOK' /\ \E lo2 : IInvAt(lo2)' PROVE IInv'
  BY <1>3 DEF IInv
<1>4. CASE \E args \in Args("update") : StartUpdate(args)
  BY <1>1, <1>2, <1>3, <1>4, StartUpdateInv
<1>5. CASE \E args \in Args("insert") : StartInsert(args)
  BY <1>1, <1>2, <1>3, <1>5, StartInsertInv
<1>6. CASE UpdateStep
  <2>1. CASE Search
    BY <1>1, <1>2, <1>3, <2>1, SearchStepInv
  <2>2. CASE Fail
    BY <1>1, <1>2, <1>3, <2>2, FailInv
  <2>3. CASE UpdateLeaf
    BY <1>1, <1>2, <1>3, <2>3, UpdateLeafInv
  <2>4. CASE UpdateReturns
    BY <1>1, <1>2, <1>3, <2>4, UpdateReturnsInv
  <2>5. QED
    BY <1>6, <2>1, <2>2, <2>3, <2>4 DEF UpdateStep
<1>7. CASE Climb
  BY <1>1, <1>2, <1>3, <1>7, ClimbStepInv
<1>8. CASE ExtensionStep
  <2>1. CASE ExtendBegin
    BY <1>1, <1>2, <1>3, <2>1, ExtendBeginInv
  <2>2. CASE ExtendStep
    BY <1>1, <1>2, <1>3, <2>2, ExtendStepInv
  <2>3. CASE ExtendScan
    BY <1>1, <1>2, <1>3, <2>3, ExtendScanInv
  <2>4. CASE ExtendRescan
    BY <1>1, <1>2, <1>3, <2>4, ExtendRescanInv
  <2>5. CASE ExtendHeader
    BY <1>1, <1>2, <1>3, <2>5, ExtendHeaderInv
  <2>6. QED
    BY <1>8, <2>1, <2>2, <2>3, <2>4, <2>5 DEF ExtensionStep
<1>9. CASE ScanStep
  BY <1>1, <1>2, <1>3, <1>9, ScanStepInv
<1>10. CASE InsertStep
  <2>1. CASE Fill
    BY <1>1, <1>2, <1>3, <2>1, FillInv
  <2>2. CASE PathDone
    BY <1>1, <1>2, <1>3, <2>2, PathDoneInv
  <2>3. CASE SepsBegin
    BY <1>1, <1>2, <1>3, <2>3, SepsBeginInv
  <2>4. CASE SepParent
    BY <1>1, <1>2, <1>3, <2>4, SepParentInv
  <2>5. CASE SepLeft
    BY <1>1, <1>2, <1>3, <2>5, SepLeftInv
  <2>6. CASE SepRight
    BY <1>1, <1>2, <1>3, <2>6, SepRightInv
  <2>7. CASE NextPad
    BY <1>1, <1>2, <1>3, <2>7, NextPadInv
  <2>8. CASE InsertReturns
    BY <1>1, <1>2, <1>3, <2>8, InsertReturnsInv
  <2>9. QED
    BY <1>10, <2>1, <2>2, <2>3, <2>4, <2>5, <2>6, <2>7, <2>8 DEF InsertStep
<1>11. CASE Crash
  BY <1>1, <1>2, <1>3, <1>11, CrashInv
<1>12. CASE UNCHANGED vars
  BY <1>1, <1>2, <1>3, <1>12, StutterInv
<1>13. QED
  BY <1>4, <1>5, <1>6, <1>7, <1>8, <1>9, <1>10, <1>11, <1>12 DEF Next, Step

(* A file as the builders leave it.                                        *)
AtStart(leaves) ==
    /\ acked = [p \in {leaves[i].pn : i \in DOMAIN leaves} |->
                   leaves[CHOOSE i \in DOMAIN leaves : leaves[i].pn = p].h]
    /\ pc = "idle" /\ op = NoOp /\ cur = NoPos /\ ret = NoPos
    /\ QueueAtRest /\ glob = NoGlobals
    /\ slot = NoPos /\ cut = {}

LEMMA StartInvariant ==
    ASSUME NEW leaves, \A i \in DOMAIN leaves : leaves[i].pn \in Pages,
           \A p \in Pages : p < NoPage, Pages \subseteq Nat,
           LaidOut(file, hdr, leaves), AtStart(leaves)
    PROVE  IInv
<1> DEFINE lo == Firsts(file, hdr.rno)
           P == {leaves[i].pn : i \in DOMAIN leaves}
<1>1. {i \in DOMAIN leaves : leaves[i].pn # NoPage} = DOMAIN leaves
  BY DiskAssumption
<1>2. /\ file \in [Pos -> Block] /\ hdr \in Header /\ Holds(file, lo, hdr, P)
      /\ \A p \in Pos : file[p].pos \in Nat
      /\ \A x \in 1 .. hdr.rno, i \in DOMAIN leaves :
            LeafAt(file, hdr.rno, x) /\ file[x].pn = leaves[i].pn => file[x].h = leaves[i].h
  BY <1>1 DEF LaidOut
<1> HIDE DEF lo
<1>3. Known = P /\ P \subseteq Pages /\ Busy = {} /\ cut = {}
  BY DEF AtStart, Known, Busy
<1>4. TypeOK
  <2>1. QueueTypeOK
    BY DiskAssumption DEF AtStart, QueueAtRest, QueueTypeOK, NoPad, NoGlobals, Globals, NoPos
  <2>2. /\ op \in [kind : {"none", "insert", "update"}, page : Nat, hash : Hash]
        /\ cur \in Int /\ ret \in 0 .. MaxPos /\ slot \in {Nowhere} \cup 0 .. MaxPos
    BY DiskAssumption DEF AtStart, NoOp, NullHash, Hash, Byte, NoPos
  <2>3. pc = "idle" /\ stage = "idle"
    BY DEF AtStart, QueueAtRest
  <2>4. DOMAIN acked \subseteq Pages /\ cut \subseteq Pages
    BY <1>3 DEF Known
  <2>5. QED
    BY <1>2, <2>1, <2>2, <2>3, <2>4 DEF TypeOK, DiskTypeOK
<1>5. HashesShown
  <2>1. SUFFICES ASSUME NEW x \in 1 .. hdr.rno, LeafAt(file, hdr.rno, x), x < FirstOpen(hdr)
                 PROVE  file[x].h = acked[file[x].pn]
    BY DEF HashesShown
  <2>2. file[x].pn \in P
    BY <1>2, <2>1 DEF Holds, PageRow
  <2>3. PICK p : p = file[x].pn
    OBVIOUS
  <2>4. \E i \in DOMAIN leaves : leaves[i].pn = p
    BY <2>2, <2>3
  <2>5. PICK j : j = CHOOSE i \in DOMAIN leaves : leaves[i].pn = p
    OBVIOUS
  <2>6. j \in DOMAIN leaves /\ leaves[j].pn = p
    BY <2>4, <2>5
  <2>7. acked[p] = leaves[j].h
    BY <2>2, <2>3, <2>5 DEF AtStart
  <2>8. file[x].h = leaves[j].h
    BY <1>2, <2>1, <2>3, <2>6
  <2>9. QED
    BY <2>3, <2>7, <2>8
<1>6. Sound(lo)
  BY <1>2, <1>3, <1>5 DEF Sound
<1>7. OpInv(lo)
  BY DEF AtStart, QueueAtRest, OpInv, SearchInv, UpdateInv, InsertInv, SepsInv, NextInv, ClimbInv,
     ExtendInv, ScanInv, AtRest, Inserting
<1>8. Offsets
  BY <1>2 DEF Offsets
<1>9. IInvAt(lo)
  BY <1>6, <1>7, <1>8, InvParts
<1>10. QED
  BY <1>4, <1>9 DEF IInv

LEMMA InitInvariant == Init => IInv
<1> SUFFICES ASSUME Init PROVE IInv
  OBVIOUS
<1>1. PICK leaves \in InitLeaves :
          /\ file = L!LayoutFile(leaves) /\ hdr = L!LayoutHeader(leaves)
          /\ acked = [p \in {leaves[i].pn : i \in DOMAIN leaves} |->
                        leaves[CHOOSE i \in DOMAIN leaves : leaves[i].pn = p].h]
  BY DEF Init
<1>2. AtStart(leaves)
  BY <1>1 DEF Init, AtStart
<1>3. LaidOut(file, hdr, leaves) /\ \A i \in DOMAIN leaves : leaves[i].pn \in Pages
  BY <1>1, StoreAssumption DEF StoreAssumption
<1>4. (\A p \in Pages : p < NoPage) /\ Pages \subseteq Nat
  BY StoreAssumption DEF StoreAssumption
<1>5. QED
  BY <1>2, <1>3, <1>4, StartInvariant

LEMMA ExInitInvariant == ASSUME ExFull PROVE ExInit => IInv
<1> SUFFICES ASSUME ExInit PROVE IInv
  OBVIOUS
<1>1. PICK leaves \in ExLeaves :
          /\ file = X!ExLayoutFile(leaves) /\ hdr = X!LayoutHeader(leaves)
          /\ acked = [p \in {leaves[i].pn : i \in DOMAIN leaves} \ {NoPage} |->
                        leaves[CHOOSE i \in DOMAIN leaves : leaves[i].pn = p].h]
  BY DEF ExInit
<1>2. \A i \in DOMAIN leaves : leaves[i].pn # NoPage
  BY DEF ExFull
<1>3. /\ \A i \in DOMAIN leaves : leaves[i].pn \in Pages
      /\ LaidOut(file, hdr, leaves)
  BY <1>1, <1>2, ExAssumption DEF ExAssumption
<1>4. {leaves[i].pn : i \in DOMAIN leaves} \ {NoPage} = {leaves[i].pn : i \in DOMAIN leaves}
  BY <1>2
<1>5. AtStart(leaves)
  BY <1>1, <1>4 DEF ExInit, AtStart
<1>6. (\A p \in Pages : p < NoPage) /\ Pages \subseteq Nat
  BY StoreAssumption DEF StoreAssumption
<1>7. QED
  BY <1>3, <1>5, <1>6, StartInvariant

-----------------------------------------------------------------------------
(* What the invariant says of searches and of the header.                  *)
LEMMA KnownLeaf ==
    ASSUME IInv, NEW p \in Known
    PROVE  \E x \in 1 .. hdr.rno :
              /\ LeafAt(file, hdr.rno, x) /\ x < FirstOpen(hdr) /\ file[x].pn = p
              /\ Lookup(p) = file[x].h /\ file[x].h \in Hash
              /\ p \notin cut \cup Busy => file[x].h = acked[p]
<1>1. PICK lo : IInvAt(lo)
  BY DEF IInv
<1>2. TypeOK /\ Sound(lo) /\ Holds(file, lo, hdr, Known)
  BY <1>1, InvParts DEF IInv, Sound
<1>3. file \in [Pos -> Block] /\ hdr \in Header
  BY <1>2, TypeFacts
<1>4. PageRow(file, hdr.rno, FirstOpen(hdr), Known)
  BY <1>2 DEF Holds
<1>5. PICK x \in 1 .. hdr.rno :
          LeafAt(file, hdr.rno, x) /\ x < FirstOpen(hdr) /\ file[x].pn = p
  BY <1>4 DEF PageRow
<1>6. LeafFor(file[x].pn) = x
  BY <1>2, <1>3, <1>5, SearchEnds
<1>7. x \in Pos
  BY <1>2, <1>3, FirstOpenType
<1>8. Lookup(p) = file[x].h
  BY <1>5, <1>6, <1>7 DEF Lookup, Read
<1>9. file[x].h \in Hash
  BY <1>3, <1>7, BlockTypes
<1>10. p \notin cut \cup Busy => file[x].h = acked[p]
  BY <1>2, <1>5 DEF Sound, HashesShown
<1>11. QED
  BY <1>5, <1>8, <1>9, <1>10

LEMMA InvFindsAcked == IInv => AckedFound
<1>1. SUFFICES ASSUME IInv, NEW p \in DOMAIN acked
               PROVE  IF p \in cut \cup {op.page} THEN Lookup(p) # Absent
                                                  ELSE Lookup(p) = acked[p]
  BY DEF AckedFound
<1>2. p \in Known
  BY DEF Known
<1>3. PICK x \in 1 .. hdr.rno :
          /\ Lookup(p) = file[x].h /\ file[x].h \in Hash
          /\ p \notin cut \cup Busy => file[x].h = acked[p]
  BY <1>1, <1>2, KnownLeaf
<1>4. Absent \notin Hash
  BY StoreAssumption DEF StoreAssumption
<1>5. Busy \subseteq {op.page}
  BY DEF Busy
<1>6. QED
  BY <1>3, <1>4, <1>5

LEMMA InvNamesSlot == IInv => HeaderInv
<1> SUFFICES ASSUME IInv PROVE HeaderInv
  OBVIOUS
<1>1. PICK lo : IInvAt(lo)
  BY DEF IInv
<1>2. TypeOK /\ Sound(lo) /\ Holds(file, lo, hdr, Known)
  BY <1>1, InvParts DEF IInv, Sound
<1>3. file \in [Pos -> Block] /\ hdr \in Header
  BY <1>2, TypeFacts
<1> DEFINE n == hdr.rno
           s == FirstOpen(hdr)
           Last_ == {p \in 1 .. n : file[p].lvl = 0 /\ file[p].pn \in DOMAIN acked}
           After == {p \in 1 .. n : file[p].lvl = 0 /\ \A x \in Last_ : x < p}
<1>4. /\ n \in Nat /\ s \in 1 .. n + 1 /\ 1 .. n \subseteq Pos
      /\ hdr.fslo # NoPos => s = hdr.fslo /\ s \in 1 .. n - 1
      /\ hdr.fslo = NoPos => s = n + 1
  BY <1>2, <1>3, FirstOpenType
<1>5. PageRow(file, n, s, Known)
  BY <1>2 DEF Holds
<1>6. ASSUME NEW x \in 1 .. n, file[x].lvl = 0 PROVE x \in Last_ <=> x < s
  <2>1. LeafAt(file, n, x) /\ file[x].pn \in Nat
    BY <1>3, <1>4, <1>6, BlockTypes DEF LeafAt
  <2>2. x < s => file[x].pn \in Known
    BY <1>5, <2>1 DEF PageRow
  <2>3. x >= s => file[x].pn \notin Known
    BY <1>5, <2>1 DEF PageRow
  <2>4. QED
    BY <1>4, <1>6, <2>2, <2>3 DEF Known
<1>7. ASSUME NEW y \in 1 .. n, file[y].lvl = 0 PROVE y \in After <=> y >= s
  <2>1. CASE y < s
    BY <1>4, <1>6, <1>7, <2>1
  <2>2. CASE y >= s
    BY <1>4, <1>6, <1>7, <2>2
  <2>3. QED
    BY <1>4, <2>1, <2>2
<1>8. CASE hdr.fslo = NoPos
  <2>1. After = {}
    BY <1>4, <1>7, <1>8
  <2>2. QED
    BY <1>2, <1>8, <2>1 DEF HeaderInv, HeaderNamesSlot
<1>9. CASE hdr.fslo # NoPos
  <2>1. OpenAt(file, n, hdr.fslo)
    BY <1>2, <1>9 DEF Holds
  <2>2. s = hdr.fslo /\ s \in 1 .. n /\ file[s].lvl = 0
    BY <1>4, <1>9, <2>1 DEF OpenAt
  <2>3. s \in After
    BY <1>7, <2>2, <1>4
  <2>4. \A x \in After : s <= x /\ x \in Nat
    BY <1>7, <1>4
  <2>5. PICK c : c = CHOOSE p \in After : \A x \in After : p <= x
    OBVIOUS
  <2>6. c \in After /\ \A x \in After : c <= x
    <3>1. \E p \in After : \A x \in After : p <= x
      BY <2>3, <2>4
    <3>2. QED
      BY <2>5, <3>1
  <2>7. c = s
    <3> HIDE DEF After, s
    <3>1. c <= s /\ s <= c /\ c \in Nat /\ s \in Nat
      BY <2>3, <2>4, <2>6, <1>4
    <3>2. QED
      BY <3>1
  <2>8. After # {}
    BY <2>3
  <2>9. hdr.fslo = CHOOSE p \in After : \A x \in After : p <= x
    BY <2>2, <2>5, <2>7
  <2>10. QED
    BY <1>2, <2>8, <2>9 DEF HeaderInv, HeaderNamesSlot
<1>10. QED
  BY <1>8, <1>9

-----------------------------------------------------------------------------
(* On every file the builder of mhtfile.c can leave: the invariant of the  *)
(* proofs holds, whatever runs and wherever crashes cut it.                *)
THEOREM StoreInvariance == Spec => []IInv
<1>1. Init => IInv
  BY InitInvariant
<1>2. IInv /\ [Next]_vars => IInv'
  BY NextInvariant
<1>3. QED
  BY <1>1, <1>2, PTL DEF Spec

(* A page whose insertion returned is found with the hash of its last      *)
(* operation, but for the pages an operation is, or was, at work on:       *)
(* insertNewMHTBlock, extentTheMHT and updateMHTBlockHashByPageNo, with a  *)
(* crash between any two writes.                                           *)
THEOREM AckedSafety == Spec => []AckedFound
<1>1. IInv => AckedFound
  BY InvFindsAcked
<1>2. QED
  BY <1>1, StoreInvariance, PTL

(* The header always names the first leaf behind the pages reported, or    *)
(* nothing when there is none: the next insertion overwrites no page and   *)
(* continues where a cut one was.                                          *)
THEOREM HeaderSafety == Spec => []HeaderInv
<1>1. IInv => HeaderInv
  BY InvNamesSlot
<1>2. QED
  BY <1>1, StoreInvariance, PTL

(* The same on the files of both builders, if mhtfile_ex.c was given full  *)
(* rows only.                                                              *)
THEOREM AnyInvariance == ASSUME ExFull PROVE AnySpec => []IInv
<1>1. InitAny => IInv
  BY InitInvariant, ExInitInvariant DEF InitAny
<1>2. IInv /\ [NextAny]_exVars => IInv'
  <2>1. SUFFICES ASSUME IInv, [NextAny]_exVars PROVE IInv'
    OBVIOUS
  <2>2. [Next]_vars
    BY <2>1 DEF NextAny, exVars
  <2>3. QED
    BY <2>1, <2>2, NextInvariant
<1>3. QED
  BY <1>1, <1>2, PTL DEF AnySpec

(* Pages that were reported are found in the files of both builders.       *)
THEOREM AnyAckedSafety == ASSUME ExFull PROVE AnySpec => []AckedFound
<1>1. IInv => AckedFound
  BY InvFindsAcked
<1>2. AnySpec => []IInv
  BY AnyInvariance
<1>3. QED
  BY <1>1, <1>2, PTL

(* The header of a file of either builder names the leaf for the next page.*)
THEOREM AnyHeaderSafety == ASSUME ExFull PROVE AnySpec => []HeaderInv
<1>1. IInv => HeaderInv
  BY InvNamesSlot
<1>2. AnySpec => []IInv
  BY AnyInvariance
<1>3. QED
  BY <1>1, <1>2, PTL

-----------------------------------------------------------------------------
(* The refinement of the page store.  A search for any page stays in the   *)
(* tree and ends on a leaf of it; which one depends on separators, levels  *)
(* and child offsets only.                                                 *)
LEMMA StaysInTree ==
    ASSUME NEW f \in [Pos -> Block], NEW lo, NEW n, FileTree(f, lo, n), NEW page,
           NEW y \in 1 .. n, IsInterior(f, y)
    PROVE  Goes(f, page, y) \in 1 .. y - 1
<1>1. n \in Nat /\ y \in Pos /\ TreeAt(f, lo, y)
  BY PosFacts DEF FileTree
<1>2. f[y].lvl > 0 /\ Read(f, y) = f[y]
  BY <1>1 DEF IsInterior, Read
<1>3. y + f[y].lcos \in 1 .. y - 2 /\ f[y].rcos = -1
  BY <1>1, <1>2 DEF TreeAt
<1>4. Goes(f, page, y) \in {y + f[y].lcos, y - 1}
  BY <1>1, <1>2, <1>3 DEF Goes, Lchild, Rchild
<1>5. QED
  BY <1>1, <1>3, <1>4

LEMMA LeafInTree ==
    ASSUME NEW f \in [Pos -> Block], NEW lo, NEW n, FileTree(f, lo, n), NEW page
    PROVE  LeafAt(f, n, LeafIn(f, n, page))
<1>1. PICK D : Unfolded(D, f, page) /\ LeafIn(f, n, page) = D[n]
  BY LeafUnfolds
<1>2. n \in Nat /\ n \in 1 .. n /\ 1 .. n \subseteq Pos
  BY PosFacts DEF FileTree
<1> DEFINE S == {y \in 1 .. n : LeafAt(f, n, D[y])}
<1>3. ASSUME NEW y \in 1 .. n, \A k \in 1 .. y - 1 : k \in S PROVE y \in S
  <2>1. y \in Int /\ y \in Pos /\ f[y].lvl \in Nat /\ Read(f, y) = f[y]
    BY <1>2, BlockTypes DEF Read
  <2>2. CASE ~IsInterior(f, y)
    BY <1>1, <2>1, <2>2 DEF Unfolded, IsInterior, LeafAt
  <2>3. CASE IsInterior(f, y)
    <3>1. D[y] = D[Goes(f, page, y)]
      BY <1>1, <2>1, <2>3 DEF Unfolded
    <3>2. Goes(f, page, y) \in 1 .. y - 1
      BY <2>3, StaysInTree
    <3>3. QED
      BY <1>3, <3>1, <3>2
  <2>4. QED
    BY <2>2, <2>3
<1> HIDE DEF S
<1>4. 1 .. n \subseteq S
  BY <1>2, <1>3, UpTheRow
<1>5. n \in S
  BY <1>2, <1>4
<1>6. QED
  BY <1>1, <1>5 DEF S

LEMMA LeafSame ==
    ASSUME NEW f \in [Pos -> Block], NEW g \in [Pos -> Block], NEW lo, NEW n,
           FileTree(f, lo, n), NEW page,
           \A y \in 1 .. n : /\ IsInterior(g, y) <=> IsInterior(f, y)
                             /\ Goes(g, page, y) = Goes(f, page, y)
    PROVE  LeafIn(g, n, page) = LeafIn(f, n, page)
<1>1. PICK D : Unfolded(D, f, page) /\ LeafIn(f, n, page) = D[n]
  BY LeafUnfolds
<1>2. PICK E : Unfolded(E, g, page) /\ LeafIn(g, n, page) = E[n]
  BY LeafUnfolds
<1>3. n \in Nat /\ n \in 1 .. n
  BY PosFacts DEF FileTree
<1> DEFINE S == {y \in 1 .. n : E[y] = D[y]}
<1>4. ASSUME NEW y \in 1 .. n, \A k \in 1 .. y - 1 : k \in S PROVE y \in S
  <2>1. y \in Int
    BY <1>3
  <2>2. CASE ~IsInterior(f, y)
    BY <1>1, <1>2, <2>1, <2>2 DEF Unfolded
  <2>3. CASE IsInterior(f, y)
    <3>1. D[y] = D[Goes(f, page, y)] /\ E[y] = E[Goes(f, page, y)]
      BY <1>1, <1>2, <2>1, <2>3 DEF Unfolded
    <3>2. Goes(f, page, y) \in 1 .. y - 1
      BY <2>3, StaysInTree
    <3>3. QED
      BY <1>4, <3>1, <3>2
  <2>4. QED
    BY <2>2, <2>3
<1> HIDE DEF S
<1>5. 1 .. n \subseteq S
  BY <1>3, <1>4, UpTheRow
<1>6. n \in S
  BY <1>3, <1>5
<1>7. QED
  BY <1>1, <1>2, <1>6 DEF S

(* The first n blocks keep their levels, and the leaves among them, but    *)
(* for block c, their pages and hashes.                                    *)
KeepsLeaves(f, g, n, c) ==
    \A x \in 1 .. n : /\ g[x].lvl = f[x].lvl
                      /\ f[x].lvl = 0 /\ x # c => g[x].pn = f[x].pn /\ g[x].h = f[x].h

Keeping == KeepsLeaves(file, file', hdr.rno, NoPos) /\ hdr' = hdr /\ Known' = Known

LEMMA SameKeeps ==
    ASSUME UNCHANGED <<file, hdr>>, DOMAIN acked' = DOMAIN acked
    PROVE  Keeping
BY DEF Keeping, KeepsLeaves, Known

LEMMA ClimbKeeps ==
    ASSUME IInv, Climb
    PROVE  Keeping
<1>1. PICK lo : IInvAt(lo)
  BY DEF IInv
<1>2. TypeOK /\ Sound(lo) /\ OpInv(lo) /\ Offsets
  BY <1>1, InvParts DEF IInv
<1>3. /\ pc = "path" /\ Climbs(file, cur) /\ cur' = Parent(file, cur)
      /\ file' = [file EXCEPT ![cur'] = Rehashed(file, cur')]
      /\ UNCHANGED <<hdr, acked>>
  BY DEF Climb, PathStep, storeVars
<1>4. file \in [Pos -> Block] /\ hdr.rno \in Nat /\ 1 .. hdr.rno \subseteq Pos /\ cur \in Int /\ cur >= 1
  BY <1>2, <1>3, TypeFacts, FirstOpenType DEF Sound, OpInv, ClimbInv
<1>5. PICK c : c = cur'
  OBVIOUS
<1>6. c \in 1 .. hdr.rno => file[c].lvl > 0
  <2>1. SUFFICES ASSUME c \in 1 .. hdr.rno PROVE file[c].lvl > 0
    OBVIOUS
  <2>2. cur \in Pos
    BY <1>3, <1>4 DEF Climbs, Read, ZeroBlock
  <2>3. Read(file, cur) = file[cur] /\ file[cur].pos \in Nat
    BY <1>2, <2>2 DEF Read, Offsets
  <2>4. c = cur + file[cur].pos /\ file[cur].pos > 0
    BY <1>3, <1>5, <2>3 DEF Climbs, Parent
  <2>5. cur \in 1 .. hdr.rno /\ cur < hdr.rno
    BY <1>4, <2>1, <2>3, <2>4
  <2>6. UpAt(file, hdr.rno, cur)
    BY <1>2, <2>5 DEF Sound, Holds, FileTree
  <2>7. QED
    BY <2>4, <2>5, <2>6 DEF UpAt
<1>7. ASSUME NEW x \in 1 .. hdr.rno
      PROVE  /\ file'[x].lvl = file[x].lvl
             /\ file[x].lvl = 0 => file'[x].pn = file[x].pn /\ file'[x].h = file[x].h
  <2>1. x \in Pos
    BY <1>4
  <2>2. CASE x # c
    BY <1>3, <1>4, <1>5, <2>1, <2>2
  <2>3. CASE x = c
    <3>1. file'[x] = Rehashed(file, x)
      BY <1>3, <1>4, <1>5, <2>1, <2>3
    <3>2. file[x] \in Block /\ Read(file, x) = file[x]
      BY <1>4, <2>1 DEF Read
    <3>3. PICK v : file'[x] = [file[x] EXCEPT !.h = v]
      BY <3>1, <3>2 DEF Rehashed
    <3>4. file'[x].lvl = file[x].lvl
      BY <3>2, <3>3 DEF Block
    <3>5. file[x].lvl > 0
      BY <1>6, <2>3
    <3>6. QED
      BY <3>4, <3>5
  <2>4. QED
    BY <2>2, <2>3
<1>8. QED
  BY <1>3, <1>7 DEF Keeping, KeepsLeaves, Known

LEMMA SepParentKeeps ==
    ASSUME IInv, SepParent
    PROVE  Keeping
<1>1. PICK lo : IInvAt(lo)
  BY DEF IInv
<1>2. TypeOK /\ Sound(lo) /\ OpInv(lo)
  BY <1>1, InvParts DEF IInv
<1>3. Inserting /\ pc = "sepParent"
  BY DEF SepParent, Inserting
<1>4. /\ file \in [Pos -> Block] /\ hdr.rno \in Nat /\ 1 .. hdr.rno \subseteq Pos
      /\ slot \in 1 .. hdr.rno /\ Holds(file, lo, hdr, Known)
  BY <1>1, <1>2, <1>3, InsertFacts
<1>5. cur \in slot .. hdr.rno /\ lo[cur] <= slot /\ cur > slot
  BY <1>2, <1>3 DEF OpInv, SepsInv
<1>6. cur \in 1 .. hdr.rno /\ cur \in Pos
  BY <1>4, <1>5
<1>7. file[cur].lvl > 0 /\ Read(file, cur) = file[cur] /\ file[cur] \in Block
  <2>1. TreeAt(file, lo, cur) /\ file[cur].lvl \in Nat
    BY <1>4, <1>6, BlockTypes DEF FileTree, Holds
  <2>2. QED
    BY <1>4, <1>5, <1>6, <2>1 DEF TreeAt, Read
<1>8. \E u, v, w : file' = [file EXCEPT ![cur] = [file[cur] EXCEPT !.pn = u, !.lcpn = v, !.rcpn = w]]
  BY <1>6, <1>7 DEF SepParent, Written
<1>9. PICK u, v, w : file' = [file EXCEPT ![cur] = [file[cur] EXCEPT !.pn = u, !.lcpn = v, !.rcpn = w]]
  BY <1>8, Zenon
<1>10. ASSUME NEW x \in 1 .. hdr.rno
       PROVE  /\ file'[x].lvl = file[x].lvl
              /\ file[x].lvl = 0 => file'[x].pn = file[x].pn /\ file'[x].h = file[x].h
  <2>1. x \in Pos
    BY <1>4
  <2>2. CASE x # cur
    BY <1>4, <1>9, <2>1, <2>2
  <2>3. CASE x = cur
    <3>1. file'[x] = [file[cur] EXCEPT !.pn = u, !.lcpn = v, !.rcpn = w]
      BY <1>4, <1>9, <2>1, <2>3
    <3>2. file'[x].lvl = file[x].lvl
      BY <1>7, <2>3, <3>1 DEF Block
    <3>3. QED
      BY <1>7, <2>3, <3>2
  <2>4. QED
    BY <2>2, <2>3
<1>11. UNCHANGED <<hdr, acked>>
  BY DEF SepParent, storeVars
<1>12. QED
  BY <1>10, <1>11 DEF Keeping, KeepsLeaves, Known

LEMMA ParentPageKeeps ==
    ASSUME IInv, NEW c, SetParentPage(c), UNCHANGED <<hdr, acked>>
    PROVE  Keeping
<1>1. PICK lo : IInvAt(lo)
  BY DEF IInv
<1>2. TypeOK /\ Sound(lo)
  BY <1>1, InvParts DEF IInv
<1>3. file \in [Pos -> Block] /\ 1 .. hdr.rno \subseteq Pos
  BY <1>2, TypeFacts, FirstOpenType DEF Sound
<1> DEFINE v == Read(file, cur).pn
<1>4. v \in Nat
  BY <1>3, BlockTypes DEF Read, ZeroBlock
<1>5. PutsPage(file, file', c, v)
  BY DEF SetParentPage, Written, PutsPage, Read
<1> HIDE DEF v
<1>6. \A x \in Pos : SameShape(file, file', x) /\ file'[x].h = file[x].h
  BY <1>3, <1>4, <1>5, PageWrite
<1>7. QED
  BY <1>3, <1>6 DEF Keeping, KeepsLeaves, SameShape, Known

(* The blocks the extension writes are behind the tree, but for the old    *)
(* root, which keeps its page and hash.                                    *)
LEMMA GrowsKeeps ==
    ASSUME KeepsOld(file, file', hdr.rno), UNCHANGED <<hdr, acked>>
    PROVE  Keeping
BY DEF KeepsOld, SameShape, Keeping, KeepsLeaves, Known

(* Four kinds of steps do more to the leaves of the tree and to the pages  *)
(* reported than keep them.                                                *)
LEMMA StepKinds ==
    ASSUME IInv, [Next]_vars
    PROVE  Keeping \/ UpdateLeaf \/ Fill \/ ExtendHeader \/ InsertReturns
<1>1. CASE \E args \in Args("update") : StartUpdate(args)
  <2>1. UNCHANGED <<file, hdr>> /\ DOMAIN acked' = DOMAIN acked
    BY <1>1 DEF StartUpdate, BeginSearch, storeVars
  <2>2. QED
    BY <2>1, SameKeeps
<1>2. CASE \E args \in Args("insert") : StartInsert(args)
  <2>1. UNCHANGED <<file, hdr>> /\ DOMAIN acked' = DOMAIN acked
    BY <1>2 DEF StartInsert
  <2>2. QED
    BY <2>1, SameKeeps
<1>3. CASE Search \/ Fail \/ UpdateReturns
  <2>1. UNCHANGED <<file, hdr>> /\ DOMAIN acked' = DOMAIN acked
    BY <1>3 DEF Search, SearchStep, Fail, UpdateReturns, storeVars
  <2>2. QED
    BY <2>1, SameKeeps
<1>4. CASE Climb
  BY <1>4, ClimbKeeps
<1>5. CASE ExtendBegin \/ ExtendScan \/ ExtendRescan \/ ScanStep
  <2>1. UNCHANGED <<file, hdr>> /\ DOMAIN acked' = DOMAIN acked
    BY <1>5 DEF ExtendBegin, ExtendScan, ExtendRescan, ScanStep, storeVars
  <2>2. QED
    BY <2>1, SameKeeps
<1>6. CASE ExtendStep
  <2>1. pc = "extend" /\ QueueStep /\ UNCHANGED acked
    BY <1>6 DEF ExtendStep, storeVars
  <2>2. PICK lo : IInvAt(lo)
    BY DEF IInv
  <2>3. TypeOK
    BY DEF IInv
  <2>4. PICK A : A = Behind
    OBVIOUS
  <2>5. ExtendAt(lo, A)
    BY <2>1, <2>2, <2>3, <2>4, ExtendHere
  <2>6. PICK lo2 : Grows(lo, lo2, A)
    BY <2>1, <2>5, QueueGrows
  <2>7. QED
    BY <2>1, <2>6, GrowsKeeps DEF Grows
<1>7. CASE PathDone \/ SepsBegin \/ NextPad
  <2>1. UNCHANGED <<file, hdr>> /\ DOMAIN acked' = DOMAIN acked
    BY <1>7 DEF PathDone, SepsBegin, NextPad, storeVars
  <2>2. QED
    BY <2>1, SameKeeps
<1>8. CASE SepParent
  BY <1>8, SepParentKeeps
<1>9. CASE SepLeft \/ SepRight
  <2>1. PICK c : SetParentPage(c) /\ UNCHANGED <<hdr, acked>>
    BY <1>9 DEF SepLeft, SepRight, storeVars
  <2>2. QED
    BY <2>1, ParentPageKeeps
<1>10. CASE Crash
  <2>1. UNCHANGED <<file, hdr>> /\ DOMAIN acked' = DOMAIN acked
    BY <1>10 DEF Crash, Dies
  <2>2. QED
    BY <2>1, SameKeeps
<1>11. CASE UNCHANGED vars
  <2>1. UNCHANGED <<file, hdr>> /\ DOMAIN acked' = DOMAIN acked
    BY <1>11 DEF vars
  <2>2. QED
    BY <2>1, SameKeeps
<1>12. CASE UpdateLeaf \/ Fill \/ ExtendHeader \/ InsertReturns
  BY <1>12
<1>13. QED
  BY <1>1, <1>2, <1>3, <1>4, <1>5, <1>6, <1>7, <1>8, <1>9, <1>10, <1>11, <1>12
     DEF Next, Step, UpdateStep, ExtensionStep, InsertStep

(* Callers gave every hash of a page in the tree and that of the operation *)
(* which runs; some page is always known.                                  *)
HashesGiven ==
    /\ Known # {}
    /\ pc # "idle" => op.hash \in GivenHash
    /\ \A x \in 1 .. hdr.rno :
          LeafAt(file, hdr.rno, x) /\ file[x].pn \in Pages => file[x].h \in GivenHash

LEMMA OperationGiven ==
    ASSUME HashesGiven, [Next]_vars
    PROVE  /\ Known \subseteq Known' /\ Known' # {}
           /\ pc' # "idle" => op'.hash \in GivenHash
<1>1. NewHash \subseteq GivenHash
  BY StoreAssumption DEF StoreAssumption
<1>2. Known \subseteq Known'
  BY DEF Known, Next, Step, UpdateStep, ExtensionStep, InsertStep, vars, StartUpdate, StartInsert,
     Search, Fail, UpdateLeaf, UpdateReturns, Climb, ExtendBegin, ExtendStep, ExtendScan,
     ExtendRescan, ExtendHeader, ScanStep, Fill, PathDone, SepsBegin, SepParent, SepLeft,
     SepRight, NextPad, InsertReturns, Crash, Dies, storeVars
<1>3. CASE \E args \in Args("update") : StartUpdate(args)
  <2>1. PICK args \in Args("update") : StartUpdate(args)
    BY <1>3
  <2>2. op' = args
    BY <2>1 DEF StartUpdate, BeginSearch
  <2>3. args.hash \in NewHash
    BY DEF Args
  <2>4. QED
    BY <1>1, <1>2, <2>2, <2>3 DEF HashesGiven
<1>4. CASE \E args \in Args("insert") : StartInsert(args)
  <2>1. PICK args \in Args("insert") : StartInsert(args)
    BY <1>4
  <2>2. op' = args
    BY <2>1 DEF StartInsert
  <2>3. args.hash \in NewHash
    BY DEF Args
  <2>4. QED
    BY <1>1, <1>2, <2>2, <2>3 DEF HashesGiven
<1>5. ASSUME Step \/ Crash \/ UNCHANGED vars
      PROVE  pc' = "idle" \/ (op' = op /\ pc # "idle") \/ (op' = op /\ pc' = pc)
  BY <1>5 DEF Step, UpdateStep, ExtensionStep, InsertStep, vars, Search, SearchStep, Fail, UpdateLeaf,
     Found, AtLeaf, UpdateReturns, Climb, PathStep, ExtendBegin, ExtendStep, ExtendScan,
     ExtendRescan, ExtendHeader, ScanStep, Scanning, Fill, PathDone, PathEnded, SepsBegin, SepParent,
     SepLeft, SepRight, NextPad, InsertReturns, Crash, Dies, Return, walkVars
<1>6. pc' # "idle" => op'.hash \in GivenHash
  <2>1. CASE Step \/ Crash \/ UNCHANGED vars
    BY <1>5, <2>1 DEF HashesGiven
  <2>2. QED
    BY <1>3, <1>4, <2>1 DEF Next
<1>7. QED
  BY <1>2, <1>6 DEF HashesGiven

LEMMA GivenStep ==
    ASSUME IInv, HashesGiven, [Next]_vars
    PROVE  HashesGiven'
<1>1. PICK lo : IInvAt(lo)
  BY DEF IInv
<1>2. TypeOK /\ Sound(lo) /\ OpInv(lo) /\ Holds(file, lo, hdr, Known)
  BY <1>1, InvParts DEF IInv, Sound
<1>3. file \in [Pos -> Block] /\ hdr.rno \in Nat /\ 1 .. hdr.rno \subseteq Pos
  BY <1>2, TypeFacts, FirstOpenType
<1>4. Known' # {} /\ (pc' # "idle" => op'.hash \in GivenHash)
  BY OperationGiven
<1>5. SUFFICES ASSUME NEW x \in 1 .. hdr'.rno, LeafAt(file', hdr'.rno, x), file'[x].pn \in Pages
               PROVE  file'[x].h \in GivenHash
  BY <1>4 DEF HashesGiven
<1>6. \A y \in 1 .. hdr.rno :
         LeafAt(file, hdr.rno, y) /\ file[y].pn \in Pages => file[y].h \in GivenHash
  BY DEF HashesGiven
<1>7. CASE Keeping
  <2>1. x \in 1 .. hdr.rno /\ file'[x].lvl = 0
    BY <1>5, <1>7 DEF Keeping, LeafAt
  <2>2. file[x].lvl = 0 /\ file'[x].pn = file[x].pn /\ file'[x].h = file[x].h
    BY <1>3, <1>7, <2>1 DEF Keeping, KeepsLeaves, NoPos
  <2>3. QED
    BY <1>5, <1>6, <2>1, <2>2 DEF LeafAt
<1>8. CASE UpdateLeaf
  <2>1. /\ pc = "search" /\ file' = [file EXCEPT ![ret].h = op.hash] /\ hdr' = hdr
    BY <1>8 DEF UpdateLeaf, Found, AtLeaf
  <2>2. op.hash \in GivenHash
    BY <2>1 DEF HashesGiven
  <2>3. x \in 1 .. hdr.rno /\ x \in Pos /\ file[x] \in Block
    BY <1>3, <1>5, <2>1
  <2>4. CASE x = ret
    <3>1. file'[x] = [file[x] EXCEPT !.h = op.hash]
      BY <1>3, <2>1, <2>3, <2>4
    <3>2. file'[x].h = op.hash
      BY <2>3, <3>1 DEF Block
    <3>3. QED
      BY <2>2, <3>2
  <2>5. CASE x # ret
    <3>1. file'[x] = file[x]
      BY <1>3, <2>1, <2>3, <2>5
    <3>2. QED
      BY <1>5, <1>6, <2>1, <2>3, <3>1 DEF LeafAt
  <2>6. QED
    BY <2>4, <2>5
<1>9. CASE Fill
  <2>1. /\ pc = "fill" /\ slot \in Pos /\ hdr' = hdr
        /\ file' = [file EXCEPT ![slot] = [@ EXCEPT !.pn = op.page, !.h = op.hash,
                                                    !.isn = FALSE, !.izn = FALSE]]
    BY <1>9 DEF Fill
  <2>2. op.hash \in GivenHash
    BY <2>1 DEF HashesGiven
  <2>3. x \in 1 .. hdr.rno /\ x \in Pos /\ file[x] \in Block
    BY <1>3, <1>5, <2>1
  <2>4. CASE x = slot
    <3>1. file'[x] = [file[x] EXCEPT !.pn = op.page, !.h = op.hash, !.isn = FALSE, !.izn = FALSE]
      BY <1>3, <2>1, <2>3, <2>4
    <3>2. file'[x].h = op.hash
      BY <2>3, <3>1 DEF Block
    <3>3. QED
      BY <2>2, <3>2
  <2>5. CASE x # slot
    <3>1. file'[x] = file[x]
      BY <1>3, <2>1, <2>3, <2>5
    <3>2. QED
      BY <1>5, <1>6, <2>1, <2>3, <3>1 DEF LeafAt
  <2>6. QED
    BY <2>4, <2>5
<1>10. CASE InsertReturns
  <2>1. file' = file /\ hdr'.rno = glob.rno /\ pc = "next"
    BY <1>10 DEF InsertReturns, NewHeader
  <2>2. glob.rno = hdr.rno
    BY <1>2, <2>1 DEF OpInv, InsertInv, Inserting
  <2>3. QED
    BY <1>5, <1>6, <2>1, <2>2
<1>11. CASE ExtendHeader
  <2>1. file' = file /\ hdr'.rno = glob.rno /\ pc = "rescan"
    BY <1>11 DEF ExtendHeader, NewHeader
  <2>2. Extended(lo) /\ hdr.fslo = NoPos
    BY <1>2, <2>1 DEF OpInv, ScanInv
  <2>3. PICK m : m = glob.rno
    OBVIOUS
  <2>4. PICK h2 : h2 = [rno |-> m, fslo |-> hdr.rno + 1]
    OBVIOUS
  <2>5. Holds(file, lo, h2, Known) /\ Padding(file, hdr.rno + 1) /\ h2.rno = m
        /\ FirstOpen(h2) = hdr.rno + 1
    BY <1>3, <2>2, <2>3, <2>4 DEF Extended, FirstOpen, NoPos
  <2>6. PageRow(file, m, hdr.rno + 1, Known)
    BY <2>5 DEF Holds
  <2>7. x \in 1 .. m /\ LeafAt(file, m, x) /\ file[x].pn \in Pages
    BY <1>5, <2>1, <2>3
  <2>8. m \in Nat
    BY <2>5, PosFacts DEF Holds, FileTree
  <2>9. CASE x <= hdr.rno
    <3>1. x \in 1 .. hdr.rno /\ LeafAt(file, hdr.rno, x)
      BY <1>3, <2>7, <2>8, <2>9 DEF LeafAt
    <3>2. QED
      BY <1>6, <2>1, <2>7, <3>1
  <2>10. CASE x >= hdr.rno + 1
    <3>1. file[x].pn = NoPage
      <4>1. x > hdr.rno + 1 => file[x].pn = NoPage
        BY <2>6, <2>7 DEF PageRow
      <4>2. x = hdr.rno + 1 => file[x].pn = NoPage
        BY <2>5 DEF Padding
      <4>3. QED
        BY <1>3, <2>7, <2>8, <2>10, <4>1, <4>2
    <3>2. \A p \in Pages : p \in Nat /\ p < NoPage
      BY StoreAssumption DEF StoreAssumption
    <3>3. FALSE
      BY <2>7, <3>1, <3>2, DiskAssumption
    <3>4. QED
      BY <3>3
  <2>11. QED
    BY <1>3, <2>7, <2>8, <2>9, <2>10
<1>12. QED
  BY <1>7, <1>8, <1>9, <1>10, <1>11, StepKinds

LEMMA GivenStart ==
    ASSUME NEW leaves, DOMAIN leaves # {}, LaidOut(file, hdr, leaves), AtStart(leaves),
           \A i \in DOMAIN leaves : leaves[i].pn \in Pages /\ leaves[i].h \in GivenHash
    PROVE  HashesGiven
<1> DEFINE lo == Firsts(file, hdr.rno)
           P == {leaves[i].pn : i \in DOMAIN leaves}
<1>1. /\ \A p \in Pages : p \in Nat /\ p < NoPage
      /\ NoPage \notin Pages
  BY StoreAssumption, DiskAssumption DEF StoreAssumption
<1>2. {i \in DOMAIN leaves : leaves[i].pn # NoPage} = DOMAIN leaves
  BY <1>1
<1>3. /\ file \in [Pos -> Block] /\ hdr \in Header /\ Holds(file, lo, hdr, P)
      /\ \A x \in 1 .. hdr.rno :
            LeafAt(file, hdr.rno, x) /\ x >= FirstOpen(hdr) => file[x].pn = NoPage
      /\ \A x \in 1 .. hdr.rno, i \in DOMAIN leaves :
            LeafAt(file, hdr.rno, x) /\ file[x].pn = leaves[i].pn => file[x].h = leaves[i].h
  BY <1>2 DEF LaidOut
<1> HIDE DEF lo
<1>4. hdr.rno \in Nat /\ FirstOpen(hdr) \in Int
  BY <1>3, FirstOpenType
<1>5. Known = P /\ P # {}
  BY DEF AtStart, Known
<1>6. pc = "idle"
  BY DEF AtStart
<1>7. ASSUME NEW x \in 1 .. hdr.rno, LeafAt(file, hdr.rno, x), file[x].pn \in Pages
      PROVE  file[x].h \in GivenHash
  <2>1. x < FirstOpen(hdr)
    BY <1>1, <1>3, <1>4, <1>7
  <2>2. file[x].pn \in P
    BY <1>3, <1>7, <2>1 DEF Holds, PageRow
  <2>3. PICK i \in DOMAIN leaves : file[x].pn = leaves[i].pn
    BY <2>2
  <2>4. file[x].h = leaves[i].h
    BY <1>3, <1>7, <2>3
  <2>5. QED
    BY <2>4
<1>8. QED
  BY <1>5, <1>6, <1>7 DEF HashesGiven

(* What searches show: a page that is known, by its leaf; a page that is   *)
(* not, only while it stands in the open leaf.                             *)
Shows ==
    /\ \A p \in Known :
          /\ \E x \in 1 .. hdr.rno :
                LeafAt(file, hdr.rno, x) /\ x < FirstOpen(hdr) /\ file[x].pn = p
          /\ \A x \in 1 .. hdr.rno :
                LeafAt(file, hdr.rno, x) /\ file[x].pn = p => Lookup(p) = file[x].h
    /\ \A p \in Pages \ Known : Lookup(p) # Absent =>
          /\ hdr.fslo \in 1 .. hdr.rno /\ LeafAt(file, hdr.rno, hdr.fslo)
          /\ file[hdr.fslo].pn = p /\ Lookup(p) = file[hdr.fslo].h

LEMMA InvShows == IInv => Shows
<1> SUFFICES ASSUME IInv PROVE Shows
  OBVIOUS
<1>1. PICK lo : IInvAt(lo)
  BY DEF IInv
<1>2. TypeOK /\ Sound(lo) /\ Holds(file, lo, hdr, Known)
  BY <1>1, InvParts DEF IInv, Sound
<1>3. file \in [Pos -> Block] /\ hdr \in Header
  BY <1>2, TypeFacts
<1>4. /\ hdr.rno \in Nat /\ 1 .. hdr.rno \subseteq Pos /\ FirstOpen(hdr) \in 1 .. hdr.rno + 1
      /\ hdr.fslo # NoPos => FirstOpen(hdr) = hdr.fslo /\ hdr.fslo \in 1 .. hdr.rno - 1
      /\ hdr.fslo = NoPos => FirstOpen(hdr) = hdr.rno + 1
  BY <1>2, <1>3, FirstOpenType
<1>5. FileTree(file, lo, hdr.rno) /\ PageRow(file, hdr.rno, FirstOpen(hdr), Known)
  BY <1>2 DEF Holds
<1>6. ASSUME NEW p \in Known
      PROVE  /\ \E x \in 1 .. hdr.rno :
                   LeafAt(file, hdr.rno, x) /\ x < FirstOpen(hdr) /\ file[x].pn = p
             /\ \A x \in 1 .. hdr.rno :
                   LeafAt(file, hdr.rno, x) /\ file[x].pn = p => Lookup(p) = file[x].h
  <2>1. PICK x \in 1 .. hdr.rno :
          /\ LeafAt(file, hdr.rno, x) /\ x < FirstOpen(hdr) /\ file[x].pn = p
          /\ Lookup(p) = file[x].h
    BY KnownLeaf
  <2>2. \A y \in 1 .. hdr.rno : LeafAt(file, hdr.rno, y) /\ file[y].pn = p => y = x
    BY <1>2, <1>3, <2>1, LeafOfPage
  <2>3. QED
    BY <2>1, <2>2
<1>7. ASSUME NEW p \in Pages \ Known, Lookup(p) # Absent
      PROVE  /\ hdr.fslo \in 1 .. hdr.rno /\ LeafAt(file, hdr.rno, hdr.fslo)
             /\ file[hdr.fslo].pn = p /\ Lookup(p) = file[hdr.fslo].h
  <2>1. PICK z : z = LeafFor(p)
    OBVIOUS
  <2>2. LeafAt(file, hdr.rno, z)
    BY <1>3, <1>5, <2>1, LeafInTree, LeafForIn
  <2>3. z \in 1 .. hdr.rno /\ z \in Pos
    BY <1>4, <2>2 DEF LeafAt
  <2>4. file[z].pn = p /\ Lookup(p) = file[z].h
    BY <1>7, <2>1, <2>3 DEF Lookup, Read
  <2>5. z >= FirstOpen(hdr)
    <3>1. z < FirstOpen(hdr) => file[z].pn \in Known
      BY <1>5, <2>2, <2>3 DEF PageRow
    <3>2. QED
      BY <1>4, <2>3, <2>4, <3>1
  <2>6. z <= FirstOpen(hdr)
    <3>1. z > FirstOpen(hdr) => file[z].pn = NoPage
      BY <1>5, <2>2, <2>3 DEF PageRow
    <3>2. p \in Nat /\ p < NoPage
      BY StoreAssumption DEF StoreAssumption
    <3>3. QED
      BY <1>4, <2>3, <2>4, <3>1, <3>2, DiskAssumption
  <2>7. z = FirstOpen(hdr)
    BY <1>4, <2>3, <2>5, <2>6
  <2>8. z = hdr.fslo
    BY <1>4, <2>3, <2>7
  <2>9. QED
    BY <2>2, <2>3, <2>4, <2>8
<1>8. QED
  BY <1>6, <1>7 DEF Shows

(* While the leaves of known pages stay as they are, so does what is shown *)
(* of these pages; then a page that appears is put, and pages that vanish  *)
(* do so while a known page is put again.                                  *)
LEMMA KnownStays ==
    ASSUME Shows, Shows', Known' = Known,
           \A x \in 1 .. hdr.rno :
              LeafAt(file, hdr.rno, x) /\ x < FirstOpen(hdr) =>
                 LeafAt(file', hdr'.rno, x) /\ file'[x].pn = file[x].pn /\ file'[x].h = file[x].h
    PROVE  \A p \in Known : Lookup(p)' = Lookup(p)
<1>1. SUFFICES ASSUME NEW p \in Known PROVE Lookup(p)' = Lookup(p)
  OBVIOUS
<1>2. PICK x \in 1 .. hdr.rno :
         LeafAt(file, hdr.rno, x) /\ x < FirstOpen(hdr) /\ file[x].pn = p
  BY DEF Shows
<1>3. Lookup(p) = file[x].h
  BY <1>2 DEF Shows
<1>4. LeafAt(file', hdr'.rno, x) /\ file'[x].pn = p /\ file'[x].h = file[x].h
  BY <1>2
<1>5. x \in 1 .. hdr'.rno /\ p \in Known'
  BY <1>4 DEF LeafAt
<1>6. Lookup(p)' = file'[x].h
  BY <1>4, <1>5 DEF Shows
<1>7. QED
  BY <1>3, <1>4, <1>6

LEMMA StaysIsPut ==
    ASSUME Shows, Shows', HashesGiven, HashesGiven', Known' = Known, Known \subseteq Pages,
           \A p \in Known : Lookup(p)' = Lookup(p)
    PROVE  Store!Next
<1> DEFINE u == hdr'.fslo
<1>1. \A p \in Pages \ Known : Lookup(p)' # Absent =>
          /\ u \in 1 .. hdr'.rno /\ LeafAt(file', hdr'.rno, u)
          /\ file'[u].pn = p /\ Lookup(p)' = file'[u].h
  BY DEF Shows
<1>2. SUFFICES \E p \in Pages, hash \in GivenHash : Store!Put(p, hash)
  BY DEF Store!Next
<1>3. CASE \E p \in Pages \ Known : Lookup(p)' # Absent
  <2>1. PICK p \in Pages \ Known : Lookup(p)' # Absent
    BY <1>3
  <2>2. u \in 1 .. hdr'.rno /\ LeafAt(file', hdr'.rno, u) /\ file'[u].pn = p /\ Lookup(p)' = file'[u].h
    BY <1>1, <2>1
  <2>3. Lookup(p)' \in GivenHash
    BY <2>2 DEF HashesGiven
  <2>4. \A x \in Pages \ {p} : \/ Lookup(x)' = Lookup(x)
                               \/ x \notin Known /\ Lookup(x)' = Absent
    BY <1>1, <2>2
  <2>5. Store!Put(p, Lookup(p)')
    BY <2>4 DEF Store!Put, Known
  <2>6. QED
    BY <2>3, <2>5
<1>4. CASE \A p \in Pages \ Known : Lookup(p)' = Absent
  <2>1. PICK p \in Known : TRUE
    BY DEF HashesGiven
  <2>2. PICK x \in 1 .. hdr.rno : LeafAt(file, hdr.rno, x) /\ file[x].pn = p
    BY DEF Shows
  <2>3. Lookup(p) = file[x].h
    BY <2>2 DEF Shows
  <2>4. Lookup(p) \in GivenHash /\ p \in Pages
    BY <2>2, <2>3 DEF HashesGiven
  <2>5. Store!Put(p, Lookup(p))
    BY <1>4, <2>4 DEF Store!Put, Known
  <2>6. QED
    BY <2>4, <2>5
<1>5. QED
  BY <1>3, <1>4

(* The write of an update puts the hash of its page; what a search for any *)
(* other page ends on does not change.                                     *)
LEMMA UpdatePuts ==
    ASSUME IInv, HashesGiven, Shows, Shows', UpdateLeaf
    PROVE  Store!Next
<1>1. PICK lo : IInvAt(lo)
  BY DEF IInv
<1>2. TypeOK /\ Sound(lo) /\ OpInv(lo) /\ Holds(file, lo, hdr, Known) /\ Known \subseteq Pages
  BY <1>1, InvParts, TypeFacts DEF IInv, Sound
<1>3. /\ file \in [Pos -> Block] /\ hdr \in Header /\ hdr.rno \in Nat /\ 1 .. hdr.rno \subseteq Pos
      /\ FileTree(file, lo, hdr.rno)
  BY <1>2, TypeFacts, FirstOpenType DEF Holds
<1>4. /\ pc = "search" /\ file' = [file EXCEPT ![ret].h = op.hash] /\ hdr' = hdr
      /\ ~IsInterior(file, cur) /\ Read(file, cur).pn = op.page /\ ret # NoPos /\ acked' = acked
  BY DEF UpdateLeaf, Found, AtLeaf, storeVars
<1>5. cur \in 1 .. hdr.rno /\ ret = cur /\ op.page \in Known
  BY <1>2, <1>4 DEF OpInv, SearchInv
<1>6. ret \in 1 .. hdr.rno /\ ret \in Pos /\ file[ret].lvl = 0 /\ file[ret].pn = op.page
  <2>1. file[ret].lvl \in Nat
    BY <1>3, <1>5, BlockTypes
  <2>2. QED
    BY <1>3, <1>4, <1>5, <2>1 DEF IsInterior, Read
<1>7. /\ file' \in [Pos -> Block] /\ file'[ret].h = op.hash
      /\ \A x \in Pos : /\ file'[x].lvl = file[x].lvl /\ file'[x].pn = file[x].pn
                        /\ file'[x].lcos = file[x].lcos /\ file'[x].rcos = file[x].rcos
      /\ \A x \in Pos : x # ret => file'[x] = file[x]
  <2> DEFINE v == op.hash
  <2>1. v \in Hash /\ Rewritten(file, file', ret, v)
    BY <1>2, <1>4, <1>6, TypeFacts DEF Rewritten
  <2> HIDE DEF v
  <2>2. /\ file' \in [Pos -> Block] /\ file'[ret].h = v
        /\ \A x \in Pos : SameShape(file, file', x) /\ file'[x].pos = file[x].pos
                          /\ file'[x].rsvd = file[x].rsvd
        /\ \A x \in Pos : x # ret => file'[x] = file[x]
    <3>1. file \in [Pos -> Block]
      BY <1>3
    <3>2. ret \in Pos
      BY <1>6
    <3>3. v \in Hash
      BY <2>1
    <3>4. PICK f : f = file
      OBVIOUS
    <3>5. PICK g : g = file'
      OBVIOUS
    <3>6. PICK r : r = ret
      OBVIOUS
    <3>7. f \in [Pos -> Block] /\ r \in Pos /\ Rewritten(f, g, r, v)
      BY <2>1, <3>1, <3>2, <3>4, <3>5, <3>6
    <3>8. /\ g \in [Pos -> Block] /\ g[r].h = v
          /\ \A x \in Pos : SameShape(f, g, x) /\ g[x].pos = f[x].pos /\ g[x].rsvd = f[x].rsvd
          /\ \A x \in Pos : x # r => g[x] = f[x]
      BY ONLY <3>3, <3>7, HashWrite
    <3>9. QED
      BY ONLY <3>4, <3>5, <3>6, <3>8, Zenon
  <2>3. QED
    BY <2>2 DEF v, SameShape
<1>8. Known' = Known
  BY <1>4 DEF Known
<1>9. PICK u \in Known : u = op.page
  BY <1>5
<1>10. Lookup(u)' = op.hash /\ op.hash \in GivenHash
  <2>1. LeafAt(file', hdr'.rno, ret) /\ file'[ret].pn = u /\ ret \in 1 .. hdr'.rno
    BY <1>4, <1>6, <1>7, <1>9 DEF LeafAt
  <2>2. Lookup(u)' = file'[ret].h
    BY <1>8, <2>1 DEF Shows
  <2>3. QED
    BY <1>4, <1>7, <2>2 DEF HashesGiven
<1>11. ASSUME NEW p \in Pages, p # u PROVE Lookup(p)' = Lookup(p)
  <2>1. \A y \in 1 .. hdr.rno : /\ IsInterior(file', y) <=> IsInterior(file, y)
                                /\ Goes(file', p, y) = Goes(file, p, y)
    BY <1>3, <1>7 DEF IsInterior, Goes, Lchild, Rchild, Read
  <2>2. LeafIn(file', hdr.rno, p) = LeafIn(file, hdr.rno, p)
    BY <1>3, <1>7, <2>1, LeafSame
  <2>3. LeafFor(p)' = LeafFor(p)
    <3>1. LeafFor(p)' = LeafIn(file', hdr'.rno, p)
      BY DEF LeafFor, LeafIn
    <3>2. QED
      BY <1>4, <2>2, <3>1, LeafForIn
  <2>4. PICK z : z = LeafFor(p)
    OBVIOUS
  <2>5. LeafAt(file, hdr.rno, z)
    BY <1>3, <2>4, LeafInTree, LeafForIn
  <2>6. z \in Pos
    BY <1>3, <2>5 DEF LeafAt
  <2>7. CASE z # ret
    <3>1. file'[z] = file[z]
      BY <1>7, <2>6, <2>7
    <3>2. QED
      BY <2>3, <2>4, <2>6, <3>1 DEF Lookup, Read
  <2>8. CASE z = ret
    <3>1. file[z].pn # p /\ file'[z].pn # p
      BY <1>6, <1>7, <1>11, <1>9, <2>8
    <3>2. QED
      BY <2>3, <2>4, <2>6, <3>1 DEF Lookup, Read
  <2>9. QED
    BY <2>7, <2>8
<1>12. u \in Pages
  BY <1>2
<1>13. Store!Put(u, op.hash)
  BY <1>8, <1>10, <1>11, <1>12 DEF Store!Put, Known
<1>14. QED
  BY <1>10, <1>12, <1>13 DEF Store!Next

(* The return of an insertion reports its page.                            *)
LEMMA ReturnReports ==
    ASSUME IInv, IInv', Shows', InsertReturns
    PROVE  Store!Next
<1>1. PICK lo : IInvAt(lo)
  BY DEF IInv
<1>2. TypeOK /\ OpInv(lo)
  BY <1>1, InvParts DEF IInv
<1>3. /\ pc = "next" /\ file' = file /\ hdr'.rno = glob.rno
      /\ Known' = Known \cup {op.page}
  BY DEF InsertReturns, NewHeader, Known
<1>4. Fresh /\ hdr'.rno = hdr.rno
  BY <1>2, <1>3 DEF OpInv, InsertInv, Inserting
<1>5. ASSUME NEW p PROVE Lookup(p)' = Lookup(p)
  BY <1>3, <1>4 DEF Lookup, LeafFor
<1>6. Lookup(op.page) # Absent
  <2>1. PICK p : p = op.page
    OBVIOUS
  <2>2. p \in Known'
    BY <1>3, <2>1
  <2>3. PICK x \in 1 .. hdr'.rno : LeafAt(file', hdr'.rno, x) /\ file'[x].pn = p
    BY <2>2 DEF Shows
  <2>4. Lookup(p)' = file'[x].h
    BY <2>2, <2>3 DEF Shows
  <2>5. file'[x].h \in Hash
    <3>1. file \in [Pos -> Block] /\ x \in 1 .. hdr.rno
      BY <1>2, <1>4, TypeFacts
    <3>2. 1 .. hdr.rno \subseteq Pos
      BY <1>1, <1>2, <3>1, InvParts, TypeFacts, FirstOpenType DEF Sound
    <3>3. QED
      BY <1>3, <3>1, <3>2, BlockTypes
  <2>6. QED
    BY <1>5, <2>1, <2>4, <2>5, StoreAssumption DEF StoreAssumption
<1>7. op.page \in Pages
  BY <1>4 DEF Fresh
<1>8. Store!Report(op.page)
  BY <1>3, <1>5, <1>6, <1>7 DEF Store!Report, Store!Present, Known
<1>9. QED
  BY <1>7, <1>8 DEF Store!Next

LEMMA StepImplements ==
    ASSUME IInv, IInv', HashesGiven, HashesGiven', Shows, Shows', [Next]_vars
    PROVE  Store!Next
<1>1. PICK lo : IInvAt(lo)
  BY DEF IInv
<1>2. TypeOK /\ Sound(lo) /\ OpInv(lo) /\ Known \subseteq Pages
  BY <1>1, InvParts, TypeFacts DEF IInv
<1>3. /\ file \in [Pos -> Block] /\ hdr.rno \in Nat /\ 1 .. hdr.rno \subseteq Pos
      /\ FirstOpen(hdr) \in 1 .. hdr.rno + 1
  BY <1>2, TypeFacts, FirstOpenType DEF Sound
<1>4. ASSUME Known' = Known,
             \A x \in 1 .. hdr.rno :
                LeafAt(file, hdr.rno, x) /\ x < FirstOpen(hdr) =>
                   LeafAt(file', hdr'.rno, x) /\ file'[x].pn = file[x].pn /\ file'[x].h = file[x].h
      PROVE  Store!Next
  <2>1. \A p \in Known : Lookup(p)' = Lookup(p)
    BY <1>4, KnownStays
  <2>2. QED
    BY <1>2, <1>4, <2>1, StaysIsPut
<1>5. CASE Keeping
  <2>1. Known' = Known /\ hdr' = hdr
    BY <1>5 DEF Keeping
  <2>2. ASSUME NEW x \in 1 .. hdr.rno, LeafAt(file, hdr.rno, x)
        PROVE  LeafAt(file', hdr'.rno, x) /\ file'[x].pn = file[x].pn /\ file'[x].h = file[x].h
    <3>1. file[x].lvl = 0 /\ x # NoPos
      BY <1>3, <2>2 DEF LeafAt, NoPos
    <3>2. file'[x].lvl = file[x].lvl /\ file'[x].pn = file[x].pn /\ file'[x].h = file[x].h
      BY <1>5, <3>1 DEF Keeping, KeepsLeaves
    <3>3. QED
      BY <2>1, <3>1, <3>2 DEF LeafAt
  <2>3. QED
    BY <1>4, <2>1, <2>2
<1>6. CASE Fill
  <2>1. /\ pc = "fill" /\ hdr' = hdr /\ acked' = acked
        /\ file' = [file EXCEPT ![slot] = [@ EXCEPT !.pn = op.page, !.h = op.hash,
                                                    !.isn = FALSE, !.izn = FALSE]]
    BY <1>6 DEF Fill, storeVars
  <2>2. FirstOpen(hdr) = slot
    BY <1>2, <2>1 DEF OpInv, InsertInv, Inserting, FirstOpen
  <2>3. Known' = Known
    BY <2>1 DEF Known
  <2>4. ASSUME NEW x \in 1 .. hdr.rno, LeafAt(file, hdr.rno, x), x < FirstOpen(hdr)
        PROVE  LeafAt(file', hdr'.rno, x) /\ file'[x].pn = file[x].pn /\ file'[x].h = file[x].h
    <3>1. x # slot /\ x \in Pos
      BY <1>3, <2>2, <2>4
    <3>2. file'[x] = file[x]
      BY <1>3, <2>1, <3>1
    <3>3. QED
      BY <2>1, <2>4, <3>2 DEF LeafAt
  <2>5. QED
    BY <1>4, <2>3, <2>4
<1>7. CASE ExtendHeader
  <2>1. /\ pc = "rescan" /\ file' = file /\ acked' = acked /\ hdr'.rno = glob.rno
    BY <1>7 DEF ExtendHeader, NewHeader
  <2>2. glob.rno > hdr.rno + 1
    BY <1>2, <2>1 DEF OpInv, ScanInv, Extended
  <2>3. Known' = Known
    BY <2>1 DEF Known
  <2>4. glob.rno \in Int
    BY <1>2, TypeFacts DEF Globals
  <2>5. ASSUME NEW x \in 1 .. hdr.rno, LeafAt(file, hdr.rno, x)
        PROVE  LeafAt(file', hdr'.rno, x) /\ file'[x].pn = file[x].pn /\ file'[x].h = file[x].h
    BY <1>3, <2>1, <2>2, <2>4, <2>5 DEF LeafAt
  <2>6. QED
    BY <1>4, <2>3, <2>5
<1>8. CASE UpdateLeaf
  BY <1>8, UpdatePuts
<1>9. CASE InsertReturns
  BY <1>9, ReturnReports
<1>10. QED
  BY <1>5, <1>6, <1>7, <1>8, <1>9, StepKinds

LEMMA ShownAtStart ==
    ASSUME IInv, HashesGiven, Shows,
           hdr.fslo \in 1 .. hdr.rno => file[hdr.fslo].pn \notin Pages
    PROVE  Store!Init
<1>1. Known \subseteq Pages
  BY TypeFacts DEF IInv
<1>2. ASSUME NEW p \in Known PROVE Lookup(p) \in GivenHash /\ Lookup(p) # Absent
  <2>1. PICK x \in 1 .. hdr.rno : LeafAt(file, hdr.rno, x) /\ file[x].pn = p
    BY DEF Shows
  <2>2. Lookup(p) = file[x].h
    BY <2>1 DEF Shows
  <2>3. Lookup(p) \in GivenHash
    BY <1>1, <2>1, <2>2 DEF HashesGiven
  <2>4. Lookup(p) # Absent
    <3>1. PICK y \in 1 .. hdr.rno : Lookup(p) = file[y].h /\ file[y].h \in Hash
      BY KnownLeaf
    <3>2. QED
      BY <3>1, StoreAssumption DEF StoreAssumption
  <2>5. QED
    BY <2>3, <2>4
<1>3. ASSUME NEW p \in Pages \ Known PROVE Lookup(p) = Absent
  BY <1>3 DEF Shows
<1>4. \A p \in Pages : Lookup(p) \in GivenHash \cup {Absent} /\ (p \in Known <=> Lookup(p) # Absent)
  BY <1>2, <1>3
<1>5. QED
  BY <1>1, <1>4 DEF Store!Init, Store!Present, Known

LEMMA StartIsStore ==
    ASSUME NEW leaves, DOMAIN leaves # {}, LaidOut(file, hdr, leaves), AtStart(leaves),
           \A i \in DOMAIN leaves : leaves[i].pn \in Pages /\ leaves[i].h \in GivenHash
    PROVE  HashesGiven /\ Store!Init
<1>1. \A p \in Pages : p \in Nat /\ p < NoPage
  BY StoreAssumption DEF StoreAssumption
<1>2. IInv
  BY <1>1, StartInvariant
<1>3. HashesGiven
  BY GivenStart
<1>4. ASSUME hdr.fslo \in 1 .. hdr.rno PROVE file[hdr.fslo].pn \notin Pages
  <2>1. PICK lo : IInvAt(lo)
    BY <1>2 DEF IInv
  <2>2. hdr \in Header /\ Holds(file, lo, hdr, Known)
    BY <1>2, <2>1, InvParts, TypeFacts DEF IInv, Sound
  <2>3. hdr.fslo # NoPos
    BY <1>4 DEF NoPos
  <2>4. LeafAt(file, hdr.rno, hdr.fslo) /\ hdr.fslo >= FirstOpen(hdr)
    BY <1>4, <2>2, <2>3 DEF Holds, OpenAt, LeafAt, FirstOpen
  <2>5. file[hdr.fslo].pn = NoPage
    BY <1>4, <2>4 DEF LaidOut
  <2>6. QED
    BY <1>1, <2>5, DiskAssumption
<1>5. Store!Init
  BY <1>2, <1>3, <1>4, InvShows, ShownAtStart
<1>6. QED
  BY <1>3, <1>5

LEMMA InitImplements == Init => HashesGiven /\ Store!Init
<1> SUFFICES ASSUME Init PROVE HashesGiven /\ Store!Init
  OBVIOUS
<1>1. PICK leaves \in InitLeaves :
          /\ file = L!LayoutFile(leaves) /\ hdr = L!LayoutHeader(leaves)
          /\ acked = [p \in {leaves[i].pn : i \in DOMAIN leaves} |->
                        leaves[CHOOSE i \in DOMAIN leaves : leaves[i].pn = p].h]
  BY DEF Init
<1>2. AtStart(leaves)
  BY <1>1 DEF Init, AtStart
<1>3. /\ DOMAIN leaves # {} /\ LaidOut(file, hdr, leaves)
      /\ \A i \in DOMAIN leaves : leaves[i].pn \in Pages /\ leaves[i].h \in GivenHash
  BY <1>1, StoreAssumption DEF StoreAssumption
<1>4. QED
  BY <1>2, <1>3, StartIsStore

LEMMA ExInitImplements == ASSUME ExFull PROVE ExInit => HashesGiven /\ Store!Init
<1> SUFFICES ASSUME ExInit PROVE HashesGiven /\ Store!Init
  OBVIOUS
<1>1. PICK leaves \in ExLeaves :
          /\ file = X!ExLayoutFile(leaves) /\ hdr = X!LayoutHeader(leaves)
          /\ acked = [p \in {leaves[i].pn : i \in DOMAIN leaves} \ {NoPage} |->
                        leaves[CHOOSE i \in DOMAIN leaves : leaves[i].pn = p].h]
  BY DEF ExInit
<1>2. \A i \in DOMAIN leaves : leaves[i].pn # NoPage
  BY DEF ExFull
<1>3. /\ DOMAIN leaves # {} /\ LaidOut(file, hdr, leaves)
      /\ \A i \in DOMAIN leaves : leaves[i].pn \in Pages /\ leaves[i].h \in GivenHash
  BY <1>1, <1>2, ExAssumption DEF ExAssumption
<1>4. {leaves[i].pn : i \in DOMAIN leaves} \ {NoPage} = {leaves[i].pn : i \in DOMAIN leaves}
  BY <1>2
<1>5. AtStart(leaves)
  BY <1>1, <1>4 DEF ExInit, AtStart
<1>6. QED
  BY <1>3, <1>5, StartIsStore

(* Seen through its searches the file is the page store: every step of the *)
(* insertion, of the extension of the tree and of the update, cut by       *)
(* crashes wherever they come, puts one page, reports one or changes       *)
(* nothing that callers can see.                                           *)
THEOREM StoreImplements == Spec => StoreSpec
<1>1. Init => HashesGiven /\ Store!Init
  BY InitImplements
<1>2. IInv /\ HashesGiven /\ [Next]_vars => HashesGiven'
  BY GivenStep
<1>3. IInv => Shows
  BY InvShows
<1>4. IInv /\ IInv' /\ HashesGiven /\ HashesGiven' /\ Shows /\ Shows' /\ [Next]_vars
         => [Store!Next]_<<[p \in Pages |-> Lookup(p)], DOMAIN acked>>
  BY StepImplements
<1>5. QED
  BY <1>1, <1>2, <1>3, <1>4, StoreInvariance, PTL DEF Spec, StoreSpec

(* So is a file of either builder.                                         *)
THEOREM AnyImplements == ASSUME ExFull PROVE AnySpec => StoreSpec
<1>1. InitAny => HashesGiven /\ Store!Init
  BY InitImplements, ExInitImplements DEF InitAny
<1>2. [NextAny]_exVars => [Next]_vars
  BY DEF NextAny, exVars
<1>3. IInv /\ HashesGiven /\ [NextAny]_exVars => HashesGiven'
  BY <1>2, GivenStep
<1>4. IInv => Shows
  BY InvShows
<1>5. IInv /\ IInv' /\ HashesGiven /\ HashesGiven' /\ Shows /\ Shows' /\ [NextAny]_exVars
         => [Store!Next]_<<[p \in Pages |-> Lookup(p)], DOMAIN acked>>
  BY <1>2, StepImplements
<1>6. AnySpec => []IInv
  BY AnyInvariance
<1>7. QED
  BY <1>1, <1>3, <1>4, <1>5, <1>6, PTL DEF AnySpec, StoreSpec

-----------------------------------------------------------------------------
(* The hashes of interior blocks.  A gap is one without parent offset.     *)
GapAt(t, p)    == t[p].lvl > 0 /\ t[p].pos = 0
GapBelow(t, p) == GapAt(t, p - 1) \/ GapAt(t, p + t[p].lcos)

(* A climb from leaf x comes to block p.                                   *)
Reaches(t, lo, x, p) ==
    lo[p] <= x /\ x < p /\ \A c \in x .. p - 1 : lo[c] <= x => t[c].pos > 0

(* The leaf the hashes are recomputed from; the one they were recomputed   *)
(* from, all the way up.                                                   *)
Target     == IF op.kind = "update" THEN ret ELSE slot
AtWork(x)  == pc = "path" /\ x = Target
Settled(x) == pc \in {"seps", "sepParent", "sepLeft", "sepRight", "sepsDone", "next"} /\ x = slot

(* Leaf x is written, and block p above it is not, yet: the climb did not  *)
(* come that far, or was cut.                                              *)
Marks(x, p) == /\ file[x].lvl = 0 /\ (file[x].pn \in cut \/ AtWork(x)) /\ ~Settled(x)
               /\ AtWork(x) => cur < p

Explained(lo, p) == \/ Combines(file, p) \/ GapBelow(file, p)
                    \/ \E x \in 1 .. hdr.rno : Marks(x, p) /\ Reaches(file, lo, x, p)

Explains(lo) == \A p \in 1 .. hdr.rno : file[p].lvl > 0 => Explained(lo, p)

(* The climb is above its leaf and passed no gap.                          *)
Passes(t, lo, x, y) == x \in 1 .. y /\ lo[y] <= x
                       /\ \A c \in x .. y - 1 : lo[c] <= x => t[c].pos > 0

PathAbove(lo) ==
    pc = "path" /\ cur <= hdr.rno => file[Target].lvl = 0 /\ Passes(file, lo, Target, cur)

(* A climb can leave every leaf below the root, or every block.            *)
LeavesClimb(t, n, all) == \A x \in 1 .. n - 1 : t[x].lvl = 0 \/ all => t[x].pos > 0

HashesAt(lo, all) ==
    LeavesClimb(file, hdr.rno, all) /\ PathAbove(lo) /\ Explains(lo)

(* The inductive invariant of the hashes: a stale one is explained by a    *)
(* gap, or by a leaf whose climb did not come that far.                    *)
HashInv(all) == TypeOK /\ \E lo : IInvAt(lo) /\ HashesAt(lo, all)

-----------------------------------------------------------------------------
(* There is one tree only over the same levels and child offsets.          *)
LEMMA SameFirsts ==
    ASSUME NEW f, NEW g, NEW n \in Nat, NEW lo, NEW lo2,
           \A p \in 1 .. n : TreeAt(f, lo, p) /\ TreeAt(g, lo2, p),
           \A p \in 1 .. n : g[p].lvl = f[p].lvl /\ g[p].lcos = f[p].lcos /\ f[p].lvl \in Nat
    PROVE  \A p \in 1 .. n : lo2[p] = lo[p]
<1> DEFINE S == {p \in 1 .. n : lo2[p] = lo[p]}
<1>1. ASSUME NEW p \in 1 .. n, \A k \in 1 .. p - 1 : k \in S
      PROVE  p \in S
  <2>1. TreeAt(f, lo, p) /\ TreeAt(g, lo2, p) /\ g[p].lvl = f[p].lvl /\ g[p].lcos = f[p].lcos
        /\ f[p].lvl \in Nat
    OBVIOUS
  <2>2. CASE f[p].lvl = 0
    BY <2>1, <2>2 DEF TreeAt
  <2>3. CASE f[p].lvl > 0
    <3>1. PICK l : l = p + f[p].lcos
      OBVIOUS
    <3>2. l \in 1 .. p - 2 /\ lo[p] = lo[l] /\ lo2[p] = lo2[l]
      BY <2>1, <2>3, <3>1 DEF TreeAt
    <3>3. l \in S
      BY <1>1, <3>2
    <3>4. QED
      BY <3>2, <3>3
  <2>4. QED
    BY <2>1, <2>2, <2>3
<1>2. 1 .. n \subseteq S
  <2> HIDE DEF S
  <2> QED
    BY <1>1, UpTheRow
<1>3. QED
  BY <1>2

(* Between a block and its parent no block is above a leaf the block is    *)
(* above.                                                                  *)
LEMMA ChildOf ==
    ASSUME NEW f \in [Pos -> Block], NEW lo, NEW n, FileTree(f, lo, n),
           NEW p \in 1 .. n, f[p].lvl > 0, NEW y \in {p + f[p].lcos, p - 1},
           NEW x \in 1 .. y, lo[y] <= x
    PROVE  /\ y \in 1 .. p - 1 /\ lo[p] <= x
           /\ \A c \in y + 1 .. p - 1 : lo[c] > x
<1>1. n \in Nat /\ TreeAt(f, lo, p) /\ TreeRow(f, lo, n) /\ p \in Nat
  BY PosFacts, GrownStart DEF FileTree, Grown
<1>2. PICK l : l = p + f[p].lcos
  OBVIOUS
<1>3. l \in 1 .. p - 2 /\ lo[p] = lo[l] /\ lo[p - 1] = l + 1
  BY <1>1, <1>2 DEF TreeAt
<1>4. y = l \/ y = p - 1
  BY <1>2
<1>5. lo[l] \in 1 .. l
  BY <1>1, <1>3, BelowInTree
<1>6. y \in 1 .. p - 1 /\ lo[p] <= x
  BY <1>3, <1>4, <1>5
<1>7. ASSUME NEW c \in y + 1 .. p - 1 PROVE lo[c] > x
  <2>1. y = l /\ c \in lo[p - 1] .. p - 1 /\ p - 1 \in 1 .. n /\ c \in 1 .. n
    BY <1>1, <1>3, <1>4, <1>7
  <2>2. lo[c] >= lo[p - 1] /\ lo[c] \in 1 .. c
    BY <1>1, <2>1, BelowInTree
  <2>3. QED
    BY <1>3, <2>1, <2>2
<1>8. QED
  BY <1>6, <1>7

(* The children of an interior block of the tree.                          *)
LEMMA ChildrenOf ==
    ASSUME NEW f \in [Pos -> Block], NEW lo, NEW n, FileTree(f, lo, n),
           NEW p \in 1 .. n, f[p].lvl > 0
    PROVE  /\ p + f[p].lcos \in 1 .. p - 2 /\ p + f[p].lcos \in 1 .. n - 1
           /\ p - 1 \in 1 .. n - 1 /\ n \in Nat /\ f[p].rcos = -1
BY PosFacts DEF FileTree, TreeAt

-----------------------------------------------------------------------------
(* The fields hashes and climbs depend on, but for the hash of block y.    *)
KeepsClimbs(f, g, n) ==
    /\ \A p \in 1 .. n : g[p].lvl = f[p].lvl /\ g[p].lcos = f[p].lcos
    /\ \A p \in 1 .. n - 1 : g[p].pos = f[p].pos

KeepsHashes(f, g, n, y) == \A p \in 1 .. n : p # y => g[p].h = f[p].h

(* What is said of climbs depends on these fields only.                    *)
LEMMA ReachesAlike ==
    ASSUME NEW f, NEW g, NEW lo, NEW n \in Nat, KeepsClimbs(f, g, n),
           NEW x \in 1 .. n, NEW p \in 1 .. n, Reaches(f, lo, x, p)
    PROVE  Reaches(g, lo, x, p)
BY DEF Reaches, KeepsClimbs

LEMMA PassesAlike ==
    ASSUME NEW f, NEW g, NEW lo, NEW n \in Nat, KeepsClimbs(f, g, n),
           NEW y \in 1 .. n, NEW x, Passes(f, lo, x, y)
    PROVE  Passes(g, lo, x, y)
BY DEF Passes, KeepsClimbs

LEMMA LeavesAlike ==
    ASSUME NEW f, NEW g, NEW n \in Nat, KeepsClimbs(f, g, n), NEW all, LeavesClimb(f, n, all)
    PROVE  LeavesClimb(g, n, all)
BY DEF LeavesClimb, KeepsClimbs

(* A block whose hash and whose children's hashes stay.                    *)
LEMMA CombinesAlike ==
    ASSUME NEW f \in [Pos -> Block], NEW g, NEW lo, NEW n, FileTree(f, lo, n), KeepsClimbs(f, g, n),
           NEW p \in 1 .. n, f[p].lvl > 0, NEW l, l = p + f[p].lcos,
           g[p].h = f[p].h, g[l].h = f[l].h, g[p - 1].h = f[p - 1].h
    PROVE  /\ Combines(f, p) => Combines(g, p)
           /\ GapBelow(f, p) => GapBelow(g, p)
<1>1. /\ l \in 1 .. n - 1 /\ p - 1 \in 1 .. n - 1 /\ l \in 1 .. n /\ p - 1 \in 1 .. n
  BY ChildrenOf
<1>2. g[p].lcos = f[p].lcos
  BY DEF KeepsClimbs
<1>3. g[l].lvl = f[l].lvl /\ g[p - 1].lvl = f[p - 1].lvl /\ g[l].pos = f[l].pos
      /\ g[p - 1].pos = f[p - 1].pos
  BY <1>1 DEF KeepsClimbs
<1>4. QED
  BY <1>2, <1>3 DEF Combines, GapBelow, GapAt

(* While no hash is written and no leaf loses its mark, what is stale      *)
(* stays explained.                                                        *)
LEMMA ExplainsFrame ==
    ASSUME file \in [Pos -> Block], NEW lo, FileTree(file, lo, hdr.rno), Explains(lo),
           hdr'.rno = hdr.rno, KeepsClimbs(file, file', hdr.rno),
           \A p \in 1 .. hdr.rno : file'[p].h = file[p].h,
           \A x, p \in 1 .. hdr.rno : Marks(x, p) /\ Reaches(file, lo, x, p) => Marks(x, p)'
    PROVE  Explains(lo)'
<1>1. SUFFICES ASSUME NEW p \in 1 .. hdr.rno, file'[p].lvl > 0
               PROVE  Explained(lo, p)'
  BY DEF Explains
<1>2. file[p].lvl > 0 /\ hdr.rno \in Nat
  BY <1>1, PosFacts DEF KeepsClimbs, FileTree
<1>3. Explained(lo, p)
  BY <1>2 DEF Explains
<1>4. CASE Combines(file, p) \/ GapBelow(file, p)
  <2>1. PICK l : l = p + file[p].lcos
    OBVIOUS
  <2>2. l \in 1 .. hdr.rno /\ p - 1 \in 1 .. hdr.rno
    BY <1>2, <2>1, ChildrenOf
  <2>3. Combines(file', p) \/ GapBelow(file', p)
    BY <1>2, <1>4, <2>1, <2>2, CombinesAlike
  <2>4. QED
    BY <2>3 DEF Explained
<1>5. CASE \E x \in 1 .. hdr.rno : Marks(x, p) /\ Reaches(file, lo, x, p)
  <2>1. PICK x \in 1 .. hdr.rno : Marks(x, p) /\ Reaches(file, lo, x, p)
    BY <1>5
  <2>2. Marks(x, p)' /\ Reaches(file', lo, x, p)
    BY <1>2, <2>1, ReachesAlike
  <2>3. QED
    BY <2>2 DEF Explained
<1>6. QED
  BY <1>3, <1>4, <1>5 DEF Explained

(* The hash of block y is written by a climb that started at leaf x: what  *)
(* is right above y is explained by x, or by the gap y is.                 *)
LEMMA ExplainsWrite ==
    ASSUME file \in [Pos -> Block], NEW lo, FileTree(file, lo, hdr.rno), Explains(lo),
           hdr'.rno = hdr.rno, KeepsClimbs(file, file', hdr.rno),
           NEW y \in 1 .. hdr.rno, KeepsHashes(file, file', hdr.rno, y),
           file[y].lvl > 0 => Combines(file', y),
           NEW x, Passes(file, lo, x, y),
           y < hdr.rno => file[y].pos > 0 \/ GapAt(file, y),
           \A p \in y + 1 .. hdr.rno : Marks(x, p)',
           \A z, p \in 1 .. hdr.rno :
               Marks(z, p) /\ Reaches(file, lo, z, p) => Marks(z, p)' \/ p = y
    PROVE  Explains(lo)'
<1>1. SUFFICES ASSUME NEW p \in 1 .. hdr.rno, file'[p].lvl > 0, p # y
               PROVE  Explained(lo, p)'
  BY DEF Explains, Explained, KeepsClimbs
<1>2. file[p].lvl > 0 /\ hdr.rno \in Nat
  BY <1>1, PosFacts DEF KeepsClimbs, FileTree
<1>3. PICK l : l = p + file[p].lcos
  OBVIOUS
<1>4. l \in 1 .. p - 2 /\ l \in 1 .. hdr.rno /\ p - 1 \in 1 .. hdr.rno
  BY <1>2, <1>3, ChildrenOf
<1>5. x \in 1 .. y /\ lo[y] <= x /\ \A c \in x .. y - 1 : lo[c] <= x => file[c].pos > 0
  BY DEF Passes
<1>6. CASE y = l \/ y = p - 1
  <2>1. /\ y \in 1 .. p - 1 /\ lo[p] <= x
        /\ \A c \in y + 1 .. p - 1 : lo[c] > x
    BY <1>2, <1>3, <1>5, <1>6, ChildOf
  <2>2. CASE file[y].pos > 0
    <3>1. ASSUME NEW c \in x .. p - 1, lo[c] <= x PROVE file[c].pos > 0
      <4>1. TreeAt(file, lo, c)
        BY <1>2, <1>5 DEF FileTree
      <4>2. ~(c \in y + 1 .. p - 1)
        <5>1. SUFFICES ASSUME c \in y + 1 .. p - 1 PROVE FALSE
          OBVIOUS
        <5>2. lo[c] > x /\ lo[c] \in Int
          BY <1>5, <2>1, <4>1, <5>1 DEF TreeAt
        <5>3. QED
          BY <1>5, <3>1, <5>2
      <4>3. c = y \/ c \in x .. y - 1
        BY <1>5, <2>1, <4>2
      <4>4. QED
        BY <1>5, <2>2, <3>1, <4>3
    <3>2. Reaches(file, lo, x, p)
      BY <1>5, <2>1, <3>1 DEF Reaches
    <3>3. x \in 1 .. hdr.rno /\ Marks(x, p)'
      BY <1>2, <1>5, <2>1
    <3>4. Reaches(file', lo, x, p)
      BY <1>2, <3>2, <3>3, ReachesAlike
    <3>5. QED
      BY <3>3, <3>4 DEF Explained
  <2>3. CASE GapAt(file, y)
    <3>1. GapAt(file', y)
      BY <1>2, <2>1, <2>3 DEF GapAt, KeepsClimbs
    <3>2. GapBelow(file', p)
      BY <1>3, <1>6, <3>1 DEF GapBelow, KeepsClimbs
    <3>3. QED
      BY <3>2 DEF Explained
  <2>4. QED
    BY <1>2, <2>1, <2>2, <2>3
<1>7. CASE y # l /\ y # p - 1
  <2>1. Explained(lo, p)
    BY <1>2 DEF Explains
  <2>2. file'[p].h = file[p].h /\ file'[l].h = file[l].h /\ file'[p - 1].h = file[p - 1].h
    BY <1>1, <1>4, <1>7 DEF KeepsHashes
  <2>3. CASE Combines(file, p) \/ GapBelow(file, p)
    <3>1. Combines(file', p) \/ GapBelow(file', p)
      BY <1>2, <1>3, <2>2, <2>3, CombinesAlike
    <3>2. QED
      BY <3>1 DEF Explained
  <2>4. CASE \E z \in 1 .. hdr.rno : Marks(z, p) /\ Reaches(file, lo, z, p)
    <3>1. PICK z \in 1 .. hdr.rno : Marks(z, p) /\ Reaches(file, lo, z, p)
      BY <2>4
    <3>2. Marks(z, p)' /\ Reaches(file', lo, z, p)
      BY <1>1, <1>2, <3>1, ReachesAlike
    <3>3. QED
      BY <3>2 DEF Explained
  <2>5. QED
    BY <2>1, <2>3, <2>4 DEF Explained
<1>8. QED
  BY <1>6, <1>7

-----------------------------------------------------------------------------
(* What is known of the tree at every step.                                *)
LEMMA TreeFacts ==
    ASSUME TypeOK, NEW lo, IInvAt(lo)
    PROVE  /\ Sound(lo) /\ OpInv(lo) /\ Offsets
           /\ file \in [Pos -> Block] /\ hdr \in Header /\ hdr.rno \in Nat /\ hdr.rno \in Pos
           /\ 1 .. hdr.rno \subseteq Pos /\ FileTree(file, lo, hdr.rno)
           /\ cut \subseteq Pages /\ \A p \in Pages : p < NoPage
<1>1. Sound(lo) /\ OpInv(lo) /\ Offsets
  BY InvParts
<1>2. QED
  BY <1>1, TypeFacts, FirstOpenType, StoreAssumption DEF Sound, Holds, StoreAssumption

(* The same blocks keep everything hashes and climbs depend on.            *)
LEMMA FileStays ==
    ASSUME UNCHANGED file, NEW n
    PROVE  KeepsClimbs(file, file', n) /\ \A p \in 1 .. n : file'[p].h = file[p].h
BY DEF KeepsClimbs

LEMMA HashesFrame ==
    ASSUME TypeOK, NEW lo, IInvAt(lo), NEW all, HashesAt(lo, all),
           hdr'.rno = hdr.rno, KeepsClimbs(file, file', hdr.rno),
           \A p \in 1 .. hdr.rno : file'[p].h = file[p].h,
           \A x, p \in 1 .. hdr.rno : Marks(x, p) /\ Reaches(file, lo, x, p) => Marks(x, p)',
           PathAbove(lo)'
    PROVE  HashesAt(lo, all)'
<1>1. /\ file \in [Pos -> Block] /\ FileTree(file, lo, hdr.rno) /\ hdr.rno \in Nat
  BY TreeFacts
<1>2. Explains(lo)'
  BY <1>1, ExplainsFrame DEF HashesAt
<1>3. LeavesClimb(file', hdr'.rno, all)
  BY <1>1, LeavesAlike DEF HashesAt
<1>4. QED
  BY <1>2, <1>3 DEF HashesAt

(* A step outside of climbs and extensions that writes nothing.            *)
LEMMA HashesQuiet ==
    ASSUME TypeOK, NEW lo, IInvAt(lo), NEW all, HashesAt(lo, all),
           UNCHANGED file, hdr'.rno = hdr.rno,
           pc' # "path",
           \A x, p \in 1 .. hdr.rno : Marks(x, p) /\ Reaches(file, lo, x, p) => Marks(x, p)'
    PROVE  HashesAt(lo, all)'
<1>1. PathAbove(lo)'
  BY DEF PathAbove
<1>2. KeepsClimbs(file, file', hdr.rno) /\ \A p \in 1 .. hdr.rno : file'[p].h = file[p].h
  BY FileStays
<1>3. QED
  BY <1>1, <1>2, HashesFrame

(* A mark stays until its leaf is settled.                                 *)
LEMMA MarksKept ==
    ASSUME pc # "path", pc' # "path", NEW x, NEW p, Marks(x, p),
           file'[x].lvl = file[x].lvl, file'[x].pn = file[x].pn,
           cut \subseteq cut', Settled(x)' => Settled(x)
    PROVE  Marks(x, p)'
BY DEF Marks, AtWork

(* An update writes nothing before it has found its leaf.                  *)
LEMMA StartUpdateHashes ==
    ASSUME TypeOK, NEW lo, IInvAt(lo), NEW all, HashesAt(lo, all),
           NEW args \in Args("update"), StartUpdate(args)
    PROVE  HashesAt(lo, all)'
<1>1. pc = "idle" /\ pc' = "search" /\ UNCHANGED <<file, hdr, cut>>
  BY DEF StartUpdate, BeginSearch, storeVars
<1>2. \A x, p \in 1 .. hdr.rno : Marks(x, p) => Marks(x, p)'
  BY <1>1, MarksKept DEF Settled
<1>3. QED
  BY <1>1, <1>2, HashesQuiet

LEMMA SearchHashes ==
    ASSUME TypeOK, NEW lo, IInvAt(lo), NEW all, HashesAt(lo, all), Search
    PROVE  HashesAt(lo, all)'
<1>1. pc = "search" /\ pc' = "search" /\ UNCHANGED <<file, hdr, cut>>
  BY DEF Search, SearchStep, storeVars
<1>2. \A x, p \in 1 .. hdr.rno : Marks(x, p) => Marks(x, p)'
  BY <1>1, MarksKept DEF Settled
<1>3. QED
  BY <1>1, <1>2, HashesQuiet

LEMMA FailHashes ==
    ASSUME TypeOK, NEW lo, IInvAt(lo), NEW all, HashesAt(lo, all), Fail
    PROVE  HashesAt(lo, all)'
<1>1. pc = "search" /\ pc' = "idle" /\ UNCHANGED <<file, hdr, cut>>
  BY DEF Fail, NotFound, AtLeaf, Return
<1>2. \A x, p \in 1 .. hdr.rno : Marks(x, p) => Marks(x, p)'
  BY <1>1, MarksKept DEF Settled
<1>3. QED
  BY <1>1, <1>2, HashesQuiet

(* A climb that ended left nothing stale above its leaf.                   *)
LEMMA ClimbIsOver ==
    ASSUME TypeOK, NEW lo, IInvAt(lo), NEW all, HashesAt(lo, all), PathEnded,
           NEW x \in 1 .. hdr.rno, NEW p \in 1 .. hdr.rno, Marks(x, p), Reaches(file, lo, x, p)
    PROVE  x # Target /\ file[x].lvl = 0 /\ file[x].pn \in cut
<1>1. /\ OpInv(lo) /\ hdr.rno \in Nat /\ 1 .. hdr.rno \subseteq Pos /\ FileTree(file, lo, hdr.rno)
  BY TreeFacts
<1>2. pc = "path" /\ ~Climbs(file, cur)
  BY DEF PathEnded
<1>3. ASSUME x = Target PROVE FALSE
  <2>1. cur < p /\ cur \in Int /\ cur >= 1
    BY <1>1, <1>2, <1>3 DEF Marks, AtWork, OpInv, ClimbInv
  <2>2. cur \in x .. p - 1 /\ lo[cur] <= x
    BY <1>1, <1>2, <1>3, <2>1 DEF HashesAt, PathAbove, Passes
  <2>3. file[cur].pos > 0
    BY <2>2 DEF Reaches
  <2>4. cur \in Pos /\ cur \in 1 .. hdr.rno - 1
    BY <1>1, <2>1
  <2>5. file[cur].rsvd = "R"
    BY <1>1, <2>4 DEF FileTree
  <2>6. QED
    BY <1>2, <2>3, <2>4, <2>5 DEF Climbs, Read
<1>4. QED
  BY <1>3 DEF Marks, AtWork

(* So an operation that returns takes its mark along.                      *)
LEMMA UpdateReturnsHashes ==
    ASSUME TypeOK, NEW lo, IInvAt(lo), NEW all, HashesAt(lo, all), UpdateReturns
    PROVE  HashesAt(lo, all)'
<1>1. /\ PathEnded /\ pc = "path" /\ op.kind = "update" /\ pc' = "idle"
      /\ cut' = cut \ {op.page} /\ UNCHANGED <<file, hdr>>
  BY DEF UpdateReturns, PathEnded, Return
<1>2. /\ Sound(lo) /\ OpInv(lo) /\ file \in [Pos -> Block] /\ hdr \in Header
  BY TreeFacts
<1>3. /\ op.page \in Known /\ ret \in 1 .. hdr.rno /\ LeafAt(file, hdr.rno, ret)
      /\ file[ret].pn = op.page
  BY <1>1, <1>2 DEF OpInv, UpdateInv
<1>4. \A y \in 1 .. hdr.rno : LeafAt(file, hdr.rno, y) /\ file[y].pn = op.page => y = ret
  <2>1. Holds(file, lo, hdr, Known) /\ file \in [Pos -> Block] /\ hdr \in Header
    BY <1>2 DEF Sound
  <2>2. PICK a \in Known : a = op.page
    BY <1>3
  <2>3. ret \in 1 .. hdr.rno /\ LeafAt(file, hdr.rno, ret) /\ file[ret].pn = a
    BY <1>3, <2>2
  <2>4. \A y \in 1 .. hdr.rno : LeafAt(file, hdr.rno, y) /\ file[y].pn = a => y = ret
    BY <2>1, <2>3, LeafOfPage
  <2>5. QED
    BY <2>2, <2>4
<1>5. ASSUME NEW x \in 1 .. hdr.rno, NEW p \in 1 .. hdr.rno, Marks(x, p), Reaches(file, lo, x, p)
      PROVE  Marks(x, p)'
  <2>1. x # Target /\ file[x].lvl = 0 /\ file[x].pn \in cut
    BY <1>1, <1>5, ClimbIsOver
  <2>2. x # ret /\ LeafAt(file, hdr.rno, x)
    BY <1>1, <2>1 DEF Target, LeafAt
  <2>3. file[x].pn # op.page
    BY <1>4, <2>2
  <2>4. QED
    BY <1>1, <2>1, <2>3 DEF Marks, AtWork, Settled
<1>6. QED
  BY <1>1, <1>5, HashesQuiet

LEMMA PathDoneHashes ==
    ASSUME TypeOK, NEW lo, IInvAt(lo), NEW all, HashesAt(lo, all), PathDone
    PROVE  HashesAt(lo, all)'
<1>1. /\ PathEnded /\ pc = "path" /\ op.kind = "insert" /\ pc' = "seps"
      /\ UNCHANGED <<file, hdr, cut, slot>>
  BY DEF PathDone, PathEnded, storeVars
<1>2. ASSUME NEW x \in 1 .. hdr.rno, NEW p \in 1 .. hdr.rno, Marks(x, p), Reaches(file, lo, x, p)
      PROVE  Marks(x, p)'
  <2>1. x # Target /\ file[x].lvl = 0 /\ file[x].pn \in cut
    BY <1>1, <1>2, ClimbIsOver
  <2>2. QED
    BY <1>1, <2>1 DEF Marks, AtWork, Settled, Target
<1>3. QED
  BY <1>1, <1>2, HashesQuiet

(* The write of a leaf, with which a climb begins.                         *)
LEMMA LeafWriteHashes ==
    ASSUME TypeOK, NEW lo, IInvAt(lo), NEW all, HashesAt(lo, all),
           pc \in {"search", "fill"}, UNCHANGED <<hdr, cut, slot, op>>, pc' = "path",
           NEW x \in 1 .. hdr.rno, file[x].lvl = 0, Target' = x, cur' = x,
           KeepsClimbs(file, file', hdr.rno), KeepsHashes(file, file', hdr.rno, x),
           \A z \in 1 .. hdr.rno : z # x => file'[z].pn = file[z].pn
    PROVE  HashesAt(lo, all)'
<1>1. /\ file \in [Pos -> Block] /\ hdr.rno \in Nat /\ FileTree(file, lo, hdr.rno)
  BY TreeFacts
<1>2. LeavesClimb(file, hdr.rno, all) /\ Explains(lo)
  BY DEF HashesAt
<1>3. x < hdr.rno => file[x].pos > 0
  BY <1>1, <1>2 DEF LeavesClimb
<1>4. Passes(file, lo, x, x)
  <2>1. lo[x] = x
    BY <1>1 DEF FileTree, TreeAt
  <2>2. QED
    BY <1>1, <2>1 DEF Passes
<1>5. file'[x].lvl = 0
  BY DEF KeepsClimbs
<1>6. ASSUME NEW p \in 1 .. hdr.rno, p > x PROVE Marks(x, p)'
  BY <1>5, <1>6 DEF Marks, AtWork, Settled
<1>7. ASSUME NEW z \in 1 .. hdr.rno, NEW p \in 1 .. hdr.rno, Marks(z, p), Reaches(file, lo, z, p)
      PROVE  Marks(z, p)'
  <2>1. CASE z = x
    BY <1>1, <1>6, <1>7, <2>1 DEF Reaches
  <2>2. CASE z # x
    <3>1. file'[z].lvl = file[z].lvl /\ file'[z].pn = file[z].pn
      BY <2>2 DEF KeepsClimbs
    <3>2. file[z].lvl = 0 /\ file[z].pn \in cut
      BY <1>7 DEF Marks, AtWork
    <3>3. QED
      BY <2>2, <3>1, <3>2 DEF Marks, AtWork, Settled
  <2>3. QED
    BY <2>1, <2>2
<1>8. \A p \in x + 1 .. hdr.rno : Marks(x, p)'
  BY <1>1, <1>6
<1>9. Explains(lo)'
  BY <1>1, <1>2, <1>3, <1>4, <1>7, <1>8, ExplainsWrite
<1>10. PathAbove(lo)'
  <2>1. Passes(file', lo, x, x)
    BY <1>1, <1>4, PassesAlike
  <2>2. QED
    BY <1>5, <2>1 DEF PathAbove
<1>11. LeavesClimb(file', hdr'.rno, all)
  BY <1>1, <1>2, LeavesAlike
<1>12. QED
  BY <1>9, <1>10, <1>11 DEF HashesAt

LEMMA UpdateLeafHashes ==
    ASSUME TypeOK, NEW lo, IInvAt(lo), NEW all, HashesAt(lo, all), UpdateLeaf
    PROVE  HashesAt(lo, all)'
<1>1. /\ pc = "search" /\ ~IsInterior(file, cur) /\ ret # NoPos /\ pc' = "path" /\ cur' = ret
      /\ file' = [file EXCEPT ![ret].h = op.hash]
      /\ UNCHANGED <<hdr, op, ret, cut, slot>>
  BY DEF UpdateLeaf, Found, AtLeaf, storeVars
<1>2. /\ OpInv(lo) /\ file \in [Pos -> Block] /\ hdr.rno \in Nat /\ 1 .. hdr.rno \subseteq Pos
      /\ FileTree(file, lo, hdr.rno)
  BY TreeFacts
<1>3. op.kind = "update" /\ cur \in 1 .. hdr.rno /\ ret = cur
  BY <1>1, <1>2 DEF OpInv, SearchInv
<1>4. file[ret].lvl = 0
  <2>1. file[cur].lvl \in Nat /\ Read(file, cur) = file[cur]
    BY <1>2, <1>3, BlockTypes DEF Read
  <2>2. QED
    BY <1>1, <1>3, <2>1 DEF IsInterior
<1>5. Rewritten(file, file', ret, op.hash) /\ op.hash \in Hash /\ ret \in Pos
  BY <1>1, <1>2, <1>3, TypeFacts DEF Rewritten
<1>6. /\ \A x \in Pos : SameShape(file, file', x) /\ file'[x].pos = file[x].pos
                        /\ file'[x].rsvd = file[x].rsvd
      /\ \A x \in Pos : x # ret => file'[x] = file[x]
  <2>1. PICK v \in Hash : v = op.hash
    BY <1>5
  <2>2. Rewritten(file, file', ret, v)
    BY <1>5, <2>1
  <2>3. QED
    BY <1>2, <1>5, <2>2, HashWrite
<1>7. /\ KeepsClimbs(file, file', hdr.rno) /\ KeepsHashes(file, file', hdr.rno, ret)
      /\ \A z \in 1 .. hdr.rno : z # ret => file'[z].pn = file[z].pn
  BY <1>2, <1>6 DEF KeepsClimbs, KeepsHashes, SameShape
<1>8. Target' = ret
  BY <1>1, <1>3 DEF Target
<1>9. QED
  BY <1>1, <1>3, <1>4, <1>7, <1>8, LeafWriteHashes

LEMMA FillHashes ==
    ASSUME TypeOK, NEW lo, IInvAt(lo), NEW all, HashesAt(lo, all), Fill
    PROVE  HashesAt(lo, all)'
<1> DEFINE b == [file[slot] EXCEPT !.pn = op.page, !.h = op.hash, !.isn = FALSE, !.izn = FALSE]
<1>1. /\ pc = "fill" /\ slot \in Pos /\ file' = [file EXCEPT ![slot] = b]
      /\ cur' = slot /\ pc' = "path" /\ UNCHANGED <<hdr, op, cut, slot>>
  BY DEF Fill, storeVars
<1>2. Inserting
  BY <1>1 DEF Inserting
<1>3. /\ file \in [Pos -> Block] /\ hdr.rno \in Nat /\ 1 .. hdr.rno \subseteq Pos
      /\ slot \in 1 .. hdr.rno /\ file[slot].lvl = 0 /\ Fresh
  BY <1>2, InsertFacts
<1>4. op.page \in Nat /\ op.hash \in Hash
  BY TypeFacts
<1>5. b \in Block /\ b.lvl = file[slot].lvl /\ b.lcos = file[slot].lcos /\ b.pos = file[slot].pos
  <2>1. file[slot] \in Block
    BY <1>1, <1>3
  <2>2. QED
    BY <1>4, <2>1 DEF Block
<1> HIDE DEF b
<1>6. file'[slot] = b /\ \A x \in Pos : x # slot => file'[x] = file[x]
  BY <1>1, <1>3, <1>5, WriteFacts
<1>7. /\ KeepsClimbs(file, file', hdr.rno) /\ KeepsHashes(file, file', hdr.rno, slot)
      /\ \A z \in 1 .. hdr.rno : z # slot => file'[z].pn = file[z].pn
  BY <1>3, <1>5, <1>6 DEF KeepsClimbs, KeepsHashes
<1>8. Target' = slot
  BY <1>1, <1>3 DEF Target, Fresh
<1>9. QED
  BY <1>1, <1>3, <1>7, <1>8, LeafWriteHashes

(* A turn of the climb rewrites the hash of the parent.                    *)
LEMMA ClimbHashes ==
    ASSUME TypeOK, NEW lo, IInvAt(lo), NEW all, HashesAt(lo, all), Climb
    PROVE  HashesAt(lo, all)'
<1>1. /\ pc = "path" /\ Climbs(file, cur) /\ cur' = Parent(file, cur)
      /\ file' = [file EXCEPT ![cur'] = Rehashed(file, cur')]
      /\ UNCHANGED <<hdr, pc, op, ret, cut, slot>>
  BY DEF Climb, PathStep, storeVars
<1>2. /\ OpInv(lo) /\ Offsets /\ file \in [Pos -> Block] /\ hdr.rno \in Nat /\ hdr.rno \in Pos
      /\ 1 .. hdr.rno \subseteq Pos /\ FileTree(file, lo, hdr.rno)
  BY TreeFacts
<1>3. LeavesClimb(file, hdr.rno, all) /\ Explains(lo) /\ PathAbove(lo)
  BY DEF HashesAt
<1>4. cur \in Int /\ cur >= 1
  BY <1>1, <1>2 DEF OpInv, ClimbInv
<1>5. cur \in Pos /\ file[cur].pos > 0 /\ file[cur].pos \in Nat /\ cur' = cur + file[cur].pos
  <2>1. cur \in Pos
    BY <1>1, <1>4 DEF Climbs, Read, ZeroBlock
  <2>2. Read(file, cur) = file[cur] /\ file[cur].pos \in Nat
    BY <1>2, <2>1 DEF Read, Offsets
  <2>3. QED
    BY <1>1, <2>1, <2>2 DEF Climbs, Parent
<1>6. Target' = Target
  BY <1>1 DEF Target
<1>7. CASE cur >= hdr.rno
  <2>1. \A p \in 1 .. hdr.rno : file'[p] = file[p]
    BY <1>1, <1>2, <1>4, <1>5, <1>7
  <2>2. KeepsClimbs(file, file', hdr.rno) /\ \A p \in 1 .. hdr.rno : file'[p].h = file[p].h
    BY <1>2, <2>1 DEF KeepsClimbs
  <2>3. ASSUME NEW x \in 1 .. hdr.rno, NEW p \in 1 .. hdr.rno, Marks(x, p)
        PROVE  Marks(x, p)'
    <3>1. ~AtWork(x)
      BY <1>2, <1>4, <1>7, <2>3 DEF Marks
    <3>2. QED
      BY <1>1, <1>6, <2>1, <2>3, <3>1 DEF Marks, AtWork, Settled
  <2>4. PathAbove(lo)'
    BY <1>1, <1>2, <1>4, <1>5, <1>7 DEF PathAbove
  <2>5. hdr'.rno = hdr.rno
    BY <1>1
  <2>6. QED
    BY <2>2, <2>3, <2>4, <2>5, HashesFrame
<1>8. CASE cur < hdr.rno
  <2>1. PICK x : x = Target
    OBVIOUS
  <2>2. file[x].lvl = 0 /\ Passes(file, lo, x, cur)
    BY <1>1, <1>2, <1>3, <1>4, <1>8, <2>1 DEF PathAbove
  <2>3. x \in 1 .. cur /\ lo[cur] <= x /\ \A c \in x .. cur - 1 : lo[c] <= x => file[c].pos > 0
    BY <2>2 DEF Passes
  <2>4. PICK u : u = cur'
    OBVIOUS
  <2>5. /\ u \in cur + 1 .. hdr.rno /\ file[u].lvl > 0 /\ lo[u] <= x
        /\ \A a \in Int : cur < a /\ a < u => lo[a] > x
    <3>1. x \in 1 .. hdr.rno /\ cur \in x .. hdr.rno - 1
      BY <1>2, <1>4, <1>8, <2>3
    <3>2. u = Parent(file, cur)
      BY <1>1, <2>4
    <3>3. QED
      BY <1>2, <1>5, <2>3, <3>1, <3>2, ParentAbove
  <2>6. u \in 1 .. hdr.rno /\ u \in Pos /\ x \in 1 .. hdr.rno
    BY <1>2, <1>4, <1>8, <2>3, <2>5
  <2>7. file' = [file EXCEPT ![u] = [file[u] EXCEPT !.h = ChildrenHash(file, u)]]
    BY <1>1, <2>4, <2>6 DEF Rehashed, Read
  <2>8. /\ \A p \in Pos : p # u => file'[p] = file[p]
        /\ file'[u].lvl = file[u].lvl /\ file'[u].lcos = file[u].lcos
        /\ file'[u].pos = file[u].pos /\ file'[u].pn = file[u].pn
        /\ file'[u].h = ChildrenHash(file, u)
    <3>1. file[u] \in Block
      BY <1>2, <2>6
    <3>2. QED
      BY <1>2, <2>6, <2>7, <3>1 DEF Block
  <2>9. KeepsClimbs(file, file', hdr.rno) /\ KeepsHashes(file, file', hdr.rno, u)
    BY <1>2, <2>8 DEF KeepsClimbs, KeepsHashes
  <2>10. Combines(file', u)
    <3>1. PICK l : l = u + file[u].lcos
      OBVIOUS
    <3>2. l \in 1 .. u - 2 /\ l \in 1 .. hdr.rno - 1 /\ u - 1 \in 1 .. hdr.rno - 1
          /\ file[u].rcos = -1
      BY <1>2, <2>5, <2>6, <3>1, ChildrenOf
    <3>3. l \in Pos /\ u - 1 \in Pos /\ l # u /\ u - 1 # u
      BY <1>2, <2>6, <3>2
    <3>4. Lchild(file, u) = l /\ Rchild(file, u) = u - 1
      BY <2>6, <3>1, <3>2 DEF Lchild, Rchild, Read
    <3>5. ChildrenHash(file, u) = Combine(file[l].h, file[u - 1].h)
      BY <3>3, <3>4 DEF ChildrenHash, Read
    <3>6. QED
      BY <2>8, <3>1, <3>3, <3>5 DEF Combines
  <2>11. Passes(file, lo, x, u)
    <3>1. ASSUME NEW c \in x .. u - 1, lo[c] <= x PROVE file[c].pos > 0
      <4>1. TreeAt(file, lo, c)
        BY <1>2, <2>3, <2>6 DEF FileTree
      <4>2. ~(cur < c)
        <5>1. SUFFICES ASSUME cur < c PROVE FALSE
          OBVIOUS
        <5>2. lo[c] > x /\ lo[c] \in Int /\ x \in Int
          BY <2>3, <2>5, <4>1, <5>1 DEF TreeAt
        <5>3. QED
          BY <3>1, <5>2
      <4>3. c = cur \/ c \in x .. cur - 1
        BY <1>4, <2>3, <4>2
      <4>4. QED
        BY <1>5, <2>3, <3>1, <4>3
    <3>2. QED
      BY <1>4, <2>3, <2>5, <3>1 DEF Passes
  <2>12. u < hdr.rno => file[u].pos > 0 \/ GapAt(file, u)
    BY <1>2, <2>5, <2>6 DEF GapAt, Offsets
  <2>13. file'[x].lvl = 0
    BY <2>2, <2>6, <2>9 DEF KeepsClimbs
  <2>14. Target' = x /\ AtWork(x) /\ AtWork(x)' /\ ~Settled(x)' /\ hdr'.rno = hdr.rno
    BY <1>1, <1>6, <2>1 DEF AtWork, Settled
  <2>15. ASSUME NEW p \in u + 1 .. hdr.rno PROVE Marks(x, p)'
    <3>1. u < p
      BY <1>2, <2>6
    <3>2. cur' < p
      BY <2>4, <3>1
    <3>3. QED
      BY <2>13, <2>14, <3>2 DEF Marks
  <2>16. ASSUME NEW z \in 1 .. hdr.rno, NEW p \in 1 .. hdr.rno, Marks(z, p),
                Reaches(file, lo, z, p), p # u
         PROVE  Marks(z, p)'
    <3>1. CASE z = x
      <4>1. cur < p /\ lo[p] <= x
        BY <2>14, <2>16, <3>1 DEF Marks, Reaches
      <4>2. lo[p] \in Int
        BY <1>2 DEF FileTree, TreeAt
      <4>3. ~(p < u)
        BY <1>2, <2>5, <2>6, <4>1, <4>2
      <4>4. p \in u + 1 .. hdr.rno
        BY <1>2, <2>6, <2>16, <4>3
      <4>5. QED
        BY <2>15, <3>1, <4>4
    <3>2. CASE z # x
      <4>1. file'[z].lvl = file[z].lvl /\ file'[z].pn = file[z].pn
        BY <1>2, <2>8
      <4>2. file[z].lvl = 0 /\ file[z].pn \in cut
        BY <2>1, <2>16, <3>2 DEF Marks, AtWork
      <4>3. QED
        BY <1>1, <1>6, <2>1, <3>2, <4>1, <4>2 DEF Marks, AtWork, Settled
    <3>3. QED
      BY <3>1, <3>2
  <2>17. Explains(lo)'
    BY <1>2, <1>3, <2>6, <2>9, <2>10, <2>11, <2>12, <2>14, <2>15, <2>16, ExplainsWrite
  <2>18. PathAbove(lo)'
    <3>1. Passes(file', lo, x, u)
      BY <1>2, <2>6, <2>9, <2>11, PassesAlike
    <3>2. QED
      BY <2>4, <2>13, <2>14, <3>1 DEF PathAbove
  <2>19. LeavesClimb(file', hdr'.rno, all)
    BY <1>1, <1>2, <1>3, <2>9, LeavesAlike
  <2>20. QED
    BY <2>17, <2>18, <2>19 DEF HashesAt
<1>9. QED
  BY <1>2, <1>4, <1>7, <1>8

(* The separator walk writes pages of interior blocks and of parents only. *)
LEMMA SepsHashes ==
    ASSUME TypeOK, NEW lo, IInvAt(lo), NEW all, HashesAt(lo, all), Inserting,
           pc # "path", pc # "fill", Inserting', pc' # "path", pc' # "fill",
           UNCHANGED <<hdr, cut, slot>>,
           \A x \in 1 .. hdr.rno :
              /\ file'[x].lvl = file[x].lvl /\ file'[x].lcos = file[x].lcos
              /\ file'[x].pos = file[x].pos /\ file'[x].h = file[x].h
              /\ file[x].lvl = 0 => file'[x].pn = file[x].pn
    PROVE  HashesAt(lo, all)'
<1>1. hdr.rno \in Nat /\ hdr'.rno = hdr.rno
  BY TreeFacts
<1>2. KeepsClimbs(file, file', hdr.rno)
  BY <1>1 DEF KeepsClimbs
<1>3. ASSUME NEW x \in 1 .. hdr.rno, NEW p \in 1 .. hdr.rno, Marks(x, p)
      PROVE  Marks(x, p)'
  <2>1. file[x].lvl = 0 /\ file[x].pn \in cut /\ x # slot
    BY <1>3 DEF Marks, AtWork, Settled, Inserting
  <2>2. QED
    BY <2>1 DEF Marks, AtWork, Settled
<1>4. PathAbove(lo)'
  BY DEF PathAbove, Inserting
<1>5. QED
  BY <1>1, <1>2, <1>3, <1>4, HashesFrame

LEMMA SepsQuiet ==
    ASSUME TypeOK, NEW lo, IInvAt(lo), NEW all, HashesAt(lo, all), SepsBegin \/ NextPad
    PROVE  HashesAt(lo, all)'
<1>1. /\ pc \in {"seps", "sepsDone"} /\ pc' \in {"sepParent", "next"}
      /\ UNCHANGED <<file, hdr, cut, slot>>
  BY DEF SepsBegin, NextPad, storeVars
<1>2. QED
  BY <1>1, SepsHashes DEF Inserting

LEMMA SepParentHashes ==
    ASSUME TypeOK, NEW lo, IInvAt(lo), NEW all, HashesAt(lo, all), SepParent
    PROVE  HashesAt(lo, all)'
<1>1. /\ pc = "sepParent" /\ pc' = "sepLeft" /\ UNCHANGED <<hdr, cut, slot>>
  BY DEF SepParent, storeVars
<1>2. Inserting /\ Inserting'
  BY <1>1 DEF Inserting
<1>3. /\ file \in [Pos -> Block] /\ hdr.rno \in Nat /\ 1 .. hdr.rno \subseteq Pos
      /\ slot \in 1 .. hdr.rno /\ FileTree(file, lo, hdr.rno) /\ OpInv(lo)
  BY <1>2, InsertFacts, TreeFacts
<1>4. cur \in slot .. hdr.rno /\ lo[cur] <= slot /\ cur > slot
  BY <1>1, <1>3 DEF OpInv, SepsInv
<1>5. cur \in Pos /\ cur \in 1 .. hdr.rno /\ file[cur].lvl # 0
  <2>1. cur \in 1 .. hdr.rno
    BY <1>3, <1>4
  <2>2. TreeAt(file, lo, cur)
    BY <1>3, <2>1 DEF FileTree
  <2>3. QED
    BY <1>3, <1>4, <2>1, <2>2 DEF TreeAt
<1>6. PICK a, b, c : file' = [file EXCEPT ![cur] = [file[cur] EXCEPT !.pn = a, !.lcpn = b, !.rcpn = c]]
  BY <1>1, <1>5 DEF SepParent, Written, Read
<1>7. file[cur] \in Block
  BY <1>3, <1>5
<1>8. \A x \in 1 .. hdr.rno :
         /\ file'[x].lvl = file[x].lvl /\ file'[x].lcos = file[x].lcos
         /\ file'[x].pos = file[x].pos /\ file'[x].h = file[x].h
         /\ file[x].lvl = 0 => file'[x].pn = file[x].pn
  <2>1. \A x \in Pos : x # cur => file'[x] = file[x]
    BY <1>3, <1>6
  <2>2. /\ file'[cur].lvl = file[cur].lvl /\ file'[cur].lcos = file[cur].lcos
        /\ file'[cur].pos = file[cur].pos /\ file'[cur].h = file[cur].h
    BY <1>3, <1>5, <1>6, <1>7 DEF Block
  <2>3. QED
    BY <1>3, <1>5, <2>1, <2>2
<1>9. QED
  BY <1>1, <1>2, <1>8, SepsHashes

LEMMA ParentPageHashes ==
    ASSUME TypeOK, NEW lo, IInvAt(lo), NEW all, HashesAt(lo, all), SepLeft \/ SepRight
    PROVE  HashesAt(lo, all)'
<1>1. /\ pc \in {"sepLeft", "sepRight"} /\ pc' \in {"sepRight", "seps", "sepsDone"}
      /\ UNCHANGED <<hdr, cut, slot>> /\ \E c : SetParentPage(c)
  BY DEF SepLeft, SepRight, storeVars
<1>2. Inserting /\ Inserting'
  BY <1>1 DEF Inserting
<1>3. file \in [Pos -> Block] /\ hdr.rno \in Nat /\ 1 .. hdr.rno \subseteq Pos
  BY TreeFacts
<1>4. PICK c : SetParentPage(c)
  BY <1>1
<1>5. PICK v : v = Read(file, cur).pn
  OBVIOUS
<1>6. v \in Nat
  BY <1>3, <1>5, BlockTypes DEF Read, ZeroBlock
<1>7. PutsPage(file, file', c, v)
  BY <1>4, <1>5 DEF SetParentPage, Written, PutsPage, Read
<1>8. \A x \in Pos : SameShape(file, file', x) /\ file'[x].pos = file[x].pos
                     /\ file'[x].rsvd = file[x].rsvd /\ file'[x].h = file[x].h
  BY <1>3, <1>6, <1>7, PageWrite
<1>9. \A x \in 1 .. hdr.rno :
         /\ file'[x].lvl = file[x].lvl /\ file'[x].lcos = file[x].lcos
         /\ file'[x].pos = file[x].pos /\ file'[x].h = file[x].h
         /\ file[x].lvl = 0 => file'[x].pn = file[x].pn
  BY <1>3, <1>8 DEF SameShape
<1>10. QED
  BY <1>1, <1>2, <1>9, SepsHashes

(* The insertion reports its page; the page whose insertion was cut before *)
(* is in no leaf any more.                                                 *)
LEMMA InsertReturnsHashes ==
    ASSUME TypeOK, NEW lo, IInvAt(lo), NEW all, HashesAt(lo, all), InsertReturns
    PROVE  HashesAt(lo, all)'
<1>1. /\ pc = "next" /\ pc' = "idle" /\ hdr' = NewHeader /\ cut' = cut \cap Known
      /\ UNCHANGED file
  BY DEF InsertReturns, Return, Known
<1>2. Inserting
  BY <1>1 DEF Inserting
<1>3. /\ hdr.rno \in Nat /\ Holds(file, lo, hdr, Known) /\ slot \in 1 .. hdr.rno
      /\ FirstOpen(hdr) = slot /\ glob.rno = hdr.rno
  BY <1>2, InsertFacts
<1>4. cut \subseteq Pages /\ \A p \in Pages : p < NoPage
  BY TreeFacts
<1>5. hdr'.rno = hdr.rno
  BY <1>1, <1>3 DEF NewHeader
<1>6. ASSUME NEW x \in 1 .. hdr.rno, NEW p, Marks(x, p)
      PROVE  Marks(x, p)'
  <2>1. file[x].lvl = 0 /\ file[x].pn \in cut /\ x # slot
    BY <1>1, <1>6 DEF Marks, AtWork, Settled
  <2>2. ~(x > slot)
    <3>1. SUFFICES ASSUME x > slot PROVE FALSE
      OBVIOUS
    <3>2. file[x].pn = NoPage
      BY <1>3, <2>1, <3>1 DEF Holds, PageRow, LeafAt
    <3>3. QED
      BY <1>4, <2>1, <3>2, DiskAssumption
  <2>3. x < slot
    BY <1>3, <2>1, <2>2
  <2>4. file[x].pn \in Known
    BY <1>3, <2>1, <2>3 DEF Holds, PageRow, LeafAt
  <2>5. QED
    BY <1>1, <2>1, <2>4 DEF Marks, AtWork, Settled
<1>7. QED
  BY <1>1, <1>5, <1>6, HashesQuiet

(* A crash leaves a mark on the leaf that was at work.                     *)
LEMMA CrashHashes ==
    ASSUME TypeOK, NEW lo, IInvAt(lo), NEW all, HashesAt(lo, all), Crash
    PROVE  HashesAt(lo, all)'
<1>1. /\ pc # "idle" /\ pc' = "idle" /\ UNCHANGED <<file, hdr>>
      /\ cut' = cut \cup (IF pc = "search" THEN {} ELSE {op.page})
  BY DEF Crash, Dies, Return
<1>2. OpInv(lo)
  BY TreeFacts
<1>3. ASSUME NEW x \in 1 .. hdr.rno, NEW p, Marks(x, p)
      PROVE  Marks(x, p)'
  <2>1. file[x].lvl = 0 /\ (file[x].pn \in cut \/ AtWork(x))
    BY <1>3 DEF Marks
  <2>2. CASE AtWork(x)
    <3>1. pc = "path" /\ x = Target
      BY <2>2 DEF AtWork
    <3>2. file[x].pn = op.page
      <4>1. CASE op.kind = "update"
        BY <1>2, <3>1, <4>1 DEF OpInv, UpdateInv, Target
      <4>2. CASE op.kind # "update"
        BY <1>2, <3>1, <4>2 DEF OpInv, InsertInv, Inserting, Target
      <4>3. QED
        BY <4>1, <4>2
    <3>3. QED
      BY <1>1, <2>1, <3>1, <3>2 DEF Marks, AtWork, Settled
  <2>3. QED
    BY <1>1, <2>1, <2>2 DEF Marks, AtWork, Settled
<1>4. QED
  BY <1>1, <1>3, HashesQuiet

-----------------------------------------------------------------------------
(* An insertion starts with no mark but those of pages that were cut.      *)
LEMMA StartInsertHashes ==
    ASSUME TypeOK, NEW lo, IInvAt(lo), NEW all, HashesAt(lo, all),
           NEW args \in Args("insert"), StartInsert(args)
    PROVE  HashesAt(lo, all)'
<1>1. pc = "idle" /\ pc' \in {"fill", "extend"} /\ UNCHANGED <<file, hdr, cut>>
  BY DEF StartInsert
<1>2. \A x, p \in 1 .. hdr.rno : Marks(x, p) => Marks(x, p)'
  BY <1>1, MarksKept DEF Settled
<1>3. QED
  BY <1>1, <1>2, HashesQuiet

LEMMA ScanHashes ==
    ASSUME TypeOK, NEW lo, IInvAt(lo), NEW all, HashesAt(lo, all),
           ScanStep \/ ExtendRescan \/ ExtendScan
    PROVE  HashesAt(lo, all)'
<1>1. /\ pc \in {"extend", "scan", "rescan", "next"} /\ pc' \in {"scan", "rescan", "next"}
      /\ (pc = "next" <=> pc' = "next")
      /\ UNCHANGED <<file, hdr, cut, slot>>
  BY DEF ScanStep, Scanning, ExtendRescan, ExtendScan, storeVars
<1>2. \A x, p \in 1 .. hdr.rno : Marks(x, p) => Marks(x, p)'
  BY <1>1, MarksKept DEF Settled
<1>3. QED
  BY <1>1, <1>2, HashesQuiet

(* The extension writes behind the old root, and the old root as it was.   *)
LEMMA ExtensionHashes ==
    ASSUME TypeOK, NEW lo, IInvAt(lo), NEW all, HashesAt(lo, all), pc = "extend", pc' = "extend",
           UNCHANGED <<hdr, cut>>, KeepsOld(file, file', hdr.rno)
    PROVE  HashesAt(lo, all)'
<1>1. hdr'.rno = hdr.rno /\ hdr.rno \in Nat
  BY TreeFacts
<1>2. KeepsClimbs(file, file', hdr.rno) /\ \A p \in 1 .. hdr.rno : file'[p].h = file[p].h
  BY DEF KeepsOld, KeepsClimbs, SameShape
<1>3. ASSUME NEW x \in 1 .. hdr.rno, NEW p \in 1 .. hdr.rno, Marks(x, p) PROVE Marks(x, p)'
  <2>1. file'[x].lvl = file[x].lvl /\ file'[x].pn = file[x].pn
    BY DEF KeepsOld, SameShape
  <2>2. QED
    BY <1>3, <2>1, MarksKept DEF Settled
<1>4. PathAbove(lo)'
  BY DEF PathAbove
<1>5. QED
  BY <1>1, <1>2, <1>3, <1>4, HashesFrame

(* What is said of hashes does not depend on blocks behind the root.       *)
LEMMA HashesSame ==
    ASSUME NEW lo, NEW lo2, NEW all, HashesAt(lo, all)', hdr'.rno \in Nat, pc' # "path",
           \A p \in 1 .. hdr'.rno : lo2[p] = lo[p]
    PROVE  HashesAt(lo2, all)'
<1>1. \A x, p \in 1 .. hdr'.rno : Reaches(file', lo, x, p) => Reaches(file', lo2, x, p)
  BY DEF Reaches
<1>2. Explains(lo2)'
  BY <1>1 DEF HashesAt, Explains, Explained
<1>3. QED
  BY <1>2 DEF HashesAt, PathAbove

LEMMA ExtendStepHashes ==
    ASSUME TypeOK, NEW lo, IInvAt(lo), NEW all, HashesAt(lo, all), ExtendStep
    PROVE  \E lo2 : IInvAt(lo2)' /\ HashesAt(lo2, all)'
<1>1. /\ pc = "extend" /\ pc' = "extend" /\ QueueStep
      /\ UNCHANGED <<pc, op, cur, ret, slot, acked, cut>>
  BY DEF ExtendStep, walkVars, storeVars
<1>2. PICK A : A = Behind
  OBVIOUS
<1>3. ExtendAt(lo, A)
  BY <1>1, <1>2, ExtendHere
<1>4. PICK lo2 : Grows(lo, lo2, A)
  BY <1>1, <1>3, QueueGrows
<1>5. IInvAt(lo2)'
  BY <1>1, <1>2, <1>4, ExtendDone
<1>6. /\ hdr' = hdr /\ KeepsOld(file, file', hdr.rno)
      /\ \A p \in 1 .. hdr.rno : lo2[p] = lo[p]
  BY <1>4 DEF Grows
<1>7. HashesAt(lo, all)'
  BY <1>1, <1>6, ExtensionHashes
<1>8. HashesAt(lo2, all)'
  <2>1. hdr'.rno \in Nat /\ \A p \in 1 .. hdr'.rno : lo2[p] = lo[p]
    BY <1>6, TreeFacts
  <2>2. pc' # "path"
    BY <1>1
  <2>3. QED
    BY <1>7, <2>1, <2>2, HashesSame
<1>9. QED
  BY <1>5, <1>8

LEMMA ExtendBeginHashes ==
    ASSUME TypeOK, NEW lo, IInvAt(lo), NEW all, HashesAt(lo, all), ExtendBegin
    PROVE  HashesAt(lo, all)'
<1>1. pc = "extend" /\ pc' = "extend" /\ UNCHANGED <<file, hdr, cut, slot>>
  BY DEF ExtendBegin, walkVars, storeVars
<1>2. \A x, p \in 1 .. hdr.rno : Marks(x, p) => Marks(x, p)'
  BY <1>1, MarksKept DEF Settled
<1>3. QED
  BY <1>1, <1>2, HashesQuiet

(* With the header the blocks of the extension join the tree.              *)
LEMMA ExtendHeaderHashes ==
    ASSUME TypeOK, NEW lo, IInvAt(lo), NEW all, HashesAt(lo, all), ExtendHeader
    PROVE  HashesAt(lo, all)'
<1> DEFINE n == hdr.rno
           N == glob.rno
<1>1. /\ pc = "rescan" /\ pc' = "fill" /\ hdr'.rno = N /\ UNCHANGED <<file, cut>>
  BY DEF ExtendHeader, NewHeader
<1>2. OpInv(lo) /\ n \in Nat /\ n \in Pos
  BY TreeFacts
<1>3. Extended(lo)
  BY <1>1, <1>2 DEF OpInv, ScanInv
<1>4. /\ N > n + 1 /\ RowCombines(file, n, N) /\ file[n].pos > 0
      /\ OpenAt(file, N, n + 1) /\ N \in Nat
  <2>1. FileTree(file, lo, N) /\ OpenAt(file, N, n + 1)
    <3>1. n + 1 # NoPos
      BY <1>2 DEF NoPos
    <3>2. QED
      BY <1>3, <3>1 DEF Extended, Holds
  <2>2. QED
    BY <1>3, <2>1, PosFacts DEF Extended, FileTree
<1>5. LeavesClimb(file, N, all)
  <2>1. ASSUME NEW x \in 1 .. N - 1, file[x].lvl = 0 \/ all PROVE file[x].pos > 0
    <3>1. x \in 1 .. n - 1 \/ x = n \/ x \in n + 1 .. N - 1
      BY <1>2, <1>4
    <3>2. QED
      BY <1>4, <2>1, <3>1 DEF HashesAt, LeavesClimb, OpenAt
  <2>2. QED
    BY <2>1 DEF LeavesClimb
<1>6. ASSUME NEW p \in 1 .. N, file[p].lvl > 0 PROVE Explained(lo, p)'
  <2>1. CASE p \in 1 .. n
    <3>1. Explained(lo, p)
      BY <1>6, <2>1 DEF HashesAt, Explains
    <3>2. \A x \in 1 .. n : Marks(x, p) => x \in 1 .. N /\ Marks(x, p)'
      BY <1>1, <1>2, <1>4 DEF Marks, AtWork, Settled
    <3>3. QED
      BY <1>1, <3>1, <3>2 DEF Explained
  <2>2. CASE p \in n + 1 .. N
    BY <1>1, <1>4, <1>6, <2>2 DEF RowCombines, Explained
  <2>3. QED
    BY <1>2, <1>4, <2>1, <2>2
<1>7. Explains(lo)' /\ PathAbove(lo)'
  BY <1>1, <1>6 DEF Explains, PathAbove
<1>8. QED
  BY <1>1, <1>5, <1>7 DEF HashesAt

-----------------------------------------------------------------------------
(* A stuttering step changes nothing.                                      *)
LEMMA StutterHashes ==
    ASSUME TypeOK, NEW lo, IInvAt(lo), NEW all, HashesAt(lo, all), UNCHANGED vars
    PROVE  HashesAt(lo, all)'
<1>1. UNCHANGED <<file, hdr, pc, op, cur, ret, slot, cut>>
  BY DEF vars
<1>2. \A x, p : Marks(x, p)' <=> Marks(x, p)
  BY <1>1 DEF Marks, AtWork, Settled, Target
<1>3. Explains(lo)'
  BY <1>1, <1>2 DEF HashesAt, Explains, Explained
<1>4. PathAbove(lo)'
  BY <1>1 DEF HashesAt, PathAbove, Target
<1>5. QED
  BY <1>1, <1>3, <1>4 DEF HashesAt

(* Every step keeps the invariant, with the tree it leaves.                *)
LEMMA NextHashes ==
    ASSUME NEW all, HashInv(all), [Next]_vars
    PROVE  HashInv(all)'
<1>1. PICK lo : TypeOK /\ IInvAt(lo) /\ HashesAt(lo, all)
  BY DEF HashInv
<1>2. IInv'
  BY <1>1, NextInvariant DEF IInv
<1>3. ASSUME TypeOK' /\ IInvAt(lo)' /\ HashesAt(lo, all)' PROVE HashInv(all)'
  BY <1>3 DEF HashInv
<1>4. CASE \E args \in Args("update") : StartUpdate(args)
  BY <1>1, <1>3, <1>4, StartUpdateInv, StartUpdateHashes
<1>5. CASE \E args \in Args("insert") : StartInsert(args)
  BY <1>1, <1>3, <1>5, StartInsertInv, StartInsertHashes
<1>6. CASE UpdateStep
  <2>1. CASE Search
    BY <1>1, <1>3, <2>1, SearchStepInv, SearchHashes
  <2>2. CASE Fail
    BY <1>1, <1>3, <2>2, FailInv, FailHashes
  <2>3. CASE UpdateLeaf
    BY <1>1, <1>3, <2>3, UpdateLeafInv, UpdateLeafHashes
  <2>4. CASE UpdateReturns
    BY <1>1, <1>3, <2>4, UpdateReturnsInv, UpdateReturnsHashes
  <2>5. QED
    BY <1>6, <2>1, <2>2, <2>3, <2>4 DEF UpdateStep
<1>7. CASE Climb
  BY <1>1, <1>3, <1>7, ClimbStepInv, ClimbHashes
<1>8. CASE ExtensionStep
  <2>1. CASE ExtendBegin
    BY <1>1, <1>3, <2>1, ExtendBeginInv, ExtendBeginHashes
  <2>2. CASE ExtendStep
    <3>1. \E lo2 : IInvAt(lo2)' /\ HashesAt(lo2, all)'
      BY <1>1, <2>2, ExtendStepHashes
    <3>2. QED
      BY <1>2, <3>1 DEF HashInv, IInv
  <2>3. CASE ExtendScan
    BY <1>1, <1>3, <2>3, ExtendScanInv, ScanHashes
  <2>4. CASE ExtendRescan
    BY <1>1, <1>3, <2>4, ExtendRescanInv, ScanHashes
  <2>5. CASE ExtendHeader
    BY <1>1, <1>3, <2>5, ExtendHeaderInv, ExtendHeaderHashes
  <2>6. QED
    BY <1>8, <2>1, <2>2, <2>3, <2>4, <2>5 DEF ExtensionStep
<1>9. CASE ScanStep
  BY <1>1, <1>3, <1>9, ScanStepInv, ScanHashes
<1>10. CASE InsertStep
  <2>1. CASE Fill
    BY <1>1, <1>3, <2>1, FillInv, FillHashes
  <2>2. CASE PathDone
    BY <1>1, <1>3, <2>2, PathDoneInv, PathDoneHashes
  <2>3. CASE SepsBegin
    BY <1>1, <1>3, <2>3, SepsBeginInv, SepsQuiet
  <2>4. CASE SepParent
    BY <1>1, <1>3, <2>4, SepParentInv, SepParentHashes
  <2>5. CASE SepLeft
    BY <1>1, <1>3, <2>5, SepLeftInv, ParentPageHashes
  <2>6. CASE SepRight
    BY <1>1, <1>3, <2>6, SepRightInv, ParentPageHashes
  <2>7. CASE NextPad
    BY <1>1, <1>3, <2>7, NextPadInv, SepsQuiet
  <2>8. CASE InsertReturns
    BY <1>1, <1>3, <2>8, InsertReturnsInv, InsertReturnsHashes
  <2>9. QED
    BY <1>10, <2>1, <2>2, <2>3, <2>4, <2>5, <2>6, <2>7, <2>8 DEF InsertStep
<1>11. CASE Crash
  BY <1>1, <1>3, <1>11, CrashInv, CrashHashes
<1>12. CASE UNCHANGED vars
  BY <1>1, <1>3, <1>12, StutterInv, StutterHashes
<1>13. QED
  BY <1>4, <1>5, <1>6, <1>7, <1>8, <1>9, <1>10, <1>11, <1>12 DEF Next, Step

(* A hash combines the children's in the terms of the file, too.           *)
LEMMA CombinesIsMerkle ==
    ASSUME NEW f \in [Pos -> Block], NEW lo, NEW n, FileTree(f, lo, n),
           NEW p \in 1 .. n, f[p].lvl > 0
    PROVE  /\ Combines(f, p) <=> MerkleAt(f, p)
           /\ IsInterior(f, p)
           /\ Lchild(f, p) = p + f[p].lcos /\ Rchild(f, p) = p - 1
           /\ Read(f, p + f[p].lcos) = f[p + f[p].lcos] /\ Read(f, p - 1) = f[p - 1]
<1>1. PICK l : l = p + f[p].lcos
  OBVIOUS
<1>2. /\ l \in 1 .. n - 1 /\ p - 1 \in 1 .. n - 1 /\ f[p].rcos = -1 /\ n \in Nat
      /\ 1 .. n \subseteq Pos /\ p \in Int
  BY <1>1, ChildrenOf, PosFacts DEF FileTree
<1>3. Read(f, p) = f[p] /\ Read(f, l) = f[l] /\ Read(f, p - 1) = f[p - 1]
  <2>1. l \in Pos /\ p - 1 \in Pos /\ p \in Pos
    BY <1>2
  <2>2. QED
    BY <2>1 DEF Read
<1>4. Lchild(f, p) = l /\ Rchild(f, p) = p - 1 /\ IsInterior(f, p)
  BY <1>1, <1>2, <1>3 DEF Lchild, Rchild, IsInterior
<1>5. QED
  BY <1>1, <1>3, <1>4 DEF Combines, MerkleAt, ChildrenHash

(* A file as the builders leave it has no stale hash.                      *)
LEMMA StartHashes ==
    ASSUME IInv, pc = "idle", Hashed(file, hdr.rno), NEW all \in BOOLEAN,
           all => Climbable(file, hdr.rno)
    PROVE  HashInv(all)
<1>1. PICK lo : TypeOK /\ IInvAt(lo)
  BY DEF IInv
<1>2. /\ file \in [Pos -> Block] /\ hdr.rno \in Nat /\ FileTree(file, lo, hdr.rno)
  BY <1>1, TreeFacts
<1>3. Explains(lo)
  <2>1. ASSUME NEW p \in 1 .. hdr.rno, file[p].lvl > 0 PROVE Combines(file, p)
    <3>1. MerkleAt(file, p)
      BY <2>1 DEF Hashed
    <3>2. QED
      BY <1>2, <2>1, <3>1, CombinesIsMerkle
  <2>2. QED
    BY <2>1 DEF Explains, Explained
<1>4. LeavesClimb(file, hdr.rno, all)
  BY <1>2 DEF Hashed, Climbable, LeavesClimb
<1>5. PathAbove(lo)
  BY DEF PathAbove
<1>6. QED
  BY <1>1, <1>3, <1>4, <1>5 DEF HashesAt, HashInv

(* So are the files the store starts from.                                 *)
LEMMA InitHashes == ASSUME NEW all \in BOOLEAN PROVE Init => HashInv(all)
<1> SUFFICES ASSUME Init PROVE HashInv(all)
  OBVIOUS
<1>1. PICK leaves \in InitLeaves : file = L!LayoutFile(leaves) /\ hdr = L!LayoutHeader(leaves)
  BY DEF Init
<1>2. LaidOut(file, hdr, leaves) /\ Climbable(file, hdr.rno)
  BY <1>1, StoreAssumption DEF StoreAssumption
<1>3. IInv /\ Hashed(file, hdr.rno) /\ pc = "idle"
  BY <1>2, InitInvariant DEF LaidOut, Init
<1>4. QED
  BY <1>2, <1>3, StartHashes

LEMMA ExInitHashes == ASSUME ExFull PROVE ExInit => HashInv(FALSE)
<1> SUFFICES ASSUME ExInit PROVE HashInv(FALSE)
  OBVIOUS
<1>1. PICK leaves \in ExLeaves : file = X!ExLayoutFile(leaves) /\ hdr = X!LayoutHeader(leaves)
  BY DEF ExInit
<1>2. LaidOut(file, hdr, leaves)
  BY <1>1, ExAssumption DEF ExAssumption, ExFull
<1>3. IInv /\ Hashed(file, hdr.rno) /\ pc = "idle"
  BY <1>2, ExInitInvariant DEF LaidOut, ExInit
<1>4. QED
  BY <1>3, StartHashes

(* When nothing runs and no operation was cut there is no mark.            *)
LEMMA RestExplained ==
    ASSUME NEW all, HashInv(all), pc = "idle", cut = {},
           NEW p \in 1 .. hdr.rno, IsInterior(file, p)
    PROVE  /\ MerkleAt(file, p) \/ Gap(Lchild(file, p)) \/ Gap(Rchild(file, p))
           /\ all => MerkleAt(file, p)
<1>1. PICK lo : TypeOK /\ IInvAt(lo) /\ HashesAt(lo, all)
  BY DEF HashInv
<1>2. /\ file \in [Pos -> Block] /\ hdr.rno \in Nat /\ FileTree(file, lo, hdr.rno)
      /\ 1 .. hdr.rno \subseteq Pos
  BY <1>1, TreeFacts
<1>3. file[p].lvl > 0
  BY <1>2 DEF IsInterior, Read
<1>4. PICK l : l = p + file[p].lcos
  OBVIOUS
<1>5. /\ Combines(file, p) <=> MerkleAt(file, p)
      /\ Lchild(file, p) = l /\ Rchild(file, p) = p - 1
      /\ Read(file, l) = file[l] /\ Read(file, p - 1) = file[p - 1]
  BY <1>2, <1>3, <1>4, CombinesIsMerkle
<1>6. l \in 1 .. hdr.rno - 1 /\ p - 1 \in 1 .. hdr.rno - 1
  BY <1>2, <1>3, <1>4, ChildrenOf
<1>7. Combines(file, p) \/ GapAt(file, p - 1) \/ GapAt(file, l)
  <2>1. Explained(lo, p)
    BY <1>1, <1>3 DEF HashesAt, Explains
  <2>2. \A x : ~Marks(x, p)
    BY DEF Marks, AtWork
  <2>3. QED
    BY <1>4, <2>1, <2>2 DEF Explained, GapBelow
<1>8. all => ~GapAt(file, p - 1) /\ ~GapAt(file, l)
  <2>1. LeavesClimb(file, hdr.rno, all)
    BY <1>1 DEF HashesAt
  <2>2. QED
    BY <1>6, <2>1 DEF LeavesClimb, GapAt
<1>9. (GapAt(file, p - 1) => Gap(p - 1)) /\ (GapAt(file, l) => Gap(l))
  BY <1>5 DEF GapAt, Gap, IsInterior
<1>10. QED
  BY <1>5, <1>7, <1>8, <1>9

(* "Update the hash value of the node on the path from a certain MHT node  *)
(* to the root": in a file of mhtfile.c every interior block combines the  *)
(* hashes of its children whenever nothing runs and no operation is left   *)
(* half done, whatever was inserted, updated, extended or cut and redone   *)
(* before (updatePathToRoot, insertNewMHTBlock, extentTheMHT).             *)
THEOREM MerkleSafety == Spec => []RestIsMerkle
<1>1. Init => HashInv(TRUE)
  BY InitHashes
<1>2. HashInv(TRUE) /\ [Next]_vars => HashInv(TRUE)'
  BY NextHashes
<1>3. HashInv(TRUE) => RestIsMerkle
  BY RestExplained DEF RestIsMerkle
<1>4. QED
  BY <1>1, <1>2, <1>3, PTL DEF Spec

(* In the files of either builder a hash is stale only right above a block *)
(* without a parent offset, where updatePathToRoot ended short of the root.*)
THEOREM StaleSafety == ASSUME ExFull PROVE AnySpec => []StaleOnlyAboveGaps
<1>1. InitAny => HashInv(FALSE)
  BY InitHashes, ExInitHashes DEF InitAny
<1>2. HashInv(FALSE) /\ [NextAny]_exVars => HashInv(FALSE)'
  <2>1. [NextAny]_exVars => [Next]_vars
    BY DEF NextAny, exVars
  <2>2. QED
    BY <2>1, NextHashes
<1>3. HashInv(FALSE) => StaleOnlyAboveGaps
  BY RestExplained DEF StaleOnlyAboveGaps
<1>4. QED
  BY <1>1, <1>2, <1>3, PTL DEF AnySpec
=============================================================================
