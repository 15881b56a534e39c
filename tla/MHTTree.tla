------------------------------ MODULE MHTTree -------------------------------
(***************************************************************************)
(* What the blocks of an MHT file look like while pages are found in it.   *)
(* These predicates translate no code: assumptions about the files a       *)
(* program starts with and the proofs are stated with them.                *)
(*                                                                         *)
(* The tree lies in the file in post-order, so the blocks below block p    *)
(* are those from some position lo[p] up to p: a leaf is its own first     *)
(* block, the right child of an interior block is the block before it, and *)
(* the left child is the block before the right child's first one.         *)
(***************************************************************************)
EXTENDS MHTDisk

TreeAt(f, lo, p) ==
    /\ lo[p] \in 1 .. p
    /\ f[p].lvl = 0 => lo[p] = p /\ f[p].rcos = 0
    /\ f[p].lvl > 0 =>
          LET l == p + f[p].lcos IN
          /\ l \in 1 .. p - 2 /\ f[p].rcos = -1
          /\ lo[p] = lo[l] /\ lo[p - 1] = l + 1
          /\ f[l].lvl = f[p].lvl - 1 /\ f[p - 1].lvl = f[p].lvl - 1

(* A block below n that has a parent offset is a child of the block the    *)
(* offset leads to.                                                        *)
UpAt(f, n, p) ==
    /\ f[p].pos \in Nat
    /\ p < n /\ f[p].pos > 0 =>
          LET u == p + f[p].pos IN
          u <= n /\ f[u].lvl > 0 /\ p \in {u + f[u].lcos, u - 1}

(* The first n blocks are one tree with the root n.  (The root may have    *)
(* lost its mark to an extension of the tree that a crash cut.)            *)
FileTree(f, lo, n) ==
    /\ n \in Pos /\ lo[n] = 1
    /\ \A p \in 1 .. n : TreeAt(f, lo, p) /\ UpAt(f, n, p)
    /\ \A p \in 1 .. n - 1 : f[p].rsvd = "R"

(* The leaf s has no page that counts.  It and the blocks behind it have   *)
(* parent offsets, which lead to the block marked as the root.             *)
OpenAt(f, n, s) ==
    /\ s \in 1 .. n - 1 /\ f[s].lvl = 0
    /\ \A p \in s .. n - 1 : f[p].pos > 0
    /\ f[n].rsvd = "root"

LeafAt(f, n, x) == x \in 1 .. n /\ f[x].lvl = 0

(* The leaves before s hold the pages of A in ascending order, those       *)
(* behind s are padding.                                                   *)
PageRow(f, n, s, A) ==
    /\ \A x \in 1 .. n : LeafAt(f, n, x) =>
          /\ x < s => f[x].pn \in A /\ ~f[x].isn
          /\ x >= s => \A p \in A : p < f[x].pn
          /\ x > s => f[x].pn = NoPage /\ f[x].isn
    /\ \A p \in A : \E x \in 1 .. n : LeafAt(f, n, x) /\ x < s /\ f[x].pn = p
    /\ \A x, y \in 1 .. n :
          LeafAt(f, n, x) /\ LeafAt(f, n, y) /\ x < y /\ y < s => f[x].pn < f[y].pn

(* The separator of block a sends a search for the page of leaf x, which   *)
(* is below a, to the side x is on.                                        *)
Sorts(f, lo, a, x) ==
    f[a].lvl > 0 /\ lo[a] <= x /\ x < a => (f[x].pn <= f[a].pn <=> x <= a + f[a].lcos)

Ordered(f, lo, n, s) ==
    \A a, x \in 1 .. n : LeafAt(f, n, x) /\ x < s => Sorts(f, lo, a, x)

(* The leaf the header names, or the position behind the tree.             *)
FirstOpen(h) == IF h.fslo = NoPos THEN h.rno + 1 ELSE h.fslo

(* The file with the header h holds the pages of A.                        *)
Holds(f, lo, h, A) ==
    /\ FileTree(f, lo, h.rno)
    /\ h.fslo # NoPos => OpenAt(f, h.rno, h.fslo)
    /\ PageRow(f, h.rno, FirstOpen(h), A)
    /\ Ordered(f, lo, h.rno, FirstOpen(h))

(* The first block below each of the n blocks.                             *)
Firsts(f, n) ==
    LET lo[p \in 1 .. n] == IF f[p].lvl = 0 THEN p ELSE lo[p + f[p].lcos]
    IN  lo

(* Every interior block combines the hashes of its children, and a climb   *)
(* can leave every leaf below the root.                                    *)
Hashed(f, n) ==
    \A p \in 1 .. n : /\ f[p].lvl > 0 => MerkleAt(f, p)
                      /\ f[p].lvl = 0 /\ p < n => f[p].pos > 0

(* A climb can leave every block below the root.                           *)
Climbable(f, n) == \A p \in 1 .. n - 1 : f[p].pos > 0

(* A file for the rows of leaves that a builder was given.                 *)
LaidOut(f, h, leaves) ==
    LET real == {i \in DOMAIN leaves : leaves[i].pn # NoPage} IN
    /\ f \in [Pos -> Block] /\ h \in Header
    /\ Holds(f, Firsts(f, h.rno), h, {leaves[i].pn : i \in real})
    /\ Hashed(f, h.rno)
    /\ \A p \in Pos : f[p].pos \in Nat
    /\ \A x \in 1 .. h.rno : LeafAt(f, h.rno, x) /\ x >= FirstOpen(h) => f[x].pn = NoPage
    /\ \A x \in 1 .. h.rno, i \in real :
          LeafAt(f, h.rno, x) /\ f[x].pn = leaves[i].pn => f[x].h = leaves[i].h
=============================================================================
