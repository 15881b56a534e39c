----------------------------- MODULE MHTLayout -----------------------------
(***************************************************************************)
(* A reference definition of the file that holds a complete tree: where    *)
(* each node goes, and what its block says, in closed form.  It follows    *)
(* the drawing in filemht_structure_sketch, not the code: nodes are laid   *)
(* out in post-order, and node j of level l covers leaves j*2^l up to      *)
(* (j+1)*2^l - 1 (leaves are counted from 0).                              *)
(***************************************************************************)
EXTENDS MHTDisk

(* The number of ones in the binary numeral of i.                          *)
Ones[i \in Nat] == IF i = 0 THEN 0 ELSE (i % 2) + Ones[i \div 2]

Pow2[l \in Nat] == IF l = 0 THEN 1 ELSE 2 * Pow2[l - 1]

(* Before leaf i come the i leaves to its left and the nodes they close.   *)
LeafPos(i)    == 1 + 2 * i - Ones[i]
NodePos(l, j) == LeafPos((j + 1) * Pow2[l] - 1) + l

(* A leaf as the builders receive it; Pad is a padding leaf.               *)
Leaf(p, hash) == [pn |-> p, h |-> hash, isn |-> FALSE, izn |-> FALSE]
PadLeaf       == [pn |-> NoPage, h |-> ZeroHash, isn |-> TRUE, izn |-> TRUE]

(* leaves followed by padding up to the least power of two.                *)
Height(n) == CHOOSE k \in 0 .. n : n <= Pow2[k] /\ \A i \in 0 .. k - 1 : Pow2[i] < n
Padded(leaves) ==
    [i \in 1 .. Pow2[Height(Len(leaves))] |->
        IF i <= Len(leaves) THEN leaves[i] ELSE PadLeaf]

(* Page number of a node: its own for a leaf, the page of the rightmost    *)
(* leaf of the left subtree for an interior node.                          *)
NodePage(leaves, l, j) ==
    IF l = 0 THEN leaves[j + 1].pn
             ELSE leaves[j * Pow2[l] + Pow2[l - 1]].pn

NodeHash(leaves, level, index) ==
    LET H[l \in Nat, j \in Nat] ==
            IF l = 0 THEN leaves[j + 1].h
                     ELSE Combine(H[l - 1, 2 * j], H[l - 1, 2 * j + 1])
    IN  H[level, index]

NodeBlock(leaves, k, l, j) ==
    LET inner == l > 0
        top   == l = k
    IN  [pn   |-> NodePage(leaves, l, j),
         lvl  |-> l,
         h    |-> NodeHash(leaves, l, j),
         isn  |-> inner \/ leaves[j + 1].isn,
         izn  |-> ~inner /\ leaves[j + 1].izn,
         lcpn |-> IF inner THEN NodePage(leaves, l - 1, 2 * j) ELSE NoPage,
         lcos |-> IF inner THEN - Pow2[l] ELSE 0,
         rcpn |-> IF inner THEN NodePage(leaves, l - 1, 2 * j + 1) ELSE NoPage,
         rcos |-> IF inner THEN -1 ELSE 0,
         ppn  |-> IF top THEN NoPage ELSE NodePage(leaves, l + 1, j \div 2),
         pos  |-> IF top THEN 0 ELSE IF j % 2 = 0 THEN Pow2[l + 1] ELSE 1,
         rsvd |-> IF top THEN "root" ELSE "R"]

(* The blocks of the tree over a nonempty sequence of leaves, padded.      *)
LayoutFile(leaves) ==
    LET k     == Height(Len(leaves))
        all   == Padded(leaves)
        Nodes == {n \in (0 .. k) \X (0 .. Pow2[k] - 1) : n[2] < Pow2[k - n[1]]}
        At(p) == {n \in Nodes : NodePos(n[1], n[2]) = p}
    IN  [p \in Pos |-> IF At(p) = {} THEN ZeroBlock
                       ELSE LET n == CHOOSE n \in At(p) : TRUE
                            IN  NodeBlock(all, k, n[1], n[2])]

(* Its header: the root is the last block; the first padding leaf, if any. *)
LayoutHeader(leaves) ==
    LET k    == Height(Len(leaves))
        all  == Padded(leaves)
        pads == {i \in DOMAIN all : all[i].isn}
    IN  [rno  |-> NodePos(k, 0),
         fslo |-> IF pads = {} THEN NoPos
                  ELSE LeafPos((CHOOSE i \in pads : \A j \in pads : i <= j) - 1)]

LayoutDisk(leaves) == [file |-> LayoutFile(leaves), hdr |-> LayoutHeader(leaves)]
=============================================================================
