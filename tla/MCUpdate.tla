------------------------------ MODULE MCUpdate ------------------------------
(***************************************************************************)
(* Instances of MHTUpdate: complete trees of one, two and four leaves      *)
(* laid out as the reference definition says.                              *)
(***************************************************************************)
EXTENDS MHTUpdate

L == INSTANCE MHTLayout

A == <<"a">>    B == <<"b">>    C == <<"c">>

OneLeaf    == L!LayoutDisk(<<L!Leaf(1, A)>>)
TwoLeaves  == L!LayoutDisk(<<L!Leaf(1, A), L!Leaf(3, B)>>)
FourLeaves == L!LayoutDisk(<<L!Leaf(1, A), L!Leaf(3, B), L!Leaf(5, C)>>)

MCOneLeaf == {OneLeaf}
MCDisks   == {TwoLeaves, FourLeaves}

MCNewHash == {<<"d">>}

(* A hash that ends in a zero byte, and one without zero bytes.            *)
MCZeroHash == {<<"d", ZeroByte>>, <<"c">>}
=============================================================================
