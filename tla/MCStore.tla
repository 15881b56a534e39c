------------------------------ MODULE MCStore ------------------------------
(***************************************************************************)
(* Instances of MHTStoreEx: a file of one page that grows, and a file of   *)
(* four pages that mhtfile_ex.c built.                                     *)
(***************************************************************************)
EXTENDS MHTStoreEx

OnePage == <<L!Leaf(1, <<"a">>)>>
Four    == <<L!Leaf(1, <<"a">>), L!Leaf(3, <<"b">>), L!Leaf(5, <<"b">>), L!Leaf(7, <<"a">>)>>

MCLeaves   == {OnePage}
MCExLeaves == {Four}

(* A row of two pages and two padding blocks, with which Returns fails.    *)
ExPad   == [pn |-> NoPage, h |-> <<"d">>, isn |-> TRUE, izn |-> FALSE]
WithPad == {<<L!Leaf(1, <<"a">>), L!Leaf(3, <<"b">>), ExPad, ExPad>>}

MCNewHash == {<<"d">>}
=============================================================================
