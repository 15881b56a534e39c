----------------------------- MODULE MCDisorder -----------------------------
(***************************************************************************)
(* Instances of MHTDisorder: insertions before, between and behind the     *)
(* pages of a file of two pages.                                           *)
(***************************************************************************)
EXTENDS MHTDisorder

MCTwo == {<<L!Leaf(3, <<"a">>), L!Leaf(5, <<"b">>)>>}

(* A file of one page, with which RemainingWrittenBack fails.              *)
MCOne == {<<L!Leaf(3, <<"a">>)>>}

MCNewHash == {<<"d">>}
=============================================================================
