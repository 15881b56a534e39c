------------------------------ MODULE MHTNode -------------------------------
(***************************************************************************)
(* The nodes that the builders keep in memory while they build a tree, and *)
(* the globals of defs.c that outlive a call: common to process_all_pages  *)
(* and its variants (mhtfile.c) and to the builders of mhtfile_ex.c.       *)
(***************************************************************************)
EXTENDS MHTDisk

(* g_mhtFileRootNodeOffset, g_mhtFirstSplymtLeafOffset, g_isEncounterFSLO. *)
Globals   == [rno : 0 .. MaxPos, fslo : 0 .. MaxPos, enc : BOOLEAN]
NoGlobals == [rno |-> NoPos, fslo |-> NoPos, enc |-> FALSE]

(* A queue node: a block that has no reserved field yet, and the page of   *)
(* the rightmost leaf below it (m_RMSTL_page_no).                          *)
QNode == [pn : Nat, lvl : Nat, h : Hash, isn : BOOLEAN, izn : BOOLEAN,
          lcpn : Nat, lcos : Int, rcpn : Nat, rcos : Int,
          ppn : Nat, pos : Int, rm : Nat]

(* makeMHTNode and makeQNode: a node without links.                        *)
MakeQNode(page, hash, level, isn, izn) ==
    [pn |-> page, lvl |-> level, h |-> hash, isn |-> isn, izn |-> izn,
     lcpn |-> NoPage, lcos |-> 0, rcpn |-> NoPage, rcos |-> 0,
     ppn |-> NoPage, pos |-> 0, rm |-> NoPage]

PadNode == MakeQNode(NoPage, ZeroHash, 0, TRUE, TRUE)

(* qnode_to_mht_buffer: the block of a node, with the given mark.          *)
ToBlock(n, mark) ==
    [pn |-> n.pn, lvl |-> n.lvl, h |-> n.h, isn |-> n.isn, izn |-> n.izn,
     lcpn |-> n.lcpn, lcos |-> n.lcos, rcpn |-> n.rcpn, rcos |-> n.rcos,
     ppn |-> n.ppn, pos |-> n.pos, rsvd |-> mark]

Last(s) == s[Len(s)]

(* Faulty variant: the page of the node itself.                            *)
OwnPage(n) == n.pn

(* deal_with_interior_nodes_pageno: a parent carries the page of the       *)
(* rightmost leaf of its left subtree, and remembers that of the right.    *)
RightmostPage(n) == IF n.lvl = 0 THEN n.pn ELSE n.rm

(* Faulty variant: the distance is that between the children.              *)
CombinedShort(l, r, d) ==
    [pn |-> RightmostPage(l), lvl |-> l.lvl + 1, h |-> Combine(l.h, r.h),
     isn |-> TRUE, izn |-> FALSE,
     lcpn |-> l.pn, lcos |-> 1 - d, rcpn |-> r.pn, rcos |-> -1,
     ppn |-> NoPage, pos |-> 0, rm |-> RightmostPage(r)]

(* makeCombinedQNode, deal_with_nodes_offset and _interior_nodes_pageno    *)
(* for the left child l, at distance d from the new node, and the tail r.  *)
Combined(l, r, d) ==
    [pn |-> RightmostPage(l), lvl |-> l.lvl + 1, h |-> Combine(l.h, r.h),
     isn |-> TRUE, izn |-> FALSE,
     lcpn |-> l.pn, lcos |-> -d, rcpn |-> r.pn, rcos |-> -1,
     ppn |-> NoPage, pos |-> 0, rm |-> RightmostPage(r)]

Linked(child, parent, d) == [child EXCEPT !.pos = d, !.ppn = parent.pn]
=============================================================================
