----------------------------- MODULE MHTBuildEx -----------------------------
(***************************************************************************)
(* The builders of mhtfile_ex.c: process_all_elem (indices in an array),   *)
(* process_all_elem_fv (a file of blocks) and                              *)
(* process_all_elem_fv_new_ds_fmt (a data set).  Two children are written  *)
(* and forgotten as soon as they are combined, and their parent is written *)
(* before its own parent is known: what it learns later is patched into    *)
(* the block that a backward search by hash finds.                         *)
(*                                                                         *)
(* The code combines before it reads an element and once more at the end;  *)
(* as the first time the queue is empty, that is after each element.  One  *)
(* action makes at most one write; the process may die between any two.    *)
(***************************************************************************)
EXTENDS MHTNode

CONSTANTS
    Inputs,         \* what is built: [kind, elems], elems nonempty
    IndexHash(_)    \* generateHashByPageNo_SHA256: the digest of an index

VARIABLES
    stage,      \* where the process is in the loops below
    q,          \* the queue, from the header's successor to the tail
    wpos,       \* position behind the last block (the file pointer)
    glob,       \* the globals of defs.c
    job,        \* the input of the running or the finished build
    todo        \* the elements not read yet

vars == <<file, hdr, stage, q, wpos, glob, job, todo>>

Kinds  == {"array", "file", "dataset"}
Elem   == [pn : 0 .. NoPage, h : Hash]
NoJob  == [kind |-> "none", elems |-> <<>>]

ASSUME BuildExAssumption ==
    /\ \A in \in Inputs : in.kind \in Kinds /\ in.elems \in Seq(Elem) /\ in.elems # <<>>
    /\ \A i \in 0 .. NoPage : IndexHash(i) \in Hash

(* A queue node here also knows whether its block is in the file.          *)
XNode == [pn : Nat, lvl : Nat, h : Hash, isn : BOOLEAN, izn : BOOLEAN,
          lcpn : Nat, lcos : Int, rcpn : Nat, rcos : Int,
          ppn : Nat, pos : Int, rm : Nat, m_is_written : BOOLEAN]

AsX(n, written) ==
    [pn |-> n.pn, lvl |-> n.lvl, h |-> n.h, isn |-> n.isn, izn |-> n.izn,
     lcpn |-> n.lcpn, lcos |-> n.lcos, rcpn |-> n.rcpn, rcos |-> n.rcos,
     ppn |-> n.ppn, pos |-> n.pos, rm |-> n.rm, m_is_written |-> written]

(* The leaf of an element: of an array the index is hashed, of a block its *)
(* data (or the digest it holds).                                          *)
ArrayLeaf(e) == MakeQNode(e.pn, IndexHash(e.pn), 0, e.pn >= NoPage, FALSE)
BlockLeaf(e) == MakeQNode(e.pn, e.h, 0, e.pn >= NoPage, FALSE)

LeafOf(kind, e) == AsX(IF kind = "array" THEN ArrayLeaf(e) ELSE BlockLeaf(e), FALSE)

-----------------------------------------------------------------------------
Init ==
    /\ file = [p \in Pos |-> ZeroBlock] /\ hdr = [rno |-> NoPos, fslo |-> NoPos]
    /\ stage = "idle" /\ q = <<>> /\ wpos = 1 /\ glob = NoGlobals
    /\ job = NoJob /\ todo = <<>>

(* Clear the queue and the three globals, create (and truncate) the file.  *)
StartBuild(input) ==
    /\ stage = "idle"
    /\ file' = [p \in Pos |-> ZeroBlock] /\ hdr' = [rno |-> NoPos, fslo |-> NoPos]
    /\ q' = <<>> /\ wpos' = 1 /\ glob' = NoGlobals
    /\ stage' = "read"
    /\ job' = input /\ todo' = input.elems

(* Read an element and enqueue its leaf.                                   *)
ReadElem ==
    /\ stage = "read" /\ todo # <<>>
    /\ q' = Append(q, LeafOf(job.kind, Head(todo)))
    /\ todo' = Tail(todo)
    /\ stage' = "combine"
    /\ UNCHANGED <<file, hdr, wpos, glob, job>>

(* pow(2, n).                                                              *)
Pow2[n \in Nat] == IF n = 0 THEN 1 ELSE 2 * Pow2[n - 1]

(* Faulty variant: as if each level added two blocks.                      *)
LeftDistanceShort(level) == 2 * level + 2

(* compute_relative_distance_from_child_to_parent, for a left child.       *)
LeftDistance(level) == 2 * Pow2[level]

MustCombine == Len(q) > 1 /\ q[Len(q)].lvl = q[Len(q) - 1].lvl

(* makeCombinedQNode and deal_with_interior_nodes_pageno_ex: a new parent. *)
Joined(l, r) == AsX(Combined(l, r, LeftDistance(l.lvl)), FALSE)

(* deal_with_nodes_offset_ex: the two children learn of their parent.      *)
LinkedTo(p, l, r) == <<Linked(l, p, LeftDistance(l.lvl)), Linked(r, p, 1)>>

(* Combine the last two nodes and enqueue their parent.                    *)
Pair ==
    /\ stage = "combine" /\ MustCombine
    /\ LET n == Len(q)
           p == Joined(q[n - 1], q[n])
       IN  q' = SubSeq(q, 1, n - 2) \o LinkedTo(p, q[n - 1], q[n]) \o <<p>>
    /\ stage' = "left"
    /\ UNCHANGED <<file, hdr, wpos, glob, job, todo>>

-----------------------------------------------------------------------------
(* dequeue_sppos: take node i out, which is not the tail.                  *)
Without(i) == SubSeq(q, 1, i - 1) \o SubSeq(q, i + 1, Len(q))

(* fo_search_mht_block_by_qnode_info: the last block with the node's hash. *)
SameHash(n) == {p \in 1 .. wpos - 1 : file[p].h = n.h}
(* Faulty variant: the file pointer after the match is taken for it.       *)
FoundForBehind(n) == IF SameHash(n) = {} THEN NoPos
                     ELSE 1 + CHOOSE p \in SameHash(n) : \A x \in SameHash(n) : x <= p

FoundFor(n) == IF SameHash(n) = {} THEN NoPos
               ELSE CHOOSE p \in SameHash(n) : \A x \in SameHash(n) : x <= p

(* Faulty variant: the parent's page is left out.                          *)
PatchedNoParent(n) ==
    LET p == FoundFor(n)
    IN  IF p = NoPos THEN file
        ELSE [file EXCEPT ![p] = [@ EXCEPT !.pn = n.pn, !.lcpn = n.lcpn, !.rcpn = n.rcpn]]

(* update_mht_block_index_info: the four page numbers of a node go into    *)
(* the block found; its parent offset does not.                            *)
Patched(n) ==
    LET p == FoundFor(n)
    IN  IF p = NoPos THEN file
        ELSE [file EXCEPT ![p] = [@ EXCEPT !.pn = n.pn, !.lcpn = n.lcpn,
                                           !.rcpn = n.rcpn, !.ppn = n.ppn]]

FirstPad(n) == n.lvl = 0 /\ n.pn >= NoPage /\ ~glob.enc

(* Take a child out of the queue and write its block, or patch the block   *)
(* it has.  The first padding leaf that is written leaves its offset.      *)
Take(i, next) ==
    /\ IF q[i].m_is_written
       THEN /\ file' = IF q[i].lvl > 0 THEN Patched(q[i]) ELSE file
            /\ UNCHANGED <<wpos, glob>>
       ELSE /\ wpos \in Pos
            /\ file' = [file EXCEPT ![wpos] = ToBlock(q[i], "R")]
            /\ wpos' = wpos + 1
            /\ glob' = IF FirstPad(q[i])
                       THEN [glob EXCEPT !.fslo = wpos, !.enc = TRUE] ELSE glob
    /\ q' = Without(i)
    /\ stage' = next
    /\ UNCHANGED <<hdr, job, todo>>

TakeLeft  == stage = "left"  /\ Take(Len(q) - 2, "right")
TakeRight == stage = "right" /\ Take(Len(q) - 1, "parent")

(* Faulty variant: one combination for each element.                       *)
WriteParentOnce ==
    /\ stage = "parent"
    /\ wpos \in Pos
    /\ file' = [file EXCEPT ![wpos] = ToBlock(q[Len(q)], "R")]
    /\ wpos' = wpos + 1
    /\ q' = [q EXCEPT ![Len(q)].m_is_written = TRUE]
    /\ stage' = IF todo # <<>> THEN "read" ELSE "root"
    /\ UNCHANGED <<hdr, glob, job, todo>>

(* The parent, now the tail, is written at once, marked 'R' as all others. *)
WriteParent ==
    /\ stage = "parent"
    /\ wpos \in Pos
    /\ file' = [file EXCEPT ![wpos] = ToBlock(q[Len(q)], "R")]
    /\ wpos' = wpos + 1
    /\ q' = [q EXCEPT ![Len(q)].m_is_written = TRUE]
    /\ stage' = "combine"
    /\ UNCHANGED <<hdr, glob, job, todo>>

(* Faulty variant: the end of the input goes unnoticed.                    *)
CombineAgain ==
    /\ stage = "combine" /\ ~MustCombine
    /\ stage' = IF todo # <<>> THEN "read" ELSE "combine"
    /\ UNCHANGED <<file, hdr, q, wpos, glob, job, todo>>

CombineEnds ==
    /\ stage = "combine" /\ ~MustCombine
    /\ stage' = IF todo # <<>> THEN "read" ELSE "root"
    /\ UNCHANGED <<file, hdr, q, wpos, glob, job, todo>>

(* The head of the queue is taken for the root, the last block of the file *)
(* for its block; a head that was never written is none.                   *)
RootHead == q[1].m_is_written /\ q[1].lvl > 0

PopRoot ==
    /\ stage = "root"
    /\ glob' = IF RootHead THEN [glob EXCEPT !.rno = wpos - 1] ELSE glob
    /\ q' = Tail(q)
    /\ stage' = "header"
    /\ UNCHANGED <<file, hdr, wpos, job, todo>>

(* Write the header; what is still queued is freed.                        *)
WriteHeader ==
    /\ stage = "header"
    /\ hdr' = [rno |-> glob.rno, fslo |-> glob.fslo]
    /\ q' = <<>>
    /\ stage' = "idle"
    /\ UNCHANGED <<file, wpos, glob, job, todo>>

(* The process dies in a build.                                            *)
Crash ==
    /\ stage # "idle"
    /\ stage' = "idle" /\ q' = <<>> /\ wpos' = 1 /\ glob' = NoGlobals
    /\ job' = NoJob /\ todo' = <<>>
    /\ UNCHANGED <<file, hdr>>

CombineTurn == Pair \/ TakeLeft \/ TakeRight \/ WriteParent \/ CombineEnds

Step == ReadElem \/ CombineTurn \/ PopRoot \/ WriteHeader

Next == (\E input \in Inputs : StartBuild(input)) \/ Step \/ Crash

Spec == Init /\ [][Next]_vars

-----------------------------------------------------------------------------
Done == stage = "idle" /\ job # NoJob

TypeOK ==
    /\ DiskTypeOK
    /\ stage \in {"idle", "read", "combine", "left", "right", "parent", "root", "header"}
    /\ q \in Seq(XNode) /\ wpos \in 1 .. MaxPos + 1 /\ glob \in Globals
    /\ job.kind \in Kinds \cup {"none"} /\ todo \in Seq(Elem)

(* Every interior block of the file, finished or not, finds its two        *)
(* children where its offsets say, one level below it, and combines their  *)
(* hashes: distances computed from the level alone                         *)
(* (compute_relative_distance_from_child_to_parent) agree with where the   *)
(* blocks were written, for any number of elements.                        *)
BlocksJoinChildren ==
    \A p \in 1 .. wpos - 1 :
        file[p].lvl > 0 =>
            LET l == p + file[p].lcos
                r == p + file[p].rcos
            IN  /\ l \in 1 .. p - 1 /\ r \in 1 .. p - 1 /\ l # r
                /\ \A c \in {l, r} : file[c].lvl = file[p].lvl - 1
                /\ file[p].h = Combine(file[l].h, file[r].h)

(* The promise of the library, less memory (mhtfile_ex.h:5): when an       *)
(* element is read the queue holds at most one node of a level, the levels *)
(* fall towards the tail, and only a leaf is not yet in the file.          *)
QueueStaysShort ==
    stage \in {"read", "root"} =>
        /\ \A i \in 1 .. Len(q) - 1 : q[i].lvl > q[i + 1].lvl
        /\ \A i \in 1 .. Len(q) : q[i].m_is_written <=> q[i].lvl > 0

(* Where the block of a queued node is: its subtree ends with it, and the  *)
(* subtrees of the queue follow each other in the file.                    *)
TreeSize(level) == 2 * Pow2[level] - 1
BlocksUpTo[i \in 0 .. Len(q)] ==
    IF i = 0 THEN 0 ELSE BlocksUpTo[i - 1] + TreeSize(q[i].lvl)

(* The blocks that are patched for two combined nodes are the nodes' own   *)
(* (update_mht_block_index_info, which finds them by their hashes).        *)
PatchFindsOwn ==
    stage = "left" =>
        \A i \in {Len(q) - 2, Len(q) - 1} :
            q[i].m_is_written => FoundFor(q[i]) = BlocksUpTo[i]
=============================================================================
