------------------------------ MODULE MHTQueue ------------------------------
(***************************************************************************)
(* The queue that turns a row of leaves into a tree in post-order, used by *)
(* buildMHTFile_fv (through process_all_pages_fv) and by extentTheMHT      *)
(* (through deal_with_remaining_nodes_in_queue).                           *)
(*                                                                         *)
(* After each leaf a walk goes backwards from the tail and combines the    *)
(* tail with every node of the same level it meets; if it combined, the    *)
(* head of the queue is written to the file as long as it is below the     *)
(* last combined node.  One action is one turn of one of these loops.      *)
(***************************************************************************)
EXTENDS MHTNode

VARIABLES
    stage,      \* where the process is in the loops below
    q,          \* the nodes from the header's successor to the tail
    at,         \* index in q of current_qnode_ptr
    cbd,        \* level of cbd_qnode_ptr, 0 while bCombined is FALSE
    hlev,       \* qHeaderLevel while padding leaves are added, else NoPad
    wpos,       \* position the next block goes to (the file offset)
    glob        \* the globals of defs.c that outlive a call

queueVars == <<stage, q, at, cbd, hlev, wpos, glob>>

NoPad == -1     \* the leaves come from the input, not from padding

-----------------------------------------------------------------------------
(* Enqueue a leaf and start the walk at it.                                *)
Enqueue(leaf) ==
    /\ q' = Append(q, leaf)
    /\ at' = Len(q) + 1
    /\ stage' = "walk"

(* The walk meets a node of the tail's level: the two get a parent.        *)
CombineStep ==
    /\ stage = "walk" /\ at > 1
    /\ q[at - 1].lvl = Last(q).lvl
    /\ LET n == Len(q)
           d == n + 2 - at
           p == Combined(q[at - 1], q[n], d)
       IN  /\ q' = Append([q EXCEPT ![at - 1] = Linked(@, p, d),
                                    ![n] = Linked(@, p, 1)], p)
           /\ cbd' = p.lvl
    /\ at' = at - 1
    /\ UNCHANGED <<file, hdr, stage, hlev, wpos, glob>>

(* The walk passes a node that already has its parent in the queue.        *)
SkipStep ==
    /\ stage = "walk" /\ at > 1
    /\ q[at - 1].lvl < Last(q).lvl
    /\ at' = at - 1
    /\ UNCHANGED <<file, hdr, stage, q, cbd, hlev, wpos, glob>>

(* Faulty variant: the walk ends at the first node of another level.       *)
WalkEndEarly ==
    /\ stage = "walk"
    /\ at > 1 => q[at - 1].lvl # Last(q).lvl
    /\ stage' = "flush"
    /\ UNCHANGED <<file, hdr, q, at, cbd, hlev, wpos, glob>>

(* The walk ends at the queue's header or below a higher node.             *)
WalkEnd ==
    /\ stage = "walk"
    /\ at > 1 => q[at - 1].lvl > Last(q).lvl
    /\ stage' = "flush"
    /\ UNCHANGED <<file, hdr, q, at, cbd, hlev, wpos, glob>>

(* Write the head while it is below the last combined node; the first      *)
(* padding leaf that is written leaves its offset in a global.  A file has *)
(* at most MaxPos blocks (the bound of the model).                         *)
MustFlush == cbd > 0 /\ q[1].lvl < cbd

(* Faulty variant: the node that was written stays in the queue.           *)
FlushStepKeepsHead ==
    /\ stage = "flush" /\ MustFlush
    /\ wpos \in Pos
    /\ file' = [file EXCEPT ![wpos] = ToBlock(q[1], "R")]
    /\ wpos' = wpos + 1
    /\ UNCHANGED <<hdr, stage, q, at, cbd, hlev, glob>>

FlushStep ==
    /\ stage = "flush" /\ MustFlush
    /\ wpos \in Pos
    /\ file' = [file EXCEPT ![wpos] = ToBlock(q[1], "R")]
    /\ glob' = IF q[1].lvl = 0 /\ q[1].pn >= NoPage /\ ~glob.enc
               THEN [glob EXCEPT !.fslo = wpos, !.enc = TRUE] ELSE glob
    /\ q' = Tail(q)
    /\ wpos' = wpos + 1
    /\ UNCHANGED <<hdr, stage, at, cbd, hlev>>

FlushEnd ==
    /\ stage = "flush" /\ ~MustFlush
    /\ stage' = IF hlev = NoPad THEN "read" ELSE "pad"
    /\ cbd' = 0
    /\ UNCHANGED <<file, hdr, q, at, hlev, wpos, glob>>

(* deal_with_remaining_nodes_in_queue: add padding leaves until the tail   *)
(* is above the level the head had at the start.                           *)
BeginPadding ==
    /\ hlev' = q[1].lvl
    /\ stage' = "pad"

PadStep ==
    /\ stage = "pad"
    /\ Last(q).lvl <= hlev
    /\ Enqueue(PadNode)
    /\ UNCHANGED <<file, hdr, cbd, hlev, wpos, glob>>

PadEnd ==
    /\ stage = "pad"
    /\ Last(q).lvl > hlev
    /\ stage' = "root"
    /\ UNCHANGED <<file, hdr, q, at, cbd, hlev, wpos, glob>>

(* The head is written as the root block, and its offset kept in a global. *)
WriteRoot ==
    /\ stage = "root" /\ q # <<>>
    /\ wpos \in Pos
    /\ file' = [file EXCEPT ![wpos] = ToBlock(q[1], "root")]
    /\ glob' = [glob EXCEPT !.rno = wpos]
    /\ q' = Tail(q)
    /\ wpos' = wpos + 1
    /\ UNCHANGED <<hdr, stage, at, cbd, hlev>>

QueueStep ==
    \/ CombineStep \/ SkipStep \/ WalkEnd \/ FlushStep \/ FlushEnd
    \/ PadStep \/ PadEnd \/ WriteRoot

-----------------------------------------------------------------------------
(* The stream: the blocks written so far followed by the nodes queued.     *)
StreamEnd   == wpos - 1 + Len(q)
Stream(s)   == IF s < wpos THEN file[s] ELSE q[s - wpos + 1]

(* Node s of the stream has its two children at the distances it records,  *)
(* one level below, pointing back at it, and combines their hashes.        *)
JoinsChildren(s) ==
    LET n == Stream(s)
        l == s + n.lcos
        r == s + n.rcos
    IN  /\ l \in 1 .. s - 1 /\ r \in 1 .. s - 1 /\ l < r
        /\ \A c \in {l, r} : Stream(c).lvl = n.lvl - 1 /\ c + Stream(c).pos = s
        /\ n.h = Combine(Stream(l).h, Stream(r).h)

QueueTypeOK ==
    /\ q \in Seq(QNode)
    /\ at \in Nat /\ cbd \in Nat /\ hlev \in Nat \cup {NoPad}
    /\ wpos \in Nat
    /\ glob \in Globals

(* Whatever has been read, the blocks written and the nodes queued form    *)
(* one consistent forest: each interior node records where its children    *)
(* are, they point back, and its hash combines theirs, although children   *)
(* may be on disk or still queued (deal_with_nodes_offset counts queue     *)
(* links, the readers of the file count blocks).                           *)
StreamConsistent ==
    \A s \in 1 .. StreamEnd : Stream(s).lvl > 0 => JoinsChildren(s)

(* Between two leaves the queue is a binary counter: the nodes without a   *)
(* parent have strictly falling levels, so no two of them wait to be       *)
(* combined (the walk of process_all_pages_fv misses none).                *)
PeaksFall ==
    stage \in {"read", "pad"} =>
        \A i, j \in 1 .. Len(q) :
            i < j /\ q[i].pos = 0 /\ q[j].pos = 0 => q[i].lvl > q[j].lvl

(* "actually, only root node remains" (mhtfile.c:243 and 317): when the    *)
(* queue is drained into root blocks it holds one node.                    *)
OnlyRootRemains == stage = "root" /\ q # <<>> => Len(q) = 1
=============================================================================
