------------------------------ MODULE DBQueue ------------------------------
(***************************************************************************)
(* The doubly linked queue of nodes (dbqueue.c) that the builders keep in  *)
(* two pointers, the header and the tail.  Its nodes come from the pool,   *)
(* which is taken at its word here: a node it hands out is nobody's (that  *)
(* is NodesHandedOutOnce of QNodePool).                                    *)
(***************************************************************************)
EXTENDS Naturals, FiniteSets, Sequences, SequencesExt

CONSTANTS
    Node,       \* the addresses of queue nodes
    Null,
    Careful     \* callers pass dequeue_sppos no tail behind other nodes and
                \* free or start no queue that still has nodes

ASSUME QueueAssumption ==
    IsFiniteSet(Node) /\ Null \notin Node /\ Careful \in BOOLEAN

VARIABLES
    next, prev, \* the links of every node
    header,     \* *pQHeader
    tail,       \* *pQ
    len,        \* m_length of the header
    used,       \* the nodes the pool has handed out
    held,       \* those the callers have outside the queue
    asked, out, \* what the last removal was asked for and what it returned
    aborted     \* the C library has found a pointer freed twice

links == <<next, prev>>
vars == <<links, header, tail, len, used, held, asked, out, aborted>>

(* The nodes from n on, following link at most once per node.              *)
Walk(link, n) ==
    LET w[k \in Nat] ==
            [m \in Node \cup {Null} |->
                IF k = 0 \/ m = Null THEN <<>> ELSE <<m>> \o w[k - 1][link[m]]]
    IN  w[Cardinality(Node)][n]

Items == IF header = Null THEN <<>> ELSE Walk(next, next[header])

Empty == tail = header

LookBackward(n) == prev[n]

-----------------------------------------------------------------------------
Init ==
    /\ next = [n \in Node |-> Null]
    /\ prev = [n \in Node |-> Null]
    /\ header = Null /\ tail = Null
    /\ len = 0
    /\ used = {} /\ held = {}
    /\ asked = Null /\ out = Null
    /\ aborted = FALSE

(* pool_alloc_qnode and the fields the constructors set.                   *)
Blank(n) ==
    /\ next' = [next EXCEPT ![n] = Null]
    /\ prev' = [prev EXCEPT ![n] = Null]

(* Faulty variant: the old header is forgotten.                            *)
GivenBackNone == {}

(* initQueue gives back an old header, but no nodes behind it.             *)
GivenBack == IF header = Null THEN {} ELSE {header}

InitQueue ==
    /\ Careful => Empty
    /\ \E n \in Node \ (used \ GivenBack) :
          /\ used' = (used \ GivenBack) \cup {n}
          /\ Blank(n)
          /\ header' = n /\ tail' = n
    /\ len' = 0
    /\ UNCHANGED <<held, asked, out, aborted>>

(* makeQNode, makeQNode2 and makeCombinedQNode as the queue sees them.     *)
MakeQNode(n) ==
    /\ n \notin used
    /\ used' = used \cup {n}
    /\ held' = held \cup {n}
    /\ Blank(n)
    /\ UNCHANGED <<header, tail, len, asked, out, aborted>>

DeleteQNode(n) ==
    /\ used' = used \ {n}
    /\ held' = held \ {n}
    /\ prev' = [prev EXCEPT ![n] = Null]
    /\ UNCHANGED <<next, header, tail, len, asked, out, aborted>>

Enqueue(n) ==
    /\ header # Null
    /\ next' = [next EXCEPT ![tail] = n, ![n] = Null]
    /\ prev' = [prev EXCEPT ![n] = tail]
    /\ tail' = n
    /\ len' = len + 1
    /\ held' = held \ {n}
    /\ UNCHANGED <<header, used, asked, out, aborted>>

(* Faulty variant: only the forward link is repaired.                      *)
UnlinkOneWay(n) ==
    LET m == next[n] IN
    /\ next' = [next EXCEPT ![n] = next[m]]
    /\ UNCHANGED prev
    /\ tail' = IF next[m] = Null THEN n ELSE tail

(* The node behind n leaves the queue.                                     *)
Unlink(n) ==
    LET m == next[n] IN
    /\ next' = [next EXCEPT ![n] = next[m]]
    /\ prev' = IF next[m] = Null THEN prev ELSE [prev EXCEPT ![next[m]] = n]
    /\ tail' = IF next[m] = Null THEN n ELSE tail

Shortened == IF len > 0 THEN len - 1 ELSE len

Returned(m) ==
    /\ out' = m
    /\ held' = held \cup {m}
    /\ UNCHANGED <<header, used, aborted>>

Dequeue ==
    /\ ~Empty
    /\ Unlink(header)
    /\ len' = Shortened
    /\ Returned(next[header])

DequeueFirst == Dequeue /\ asked' = "first"

(* Faulty variant: it takes the first.                                     *)
BeforeSecondOff == header

(* dequeue_sub takes the node behind the first.                            *)
BeforeSecond == next[header]

LenSub == Shortened

DequeueSub ==
    /\ ~Empty
    /\ next[next[header]] # Null
    /\ Unlink(BeforeSecond)
    /\ len' = LenSub
    /\ Returned(next[BeforeSecond])
    /\ asked' = "second"

(* dequeue_sppos: a node with no successor is not taken out; the first one *)
(* is.                                                                     *)
LenAt == Shortened

DequeueAt(pos) ==
    /\ ~Empty
    /\ Careful => next[pos] # Null \/ pos = next[header]
    /\ \/ /\ next[pos] # Null
          /\ next' = [next EXCEPT ![prev[pos]] = next[pos]]
          /\ prev' = [prev EXCEPT ![next[pos]] = prev[pos]]
          /\ len' = LenAt
          /\ Returned(pos)
          /\ UNCHANGED tail
       \/ next[pos] = Null /\ Dequeue
    /\ asked' = pos

(* freeQueue frees the first node's MHT node and hands the queue node to   *)
(* the pool, which frees the same MHT node again: the program aborts.  An  *)
(* empty queue loses its header.                                           *)
FreeQueue ==
    /\ header # Null
    /\ Careful => Empty
    /\ IF Empty
       THEN /\ used' = used \ {header}
            /\ header' = Null /\ tail' = Null
            /\ UNCHANGED aborted
       ELSE aborted' = TRUE /\ UNCHANGED <<used, header, tail>>
    /\ UNCHANGED <<links, len, held, asked, out>>

Next ==
    /\ ~aborted
    /\ \/ InitQueue
       \/ \E n \in Node : MakeQNode(n)
       \/ \E n \in held : DeleteQNode(n) \/ Enqueue(n)
       \/ DequeueFirst
       \/ DequeueSub
       \/ \E n \in ToSet(Items) : DequeueAt(n)
       \/ FreeQueue

Spec == Init /\ [][Next]_vars

-----------------------------------------------------------------------------
(* Every variable has its type; the length never passes the nodes there    *)
(* are.                                                                    *)
TypeOK ==
    /\ next \in [Node -> Node \cup {Null}]
    /\ prev \in [Node -> Node \cup {Null}]
    /\ header \in Node \cup {Null}
    /\ tail \in Node \cup {Null}
    /\ len \in 0 .. Cardinality(Node)
    /\ used \subseteq Node /\ held \subseteq Node
    /\ asked \in Node \cup {Null, "first", "second"}
    /\ out \in Node \cup {Null}
    /\ aborted \in BOOLEAN

(* The two directions of the links agree after any sequence of calls:      *)
(* walking back from the tail, as the builders do with lookBackward, meets *)
(* the nodes of the queue in reverse and then the header.                  *)
BackwardMirrors ==
    header # Null => Walk(prev, tail) = Reverse(<<header>> \o Items)

(* The header's length is the number of nodes in the queue; the extension  *)
(* of a tree decides by it whether nodes remain to be combined.            *)
LengthTells == header # Null => len = Len(Items)

(* The representation of the queue, whatever calls were made.              *)
LinksAgree == TypeOK /\ BackwardMirrors /\ LengthTells

(* No node of the pool is lost or used after it was given back: each one   *)
(* handed out is the header, in the queue, or in a caller's hands, and in  *)
(* one of the three only.                                                  *)
NodesAccounted ==
    LET queued == ToSet(Items)
        head   == IF header = Null THEN {} ELSE {header}
    IN  /\ used = head \cup queued \cup held
        /\ Cardinality(used) = Cardinality(head) + Len(Items) + Cardinality(held)

(* The linked queue implements the sequence.                               *)
Q == INSTANCE NodeQueue WITH items <- Items, None <- Null

ImplementsSequence == Q!Spec

-----------------------------------------------------------------------------
(* dbqueue.h: dequeue_sppos dequeues "a specific node indicated by         *)
(* parameter "pos"".                                                       *)
GivenNodeReturned == asked \in Node => out = asked

(* dbqueue.h: freeQueue is "Freeing a queue.", whatever the queue holds.   *)
FreeingEnds == ~aborted

(* dbqueue.h: lookBackward returns "null if the first node has been        *)
(* reached to".                                                            *)
LookBackwardStops == Items # <<>> => LookBackward(Items[1]) = Null
=============================================================================
