----------------------------- MODULE QNodePool -----------------------------
(***************************************************************************)
(* The pool of queue nodes (qnode_pool.c): a free list linked through the  *)
(* nodes' own next fields and a count, both under one lock.  Every locked  *)
(* section is one step.  What the code does outside the lock is a step of  *)
(* its own: a node's fields are set after it has been taken, and a builder *)
(* tests the count in one section and initialises the pool in another.     *)
(***************************************************************************)
EXTENDS Naturals, FiniteSets

CONSTANTS
    Node,       \* the addresses malloc can give a queue node
    Thread,     \* the threads that build trees
    Null,
    Prealloc    \* the nodes a builder asks for in advance (32 in the code)

ASSUME PoolAssumption == Null \notin Node /\ Prealloc \in Nat

VARIABLES
    next,       \* the next field of every node
    free,       \* g_qnode_pool_free_list
    count,      \* g_qnode_pool_alloc_count
    live,       \* the addresses malloc has given and free has not taken back
    holds,      \* the nodes each thread has been given
    pc,         \* run | init (has read a count of zero) | fields
    node        \* the node a thread is initialising outside the lock

vars == <<next, free, count, live, holds, pc, node>>

(* The nodes reached from h through next.                                  *)
From(h) ==
    {n \in Node : \A S \in SUBSET Node :
        (/\ h # Null => h \in S
         /\ \A m \in S : next[m] # Null => next[m] \in S) => n \in S}

Listed == From(free)

(* k distinct fresh addresses.                                             *)
Fresh(k) ==
    {s \in [1 .. k -> Node \ live] : \A i, j \in 1 .. k : s[i] = s[j] => i = j}

(* Every node of s points to the one before it.                            *)
Chained(s, k) ==
    [n \in Node |->
        IF \E i \in 1 .. k : s[i] = n
        THEN LET i == CHOOSE i \in 1 .. k : s[i] = n
             IN  IF i = 1 THEN Null ELSE s[i - 1]
        ELSE next[n]]

-----------------------------------------------------------------------------
Init ==
    /\ next = [n \in Node |-> Null]
    /\ free = Null
    /\ count = 0
    /\ live = {}
    /\ holds = [t \in Thread |-> {}]
    /\ pc = [t \in Thread |-> "run"]
    /\ node = [t \in Thread |-> Null]

(* A build starts: it reads the count and releases the lock.               *)
TestCount(t) ==
    /\ pc[t] = "run"
    /\ pc' = [pc EXCEPT ![t] = IF count <= 0 THEN "init" ELSE "run"]
    /\ UNCHANGED <<next, free, count, live, holds, node>>

(* The loop of init_qnode_pool stops early when malloc fails.              *)
InitPool(t) ==
    /\ pc[t] = "init"
    /\ \E k \in 0 .. Prealloc : \E s \in Fresh(k) :
          /\ next' = Chained(s, k)
          /\ free' = IF k = 0 THEN Null ELSE s[k]
          /\ count' = k
          /\ live' = live \cup {s[i] : i \in 1 .. k}
    /\ pc' = [pc EXCEPT ![t] = "run"]
    /\ UNCHANGED <<holds, node>>

(* Faulty variant: the head stays on the list.                             *)
PopKeepsHead(n) ==
    /\ n = free
    /\ UNCHANGED <<free, count, live>>

(* The locked part of pool_alloc_qnode: the head of the free list, or a    *)
(* node from malloc (when that fails nothing changes).                     *)
Pop(n) ==
    /\ n = free
    /\ free' = next[n]
    /\ UNCHANGED <<count, live>>

Malloc(n) ==
    /\ free = Null
    /\ n \notin live
    /\ live' = live \cup {n}
    /\ count' = count + 1
    /\ UNCHANGED free

Alloc(t, n) ==
    /\ pc[t] = "run"
    /\ Pop(n) \/ Malloc(n)
    /\ holds' = [holds EXCEPT ![t] = @ \cup {n}]
    /\ node' = [node EXCEPT ![t] = n]
    /\ pc' = [pc EXCEPT ![t] = "fields"]
    /\ UNCHANGED next

(* The part of pool_alloc_qnode after the unlock.                          *)
SetFields(t) ==
    /\ pc[t] = "fields"
    /\ next' = [next EXCEPT ![node[t]] = Null]
    /\ node' = [node EXCEPT ![t] = Null]
    /\ pc' = [pc EXCEPT ![t] = "run"]
    /\ UNCHANGED <<free, count, live, holds>>

(* A thread links one of its nodes into its own queue.                     *)
Link(t, n, m) ==
    /\ pc[t] = "run"
    /\ next' = [next EXCEPT ![n] = m]
    /\ UNCHANGED <<free, count, live, holds, pc, node>>

(* Faulty variant: the head is moved before the link is set.               *)
PushSwapped(n) ==
    /\ free' = n
    /\ next' = [next EXCEPT ![n] = n]
    /\ UNCHANGED count

(* pool_free_qnode; the MHT node it deletes before the lock is not shared. *)
Push(n) ==
    /\ next' = [next EXCEPT ![n] = free]
    /\ free' = n
    /\ UNCHANGED count

Free(t, n) ==
    /\ pc[t] = "run"
    /\ Push(n)
    /\ holds' = [holds EXCEPT ![t] = @ \ {n}]
    /\ UNCHANGED <<live, pc, node>>

(* pool_cleanup_qnode, called as its comment asks: when no thread uses the *)
(* pool any more.                                                          *)
CountAfterCleanup == 0

Cleanup ==
    /\ \A t \in Thread : holds[t] = {} /\ pc[t] = "run"
    /\ live' = live \ Listed
    /\ free' = Null
    /\ count' = CountAfterCleanup
    /\ UNCHANGED <<next, holds, pc, node>>

Next ==
    \/ \E t \in Thread :
          \/ TestCount(t) \/ InitPool(t) \/ SetFields(t)
          \/ \E n \in Node : Alloc(t, n)
          \/ \E n \in holds[t] : Free(t, n)
          \/ \E n \in holds[t], m \in holds[t] \cup {Null} : Link(t, n, m)
    \/ Cleanup

Spec == Init /\ [][Next]_vars

-----------------------------------------------------------------------------
(* Every variable has its type; the count never wraps below zero, although *)
(* the pool may be initialised again while nodes are in use.               *)
TypeOK ==
    /\ next \in [Node -> Node \cup {Null}]
    /\ free \in Node \cup {Null}
    /\ count \in Nat
    /\ live \subseteq Node
    /\ holds \in [Thread -> SUBSET Node]
    /\ pc \in [Thread -> {"run", "init", "fields"}]
    /\ node \in [Thread -> Node \cup {Null}]

(* A node has one owner, whatever the order of the threads' steps: what a  *)
(* thread has been given is live, is no other thread's, and is not on the  *)
(* free list (qnode_pool.h calls the pool's functions thread safe).        *)
OneOwner ==
    \A t \in Thread :
        /\ holds[t] \subseteq live \ Listed
        /\ \A u \in Thread \ {t} : holds[t] \cap holds[u] = {}

(* The free list ends: no node on it is reached again from its successor,  *)
(* although threads write the next fields of their own nodes without the   *)
(* lock.                                                                   *)
FreeListEnds == \A n \in Listed : n \notin From(next[n])

(* The count is the number of nodes in use and on the free list, as the    *)
(* comment of pool_qnode_allocated_count says.                             *)
CountTells ==
    count = Cardinality(UNION {holds[t] : t \in Thread} \cup Listed)

(* The pool implements the abstract one: every node it hands out is one    *)
(* that no thread has, and only its user's free takes it back.             *)
P == INSTANCE NodePool WITH User <- Thread

NodesHandedOutOnce == P!Spec
=============================================================================
