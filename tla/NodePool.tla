------------------------------ MODULE NodePool ------------------------------
(***************************************************************************)
(* What the pool of queue nodes promises: a node that is handed out is one *)
(* nobody has, and it stays its user's until that user gives it back.      *)
(***************************************************************************)
CONSTANTS
    Node,       \* the addresses of queue nodes
    User        \* those who ask for nodes

VARIABLE holds  \* the nodes each user has

Init == holds = [u \in User |-> {}]

Alloc(u, n) ==
    /\ \A v \in User : n \notin holds[v]
    /\ holds' = [holds EXCEPT ![u] = @ \cup {n}]

Free(u, n) ==
    /\ n \in holds[u]
    /\ holds' = [holds EXCEPT ![u] = @ \ {n}]

Next == \E u \in User, n \in Node : Alloc(u, n) \/ Free(u, n)

Spec == Init /\ [][Next]_holds
=============================================================================
