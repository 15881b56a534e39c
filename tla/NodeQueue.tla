----------------------------- MODULE NodeQueue -----------------------------
(***************************************************************************)
(* What the queue of nodes promises: a sequence that grows at its end and  *)
(* gives up its first node, its second one, or a node its caller names.    *)
(***************************************************************************)
EXTENDS Sequences, SequencesExt

CONSTANTS Node, None

VARIABLES
    items,      \* the nodes in the queue, first to last
    asked,      \* what the last removal was asked for
    out         \* the node the last removal returned

Init ==
    /\ items = <<>>
    /\ asked = None
    /\ out = None

Put(n) ==
    /\ n \notin ToSet(items)
    /\ items' = Append(items, n)
    /\ UNCHANGED <<asked, out>>

Take(i, request) ==
    /\ i \in DOMAIN items
    /\ items' = RemoveAt(items, i)
    /\ out' = items[i]
    /\ asked' = request

TakeGiven == \E i \in DOMAIN items : Take(i, items[i])

Next ==
    \/ \E n \in Node : Put(n)
    \/ Take(1, "first")
    \/ Take(2, "second")
    \/ TakeGiven

Spec == Init /\ [][Next]_<<items, asked, out>>
=============================================================================
