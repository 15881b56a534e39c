------------------------------ MODULE MHTBuild ------------------------------
(***************************************************************************)
(* buildMHTFile_fv: create a file, read the pages of a dataset one by one, *)
(* build the tree through the queue, add padding leaves up to a complete   *)
(* binary tree, write the root block and last the header.  One process may *)
(* build several files, and may die while it builds one.                   *)
(***************************************************************************)
EXTENDS MHTQueue

CONSTANT
    Inputs      \* the datasets: nonempty sequences of [pn, h]

VARIABLES
    todo,       \* the pages not read yet
    built       \* the input of the finished build, or NoInput

vars == <<file, hdr, stage, q, at, cbd, hlev, wpos, glob, todo, built>>

NoInput == <<>>

(* A page of a dataset: its index and the digest of its data.              *)
InputPage == [pn : 0 .. NoPage, h : Hash]

ASSUME BuildAssumption ==
    \A in \in Inputs : in \in Seq(InputPage) /\ in # <<>>

Init ==
    /\ file = [p \in Pos |-> ZeroBlock]
    /\ hdr = [rno |-> NoPos, fslo |-> NoPos]
    /\ stage = "idle" /\ q = <<>> /\ at = 0 /\ cbd = 0 /\ hlev = NoPad
    /\ wpos = 1 /\ glob = NoGlobals
    /\ todo = <<>> /\ built = NoInput

(* Create (and truncate) the file and clear the queue; of the globals only *)
(* g_isEncounterFSLO is reset.                                             *)
StartBuild(input) ==
    /\ stage = "idle"
    /\ file' = [p \in Pos |-> ZeroBlock]
    /\ hdr' = [rno |-> NoPos, fslo |-> NoPos]
    /\ q' = <<>> /\ at' = 0 /\ cbd' = 0 /\ hlev' = NoPad /\ wpos' = 1
    /\ glob' = [glob EXCEPT !.enc = FALSE]
    /\ stage' = "read"
    /\ todo' = input /\ built' = input

(* Read a page and enqueue its leaf: a page numbered UNASSIGNED_INDEX is   *)
(* marked as supplementary (makeQNode), never as a zero node.              *)
ReadPage ==
    /\ stage = "read" /\ todo # <<>>
    /\ Enqueue(MakeQNode(Head(todo).pn, Head(todo).h, 0, Head(todo).pn >= NoPage, FALSE))
    /\ todo' = Tail(todo)
    /\ UNCHANGED <<file, hdr, cbd, hlev, wpos, glob, built>>

(* Faulty variant: the tree is never padded.                               *)
EndOfInputUnpadded ==
    /\ stage = "read" /\ todo = <<>>
    /\ stage' = "root"
    /\ UNCHANGED <<file, hdr, q, at, cbd, hlev, wpos, glob, todo, built>>

(* The input is over: a queue of more than one node needs padding.         *)
EndOfInput ==
    /\ stage = "read" /\ todo = <<>>
    /\ IF Len(q) > 1 THEN BeginPadding ELSE stage' = "root" /\ UNCHANGED hlev
    /\ UNCHANGED <<file, hdr, q, at, cbd, wpos, glob, todo, built>>

WriteHeader ==
    /\ stage = "root" /\ q = <<>>
    /\ hdr' = [rno |-> glob.rno, fslo |-> glob.fslo]
    /\ stage' = "idle"
    /\ UNCHANGED <<file, q, at, cbd, hlev, wpos, glob, todo, built>>

(* The process dies in a build; the next one starts with fresh globals.    *)
Crash ==
    /\ stage # "idle"
    /\ stage' = "idle" /\ q' = <<>> /\ at' = 0 /\ cbd' = 0 /\ hlev' = NoPad
    /\ wpos' = 1 /\ glob' = NoGlobals
    /\ todo' = <<>> /\ built' = NoInput
    /\ UNCHANGED <<file, hdr>>

Step ==
    \/ ReadPage \/ EndOfInput \/ WriteHeader
    \/ QueueStep /\ UNCHANGED <<todo, built>>

Next == (\E input \in Inputs : StartBuild(input)) \/ Step \/ Crash

Spec == Init /\ [][Next]_vars

FairSpec == Spec /\ WF_vars(Step)

-----------------------------------------------------------------------------
TypeOK ==
    /\ DiskTypeOK /\ QueueTypeOK
    /\ stage \in {"idle", "read", "walk", "flush", "pad", "root"}
    /\ todo \in Seq(InputPage)

Done == stage = "idle" /\ built # NoInput

(* Every build ends, and leaves a header that names a root.                *)
BuildEnds == (stage # "idle") ~> (stage = "idle")
=============================================================================
