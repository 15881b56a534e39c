--------------------------- MODULE MHTBuildProofs ---------------------------
(***************************************************************************)
(* buildMHTFile_fv, for datasets of any length with any pages and hashes,  *)
(* and any number of builds and crashes: the queue's inductive invariant   *)
(* holds in every reachable state, and with it the properties of MHTBuild. *)
(*                                                                         *)
(* The heart of it: a node waiting for a parent ("open") is never lower    *)
(* than the tail, the open nodes have falling levels, and every other node *)
(* is below an open one further back.  So when the walk meets a node of    *)
(* the tail's level, that node is open, and giving it a parent overwrites  *)
(* no link that was recorded before.                                       *)
(***************************************************************************)
EXTENDS MHTBuild, MHTNodeProofs

Open(i) == q[i].pos = 0

(* Levels fall along the open nodes among the first n.                     *)
Falling(n) == \A i, j \in 1 .. n : i < j /\ Open(i) /\ Open(j) => q[i].lvl > q[j].lvl

(* Among the first n nodes, node i is below an open one further back.      *)
Below(i, n) == \E k \in i + 1 .. n : Open(k) /\ q[k].lvl > q[i].lvl

(* Between walks.                                                          *)
Settled ==
    /\ Falling(Len(q))
    /\ \A i \in 1 .. Len(q) : Open(i) \/ Below(i, Len(q))

(* In a walk: the nodes before index at are as they were before the leaf,  *)
(* the nodes it has passed are below the tail.                             *)
Walking ==
    /\ at \in 1 .. Len(q)
    /\ Open(Len(q))
    /\ Falling(at - 1)
    /\ \A i \in 1 .. at - 1 :
          IF Open(i) THEN q[i].lvl >= q[Len(q)].lvl
                     ELSE q[i].lvl < q[Len(q)].lvl \/ Below(i, at - 1)
    /\ \A i \in at .. Len(q) - 1 : ~Open(i) /\ q[i].lvl < q[Len(q)].lvl
    /\ cbd \in {0, q[Len(q)].lvl}
    /\ Open(1) \/ (at = 1 /\ cbd > 0)

(* All nodes but the tail are about to be written.                         *)
Draining ==
    /\ cbd > 0 /\ cbd = q[Len(q)].lvl
    /\ \A i \in 1 .. Len(q) - 1 : q[i].lvl < cbd

StageInv ==
    /\ stage \in {"read", "pad", "root"} => Settled /\ (q # <<>> => Open(1))
    /\ stage \in {"read", "pad"} => cbd = 0
    /\ stage = "walk" => Walking
    /\ stage = "flush" => /\ q # <<>> /\ Settled
                          /\ cbd \in {0, q[Len(q)].lvl}
                          /\ Open(1) \/ Draining

(* While padding, the head keeps the level it had at the start until it    *)
(* gets a parent, which leaves a single node.                              *)
PadInv ==
    /\ stage = "read" => hlev = NoPad
    /\ stage = "pad" => /\ hlev # NoPad /\ q # <<>>
                        /\ q[1].lvl = hlev \/ (Len(q) = 1 /\ q[1].lvl > hlev)
    /\ stage = "walk" /\ hlev # NoPad => q[1].lvl = hlev /\ Len(q) > 1
    /\ stage = "flush" /\ hlev # NoPad =>
          q[1].lvl = hlev \/ (Draining /\ q[Len(q)].lvl > hlev)
    /\ stage = "root" => Len(q) <= 1

QInv ==
    /\ DiskTypeOK /\ QueueTypeOK
    /\ wpos \in 1 .. MaxPos + 1
    /\ StageInv
    /\ PadInv
    /\ StreamConsistent

-----------------------------------------------------------------------------
(* Linking a child changes its parent fields only.                         *)
LEMMA LinkedFacts ==
    ASSUME NEW c \in QNode, NEW p \in QNode, NEW d \in Int
    PROVE  LET n == Linked(c, p, d)
           IN  /\ n \in QNode
               /\ n.pos = d /\ n.lvl = c.lvl /\ n.h = c.h
               /\ n.lcos = c.lcos /\ n.rcos = c.rcos
BY DEF Linked, QNode

(* Writing a node to the file keeps what the stream says about it.         *)
LEMMA ToBlockFacts ==
    ASSUME NEW n \in QNode, NEW mark \in Mark
    PROVE  LET b == ToBlock(n, mark)
           IN  /\ b \in Block
               /\ b.pos = n.pos /\ b.lvl = n.lvl /\ b.h = n.h
               /\ b.lcos = n.lcos /\ b.rcos = n.rcos
BY DEF ToBlock, QNode, Block

-----------------------------------------------------------------------------
(* One lemma per action of the queue.                                      *)

(* What the type invariant says of the queue.                              *)
LEMMA QueueFacts ==
    ASSUME QueueTypeOK
    PROVE  /\ q \in Seq(QNode) /\ Len(q) \in Nat
           /\ \A i \in 1 .. Len(q) : /\ q[i] \in QNode
                                    /\ q[i].lvl \in Nat /\ q[i].pos \in Int
           /\ at \in Nat /\ cbd \in Nat /\ hlev \in Nat \cup {NoPad} /\ wpos \in Nat
<1>1. q \in Seq(QNode)
  BY DEF QueueTypeOK
<1>2. Len(q) \in Nat /\ \A i \in 1 .. Len(q) : q[i] \in QNode
  BY <1>1
<1>3. \A n \in QNode : n.lvl \in Nat /\ n.pos \in Int
  BY DEF QNode
<1>. QED BY <1>1, <1>2, <1>3 DEF QueueTypeOK

(* The stream does not change when neither file nor queue does.            *)
LEMMA StreamFrame ==
    ASSUME StreamConsistent, UNCHANGED <<file, q, wpos>>
    PROVE  StreamConsistent'
BY SMTT(20) DEF StreamConsistent, StreamEnd, Stream, JoinsChildren

(* Passing a node that has its parent.                                     *)
LEMMA SkipInv == ASSUME QInv, SkipStep PROVE QInv'
<1>. USE DEF QInv
<1>1. StreamConsistent'
  BY StreamFrame DEF SkipStep
<1>2. DiskTypeOK' /\ QueueTypeOK' /\ (wpos \in 1 .. MaxPos + 1)'
  BY DEF SkipStep, DiskTypeOK, QueueTypeOK
<1>3. Walking'
  <2>1. Walking /\ at \in 2 .. Len(q) /\ q[at - 1].lvl < q[Len(q)].lvl
    BY DEF SkipStep, StageInv, Walking, Last
  <2>2. q' = q /\ cbd' = cbd /\ at' = at - 1
    BY DEF SkipStep
  <2>3. Len(q) \in Nat /\ \A i \in 1 .. Len(q) : q[i].lvl \in Nat
    BY QueueFacts
  <2>4. ~Open(at - 1)
    BY <2>1, <2>3 DEF Walking
  <2>5. \A i \in 1 .. at - 2 : Below(i, at - 1) => Below(i, at - 2)
    BY <2>1, <2>4 DEF Below
  <2>6. /\ at' \in 1 .. Len(q')
        /\ cbd' \in {0, q'[Len(q')].lvl}
        /\ Open(Len(q))'
    <3>1. cbd \in {0, q[Len(q)].lvl} /\ Open(Len(q))
      BY <2>1 DEF Walking
    <3>. QED BY <2>1, <2>2, <2>3, <3>1 DEF Open
  <2>7. Falling(at - 1)'
    BY <2>1, <2>2, <2>3 DEF Walking, Falling, Open
  <2>8. ASSUME NEW i \in 1 .. at' - 1
        PROVE  IF Open(i)' THEN q'[i].lvl >= q'[Len(q')].lvl
               ELSE q'[i].lvl < q'[Len(q')].lvl \/ Below(i, at - 1)'
    <3>1. i \in 1 .. at - 2 /\ (Open(i)' <=> Open(i))
      BY <2>1, <2>2, <2>3 DEF Open
    <3>2. IF Open(i) THEN q[i].lvl >= q[Len(q)].lvl
          ELSE q[i].lvl < q[Len(q)].lvl \/ Below(i, at - 1)
      BY <2>1, <2>3, <3>1 DEF Walking
    <3>3. Below(i, at - 2) => Below(i, at - 1)'
      BY <2>1, <2>2, <2>3 DEF Below, Open
    <3>. QED BY <2>2, <2>5, <3>1, <3>2, <3>3
  <2>9. ASSUME NEW i \in at' .. Len(q') - 1
        PROVE  ~Open(i)' /\ q'[i].lvl < q'[Len(q')].lvl
    <3>1. CASE i = at - 1
      BY <2>1, <2>2, <2>4, <3>1 DEF Open
    <3>2. CASE i # at - 1
      BY <2>1, <2>2, <2>3, <3>2 DEF Walking, Open
    <3>. QED BY <3>1, <3>2
  <2>10. (Open(1) \/ (at = 1 /\ cbd > 0))'
    BY <2>1, <2>2 DEF Walking, Open
  <2>. QED BY <2>6, <2>7, <2>8, <2>9, <2>10 DEF Walking
<1>4. StageInv' /\ PadInv'
  BY <1>3 DEF SkipStep, StageInv, PadInv
<1>. QED BY <1>1, <1>2, <1>4

(* Meeting the queue's header or a higher node.                            *)
LEMMA WalkEndInv == ASSUME QInv, WalkEnd PROVE QInv'
<1>. USE DEF QInv
<1>1. StreamConsistent'
  BY StreamFrame DEF WalkEnd
<1>2. DiskTypeOK' /\ QueueTypeOK' /\ (wpos \in 1 .. MaxPos + 1)'
  BY DEF WalkEnd, DiskTypeOK, QueueTypeOK
<1>3. Walking /\ (at > 1 => q[at - 1].lvl > q[Len(q)].lvl) /\ UNCHANGED <<q, cbd, hlev>>
  BY DEF WalkEnd, StageInv, Last
<1>4. /\ Len(q) \in Nat /\ at \in 1 .. Len(q)
      /\ \A i \in 1 .. Len(q) : q[i].lvl \in Nat
      /\ hlev \in Nat \cup {NoPad}
  BY <1>3, QueueFacts DEF Walking
<1>5. at > 1 => Open(at - 1)
  BY <1>3, <1>4 DEF Walking, Below
<1>6. \A i \in 1 .. at - 1 : Open(i) => q[i].lvl > q[Len(q)].lvl
  <2>. SUFFICES ASSUME NEW i \in 1 .. at - 1, Open(i) PROVE q[i].lvl > q[Len(q)].lvl
    OBVIOUS
  <2>1. at > 1 /\ q[at - 1].lvl > q[Len(q)].lvl /\ Open(at - 1)
    BY <1>3, <1>4, <1>5
  <2>2. Falling(at - 1)
    BY <1>3 DEF Walking
  <2>3. i < at - 1 => q[i].lvl > q[at - 1].lvl
    BY <1>4, <2>1, <2>2 DEF Falling
  <2>4. q[i].lvl \in Nat /\ q[at - 1].lvl \in Nat /\ q[Len(q)].lvl \in Nat
    BY <1>4, <2>1
  <2>. QED BY <1>4, <2>1, <2>3, <2>4
<1>7. Falling(Len(q))
  BY <1>3, <1>4, <1>6 DEF Walking, Falling
<1>8. \A i \in 1 .. Len(q) : Open(i) \/ Below(i, Len(q))
  <2>. SUFFICES ASSUME NEW i \in 1 .. Len(q), ~Open(i) PROVE Below(i, Len(q))
    OBVIOUS
  <2>1. i # Len(q)
    BY <1>3 DEF Walking
  <2>2. CASE q[i].lvl < q[Len(q)].lvl
    <3>1. Open(Len(q))
      BY <1>3 DEF Walking
    <3>2. Len(q) \in i + 1 .. Len(q)
      BY <1>4, <2>1
    <3>. QED BY <2>2, <3>1, <3>2 DEF Below
  <2>3. CASE i < at /\ Below(i, at - 1)
    BY <1>4, <2>3 DEF Below
  <2>4. i \in 1 .. at - 1 \/ i \in at .. Len(q) - 1
    BY <1>4, <2>1
  <2>5. CASE i \in 1 .. at - 1
    <3>1. q[i].lvl < q[Len(q)].lvl \/ Below(i, at - 1)
      BY <1>3, <2>5 DEF Walking
    <3>2. i < at
      BY <1>4, <2>5
    <3>. QED BY <2>2, <2>3, <3>1, <3>2
  <2>6. CASE i \in at .. Len(q) - 1
    <3>1. q[i].lvl < q[Len(q)].lvl
      BY <1>3, <2>6 DEF Walking
    <3>. QED BY <2>2, <3>1
  <2>. QED BY <2>4, <2>5, <2>6
<1>9. ~Open(1) => Draining
  BY <1>3, <1>4 DEF Walking, Draining
<1>10. StageInv'
  BY <1>3, <1>4, <1>7, <1>8, <1>9
     DEF WalkEnd, StageInv, Settled, Falling, Below, Open, Draining, Walking
<1>11. PadInv'
  BY <1>3, <1>4, <1>9 DEF WalkEnd, PadInv, Draining
<1>. QED BY <1>1, <1>2, <1>10, <1>11

(* The stream stays consistent when its nodes keep what the predicate      *)
(* reads of them and only leaves are added.                                *)
LEMMA StreamKept ==
    ASSUME StreamConsistent,
           StreamEnd \in Nat, StreamEnd' \in Nat,
           \A s \in 1 .. StreamEnd :
              /\ Stream(s)'.lvl = Stream(s).lvl /\ Stream(s)'.h = Stream(s).h
              /\ Stream(s)'.lcos = Stream(s).lcos /\ Stream(s)'.rcos = Stream(s).rcos
              /\ Stream(s)'.pos = Stream(s).pos,
           \A s \in StreamEnd + 1 .. StreamEnd' : Stream(s)'.lvl = 0
    PROVE  StreamConsistent'
<1>. SUFFICES ASSUME NEW s \in 1 .. StreamEnd', Stream(s)'.lvl > 0
              PROVE  JoinsChildren(s)'
  BY DEF StreamConsistent
<1>1. s \in 1 .. StreamEnd
  OBVIOUS
<1>2. JoinsChildren(s)
  BY <1>1 DEF StreamConsistent
<1>. DEFINE l == s + Stream(s).lcos
            r == s + Stream(s).rcos
<1>3. l \in 1 .. s - 1 /\ r \in 1 .. s - 1 /\ l < r
  BY <1>2 DEF JoinsChildren
<1>4. l \in 1 .. StreamEnd /\ r \in 1 .. StreamEnd
  BY <1>1, <1>3
<1>5. Stream(s)'.lcos = Stream(s).lcos /\ Stream(s)'.rcos = Stream(s).rcos
  BY <1>1
<1>. QED BY <1>1, <1>2, <1>3, <1>4, <1>5 DEF JoinsChildren

(* A leaf at the tail starts a walk (ReadPage, PadStep).                   *)
LEMMA EnqueueInv ==
    ASSUME QInv, NEW leaf \in QNode, leaf.lvl = 0, leaf.pos = 0,
           stage \in {"read", "pad"},
           hlev # NoPad => q # <<>> /\ q[1].lvl = hlev,
           Enqueue(leaf), UNCHANGED <<file, hdr, cbd, hlev, wpos, glob>>
    PROVE  QInv'
<1>. USE DEF QInv
<1>1. PICK n \in Nat : n = Len(q)
  BY QueueFacts
<1>2. /\ q \in Seq(QNode) /\ wpos \in Nat \ {0}
      /\ \A i \in 1 .. n : q[i] \in QNode /\ q[i].lvl \in Nat
  BY <1>1, QueueFacts
<1>3. q' = Append(q, leaf) /\ at' = n + 1 /\ stage' = "walk"
  BY <1>1 DEF Enqueue
<1>4. /\ Len(q') = n + 1 /\ q'[n + 1] = leaf /\ q' \in Seq(QNode)
      /\ \A i \in 1 .. n : q'[i] = q[i]
  BY <1>1, <1>2, <1>3
<1>5. DiskTypeOK' /\ QueueTypeOK' /\ (wpos \in 1 .. MaxPos + 1)'
  BY <1>3, <1>4 DEF DiskTypeOK, QueueTypeOK
<1>6. StreamConsistent'
  <2>0. wpos - 1 + n \in Nat /\ StreamEnd = wpos - 1 + n
    BY <1>1, <1>2 DEF StreamEnd
  <2>1. PICK e \in Nat : e = StreamEnd /\ e = wpos - 1 + n
    BY <2>0
  <2>2. StreamEnd' = e + 1
    <3>1. StreamEnd' = wpos' - 1 + Len(q')
      BY DEF StreamEnd
    <3>2. wpos' = wpos /\ Len(q') = n + 1
      BY <1>4
    <3>. QED BY ONLY <1>2, <2>1, <3>1, <3>2
  <2>3. \A s \in 1 .. e : Stream(s)' = Stream(s)
    BY <1>2, <1>4, <2>1 DEF Stream
  <2>4. \A s \in e + 1 .. e + 1 : Stream(s)' = leaf
    BY <1>2, <1>4, <2>1 DEF Stream
  <2>. QED BY <2>1, <2>2, <2>3, <2>4, StreamKept
<1>7. Falling(n) /\ (\A i \in 1 .. n : Open(i) \/ Below(i, n)) /\ cbd = 0
  BY <1>1 DEF StageInv, Settled
<1>8. n > 0 => Open(1)
  BY <1>1 DEF StageInv
<1>9. Walking'
  <2>1. \A i \in 1 .. n : Open(i)' = Open(i)
    BY <1>4 DEF Open
  <2>2. (\A i \in 1 .. n : Open(i) \/ Below(i, n))'
    <3>1. SUFFICES ASSUME NEW i \in 1 .. n, Open(i) \/ Below(i, n)
                   PROVE  Open(i)' \/ Below(i, n)'
      BY <1>7
    <3>2. CASE Open(i)
      BY <2>1, <3>2
    <3>3. CASE Below(i, n)
      <4>1. PICK k \in i + 1 .. n : Open(k) /\ q[k].lvl > q[i].lvl
        BY <3>3 DEF Below
      <4>2. k \in 1 .. n
        OBVIOUS
      <4>3. Open(k)' /\ q'[k] = q[k] /\ q'[i] = q[i]
        BY <1>4, <2>1, <4>1, <4>2
      <4>. QED BY <4>1, <4>3 DEF Below
    <3>. QED BY <3>1, <3>2, <3>3
  <2>3. Falling(n)'
    BY <1>2, <1>4, <1>7, <2>1 DEF Falling
  <2>4. Open(n + 1)'
    BY <1>4 DEF Open
  <2>5. Open(1)'
    BY <1>1, <1>4, <1>8, <2>1, <2>4 DEF Open
  <2>6. (at \in 1 .. Len(q) /\ Open(Len(q)) /\ Falling(at - 1))'
    BY <1>3, <1>4, <2>3, <2>4 DEF Falling, Open
  <2>7. (\A i \in 1 .. at - 1 :
            IF Open(i) THEN q[i].lvl >= q[Len(q)].lvl ELSE Below(i, at - 1))'
    BY <1>2, <1>3, <1>4, <2>2 DEF Below, Open
  <2>. QED BY <1>3, <1>4, <1>7, <2>5, <2>6, <2>7 DEF Walking
<1>10. StageInv'
  BY <1>3, <1>9 DEF StageInv
<1>11. PadInv'
  BY <1>1, <1>2, <1>3, <1>4 DEF PadInv
<1>. QED BY <1>5, <1>6, <1>10, <1>11

(* A padding leaf.                                                         *)
LEMMA PadStepInv == ASSUME QInv, PadStep PROVE QInv'
<1>1. PadNode \in QNode /\ PadNode.lvl = 0 /\ PadNode.pos = 0
  <2>1. ZeroHash \in Hash /\ NoPage \in Nat
    BY DiskAssumption DEF ZeroHash, Hash, Byte
  <2>2. PadNode \in QNode
    BY <2>1, MakeQNodeType DEF PadNode
  <2>. QED BY <2>2 DEF PadNode, MakeQNode
<1>2. q # <<>> /\ q[1].lvl = hlev
  <2>1. stage = "pad" /\ q[Len(q)].lvl <= hlev
    BY DEF PadStep, Last
  <2>2. hlev \in Nat /\ Len(q) \in Nat /\ \A i \in 1 .. Len(q) : q[i].lvl \in Nat
    BY <2>1, QueueFacts DEF QInv, PadInv
  <2>3. q # <<>> /\ (q[1].lvl = hlev \/ (Len(q) = 1 /\ q[1].lvl > hlev))
    BY <2>1 DEF QInv, PadInv
  <2>. QED BY <2>1, <2>2, <2>3
<1>. QED BY <1>1, <1>2, EnqueueInv DEF PadStep

(* The padding is complete.                                                *)
LEMMA PadEndInv == ASSUME QInv, PadEnd PROVE QInv'
<1>. USE DEF QInv
<1>1. StreamConsistent'
  BY StreamFrame DEF PadEnd
<1>2. DiskTypeOK' /\ QueueTypeOK' /\ (wpos \in 1 .. MaxPos + 1)'
  BY DEF PadEnd, DiskTypeOK, QueueTypeOK
<1>3. stage = "pad" /\ q[Len(q)].lvl > hlev /\ UNCHANGED <<q, hlev>>
  BY DEF PadEnd, Last
<1>4. Settled /\ Open(1) /\ q # <<>> /\ (q[1].lvl = hlev \/ Len(q) = 1)
  BY <1>3 DEF StageInv, PadInv
<1>5. Len(q) \in Nat /\ Len(q) > 0
  BY <1>4, QueueFacts
<1>6. \A i \in 1 .. Len(q) : q[i].lvl \in Nat
  BY QueueFacts
<1>7. Open(Len(q))
  BY <1>4, <1>5 DEF Settled, Below
<1>8. ASSUME Len(q) > 1 PROVE FALSE
  <2>1. q[1].lvl > q[Len(q)].lvl
    BY <1>4, <1>5, <1>7, <1>8 DEF Settled, Falling
  <2>. QED BY <1>3, <1>4, <1>5, <1>6, <1>8, <2>1, QueueFacts
<1>9. StageInv' /\ PadInv'
  BY <1>3, <1>4, <1>5, <1>8 DEF PadEnd, StageInv, PadInv, Settled, Falling, Below, Open
<1>. QED BY <1>1, <1>2, <1>9

(* Nothing is left below the last combined node.                           *)
LEMMA FlushEndInv == ASSUME QInv, FlushEnd PROVE QInv'
<1>. USE DEF QInv
<1>1. StreamConsistent'
  BY StreamFrame DEF FlushEnd
<1>2. DiskTypeOK' /\ QueueTypeOK' /\ (wpos \in 1 .. MaxPos + 1)'
  BY DEF FlushEnd, DiskTypeOK, QueueTypeOK
<1>3. /\ stage = "flush" /\ ~MustFlush /\ UNCHANGED <<q, hlev>> /\ cbd' = 0
      /\ stage' = IF hlev = NoPad THEN "read" ELSE "pad"
  BY DEF FlushEnd
<1>4. q # <<>> /\ Settled /\ (Open(1) \/ Draining)
  BY <1>3 DEF StageInv
<1>5. Len(q) \in Nat /\ Len(q) > 0 /\ \A i \in 1 .. Len(q) : q[i].lvl \in Nat
  BY <1>4, QueueFacts
<1>6. Open(Len(q))
  BY <1>4, <1>5 DEF Settled, Below
<1>7. Draining => Len(q) = 1
  <2>. SUFFICES ASSUME Draining, Len(q) # 1 PROVE MustFlush
    BY <1>3
  <2>1. PICK n \in Nat : n = Len(q)
    BY <1>5
  <2>2. n > 0 /\ n # 1
    BY <1>5, <2>1
  <2>3. 1 \in 1 .. n - 1
    BY <2>2
  <2>. QED BY <2>1, <2>3 DEF Draining, MustFlush
<1>8. Open(1)
  BY <1>4, <1>6, <1>7
<1>9. StageInv'
  BY <1>3, <1>4, <1>8 DEF StageInv, Settled, Falling, Below, Open
<1>10. hlev # NoPad => q[1].lvl = hlev \/ (Len(q) = 1 /\ q[1].lvl > hlev)
  BY <1>3, <1>7 DEF PadInv
<1>11. PadInv'
  BY <1>3, <1>4, <1>10 DEF PadInv
<1>. QED BY <1>1, <1>2, <1>9, <1>11

(* Writing the head moves it from the queue to the file: the stream is the *)
(* same.                                                                   *)
LEMMA WriteHead ==
    ASSUME QInv, q # <<>>, wpos \in Pos, NEW mark \in Mark,
           file' = [file EXCEPT ![wpos] = ToBlock(q[1], mark)],
           q' = Tail(q), wpos' = wpos + 1
    PROVE  /\ StreamConsistent'
           /\ file' \in [Pos -> Block] /\ q' \in Seq(QNode)
           /\ wpos' \in 1 .. MaxPos + 1
           /\ Len(q') = Len(q) - 1
           /\ \A i \in 1 .. Len(q') : q'[i] = q[i + 1]
<1>. USE DEF QInv
<1>1. PICK n \in Nat : n = Len(q)
  BY QueueFacts
<1>2. n > 0 /\ q \in Seq(QNode) /\ q[1] \in QNode
  BY <1>1, QueueFacts
<1>3. q' \in Seq(QNode) /\ Len(q') = n - 1 /\ \A i \in 1 .. n - 1 : q'[i] = q[i + 1]
  BY <1>1, <1>2
<1>4. PICK w \in 1 .. MaxPos : w = wpos
  BY DiskAssumption DEF Pos
<1>. DEFINE b == ToBlock(q[1], mark)
<1>5. /\ b \in Block /\ b.pos = q[1].pos /\ b.lvl = q[1].lvl /\ b.h = q[1].h
      /\ b.lcos = q[1].lcos /\ b.rcos = q[1].rcos
  BY <1>2, ToBlockFacts
<1>6. file \in [Pos -> Block]
  BY DEF DiskTypeOK
<1>. HIDE DEF b
<1>7. file' \in [Pos -> Block] /\ file'[w] = b /\ \A p \in Pos \ {w} : file'[p] = file[p]
  BY <1>4, <1>5, <1>6 DEF b, Pos
<1>8. w - 1 + n \in Nat /\ StreamEnd = w - 1 + n /\ StreamEnd' = w - 1 + n
  BY <1>1, <1>2, <1>3, <1>4, DiskAssumption DEF StreamEnd
<1>9. \A s \in 1 .. w - 1 + n : s # w => Stream(s)' = Stream(s)
  <2>. TAKE s \in 1 .. w - 1 + n
  <2>1. CASE s < w
    <3>1. s \in Pos \ {w}
      BY <1>4, <2>1, DiskAssumption DEF Pos
    <3>. QED BY <1>4, <1>7, <2>1, <3>1, DiskAssumption DEF Stream
  <2>2. CASE s > w
    <3>1. s - w \in 1 .. n - 1 /\ s - (w + 1) + 1 = s - w /\ s - w + 1 \in 1 .. n
      BY <1>4, <2>2, DiskAssumption
    <3>2. q'[s - w] = q[s - w + 1]
      BY <1>3, <3>1
    <3>3. Stream(s) = q[s - w + 1]
      BY <1>4, <2>2, DiskAssumption DEF Stream
    <3>4. Stream(s)' = q'[s - (w + 1) + 1]
      <4>1. wpos' = w + 1 /\ ~(s < w + 1)
        BY <1>4, <2>2, DiskAssumption
      <4>. QED BY <4>1 DEF Stream
    <3>. QED BY <3>1, <3>2, <3>3, <3>4
  <2>. QED BY <1>4, <2>1, <2>2, DiskAssumption
<1>10. Stream(w)' = b /\ Stream(w) = q[1]
  BY <1>4, <1>7, DiskAssumption DEF Stream
<1>11. StreamConsistent'
  <2>1. PICK e \in Nat : e = w - 1 + n
    BY <1>8
  <2>2. StreamEnd = e /\ StreamEnd' = e /\ (\A s \in 1 .. e : s # w => Stream(s)' = Stream(s))
    BY <1>8, <1>9, <2>1
  <2>. QED BY <1>5, <1>10, <2>2, StreamKept, SMTT(20)
<1>. QED BY <1>1, <1>3, <1>4, <1>7, <1>11, DiskAssumption

(* The head is written while the tail's subtree drains.                    *)
LEMMA FlushInv == ASSUME QInv, FlushStep PROVE QInv'
<1>. USE DEF QInv
<1>1. PICK n \in Nat : n = Len(q)
  BY QueueFacts
<1>2. /\ stage = "flush" /\ cbd > 0 /\ q[1].lvl < cbd /\ q # <<>> /\ Settled
      /\ cbd \in {0, q[n].lvl} /\ (Open(1) \/ Draining)
  BY <1>1 DEF FlushStep, MustFlush, StageInv
<1>3. q \in Seq(QNode) /\ n > 0 /\ \A i \in 1 .. n : q[i].lvl \in Nat
  BY <1>1, <1>2, QueueFacts
<1>4. Open(n)
  BY <1>1, <1>2, <1>3 DEF Settled, Below
<1>5. n > 1
  BY <1>2, <1>3
<1>6. Draining
  <2>1. Open(1) => q[1].lvl > q[n].lvl
    BY <1>1, <1>2, <1>4, <1>5 DEF Settled, Falling
  <2>. QED BY <1>2, <1>3, <1>5, <2>1
<1>7. "R" \in Mark /\ wpos \in Pos /\ q' = Tail(q) /\ wpos' = wpos + 1
      /\ file' = [file EXCEPT ![wpos] = ToBlock(q[1], "R")]
  BY DEF FlushStep, Mark
<1>8. /\ StreamConsistent'
      /\ file' \in [Pos -> Block] /\ q' \in Seq(QNode)
      /\ wpos' \in 1 .. MaxPos + 1
      /\ Len(q') = n - 1
      /\ \A i \in 1 .. n - 1 : q'[i] = q[i + 1]
  <2>. HIDE DEF QInv
  <2>. QED BY <1>1, <1>2, <1>7, WriteHead
<1>9. glob' \in Globals
  <2>1. glob \in Globals /\ wpos \in 0 .. MaxPos
    BY <1>7, DiskAssumption DEF QueueTypeOK, Pos
  <2>2. [glob EXCEPT !.fslo = wpos, !.enc = TRUE] \in Globals
    BY <2>1 DEF Globals
  <2>. QED BY <2>1, <2>2 DEF FlushStep
<1>10. DiskTypeOK' /\ QueueTypeOK'
  BY <1>8, <1>9, DiskAssumption DEF FlushStep, DiskTypeOK, QueueTypeOK
<1>11. q'[n - 1] = q[n] /\ q' # <<>>
  BY <1>5, <1>8
<1>12. Draining'
  <2>1. UNCHANGED cbd
    BY DEF FlushStep
  <2>2. \A i \in 1 .. n - 2 : q'[i].lvl < cbd
    <3>. TAKE i \in 1 .. n - 2
    <3>1. i \in 1 .. n - 1 /\ i + 1 \in 1 .. n - 1
      OBVIOUS
    <3>. QED BY <1>1, <1>6, <1>8, <3>1 DEF Draining
  <2>. QED BY <1>1, <1>5, <1>6, <1>8, <1>11, <2>1, <2>2 DEF Draining
<1>13. Settled'
  <2>1. \A i \in 1 .. n - 1 : Open(i)' = Open(i + 1) /\ q'[i].lvl = q[i + 1].lvl
    BY <1>8 DEF Open
  <2>2. Falling(n) /\ \A i \in 1 .. n : Open(i) \/ Below(i, n)
    BY <1>1, <1>2 DEF Settled
  <2>3. Falling(n - 1)'
    BY <2>1, <2>2 DEF Falling
  <2>4. (\A i \in 1 .. n - 1 : Open(i) \/ Below(i, n - 1))'
    <3>. SUFFICES ASSUME NEW i \in 1 .. n - 1, ~Open(i)'
                  PROVE  \E k \in i + 1 .. n - 1 : Open(k)' /\ q'[k].lvl > q'[i].lvl
      BY DEF Below
    <3>1. i + 1 \in 1 .. n /\ ~Open(i + 1)
      BY <2>1
    <3>2. PICK k \in i + 2 .. n : Open(k) /\ q[k].lvl > q[i + 1].lvl
      BY <2>2, <3>1 DEF Below
    <3>3. k - 1 \in i + 1 .. n - 1 /\ k - 1 + 1 = k /\ k - 1 \in 1 .. n - 1
      OBVIOUS
    <3>4. Open(k - 1)' /\ q'[k - 1].lvl > q'[i].lvl
      BY <2>1, <3>2, <3>3
    <3>. QED BY <3>3, <3>4
  <2>. QED BY <1>8, <2>3, <2>4 DEF Settled, Falling, Below, Open
<1>14. StageInv'
  BY <1>2, <1>8, <1>11, <1>12, <1>13, <1>1 DEF FlushStep, StageInv, Draining
<1>15. PadInv'
  <2>1. hlev # NoPad => q[n].lvl > hlev
    <3>1. hlev # NoPad => q[1].lvl = hlev \/ q[n].lvl > hlev
      BY <1>1, <1>2 DEF PadInv
    <3>2. q[1].lvl < q[n].lvl
      BY <1>1, <1>2, <1>6 DEF Draining
    <3>. QED BY <3>1, <3>2
  <2>. QED BY <1>2, <1>8, <1>11, <1>12, <2>1 DEF FlushStep, PadInv
<1>. QED BY <1>8, <1>10, <1>14, <1>15

(* The root block.                                                         *)
LEMMA WriteRootInv == ASSUME QInv, WriteRoot PROVE QInv'
<1>. USE DEF QInv
<1>1. stage = "root" /\ q # <<>> /\ Len(q) <= 1
  BY DEF WriteRoot, PadInv
<1>2. Len(q) = 1
  <2>1. PICK n \in Nat : n = Len(q)
    BY QueueFacts
  <2>2. n # 0
    BY <1>1, <2>1, QueueFacts
  <2>. QED BY <1>1, <2>1, <2>2
<1>3. "root" \in Mark /\ wpos \in Pos /\ q' = Tail(q) /\ wpos' = wpos + 1
      /\ file' = [file EXCEPT ![wpos] = ToBlock(q[1], "root")]
  BY DEF WriteRoot, Mark
<1>4. /\ StreamConsistent'
      /\ file' \in [Pos -> Block] /\ q' \in Seq(QNode)
      /\ wpos' \in 1 .. MaxPos + 1
      /\ Len(q') = 0
  <2>1. /\ StreamConsistent'
        /\ file' \in [Pos -> Block] /\ q' \in Seq(QNode)
        /\ wpos' \in 1 .. MaxPos + 1
        /\ Len(q') = Len(q) - 1
    <3>. HIDE DEF QInv
    <3>. QED BY <1>1, <1>3, WriteHead
  <2>. QED BY <1>2, <2>1
<1>5. q' = <<>>
  BY <1>4
<1>6. glob' \in Globals
  <2>1. glob \in Globals /\ wpos \in 0 .. MaxPos
    BY <1>3, DiskAssumption DEF QueueTypeOK, Pos
  <2>2. [glob EXCEPT !.rno = wpos] \in Globals
    BY <2>1 DEF Globals
  <2>. QED BY <2>2 DEF WriteRoot
<1>7. DiskTypeOK' /\ QueueTypeOK'
  BY <1>4, <1>6, DiskAssumption DEF WriteRoot, DiskTypeOK, QueueTypeOK
<1>8. StageInv' /\ PadInv'
  BY <1>1, <1>4, <1>5 DEF WriteRoot, StageInv, PadInv, Settled, Falling
<1>. QED BY <1>4, <1>7, <1>8

(* The walk meets an open node of the tail's level and gives both a        *)
(* parent.                                                                 *)
LEMMA CombineInv == ASSUME QInv, CombineStep PROVE QInv'
<1>. USE DEF QInv
<1>1. PICK n \in Nat : n = Len(q)
  BY QueueFacts
<1>2. PICK a \in Nat : a = at - 1
  BY QueueFacts DEF CombineStep
<1>3. /\ stage = "walk" /\ a \in 1 .. n - 1 /\ at = a + 1 /\ at' = a
      /\ q[a].lvl = q[n].lvl /\ Walking
  BY <1>1, <1>2 DEF CombineStep, StageInv, Walking, Last
<1>4. /\ q \in Seq(QNode)
      /\ \A i \in 1 .. n : q[i] \in QNode /\ q[i].lvl \in Nat /\ q[i].pos \in Int
      /\ wpos \in Nat \ {0}
  BY <1>1, QueueFacts
<1>5. Open(n) /\ Falling(a)
  BY <1>1, <1>2, <1>3 DEF Walking
<1>6. Open(a)
  BY <1>1, <1>3, <1>4 DEF Walking, Below
<1>. DEFINE d == n + 1 - a
            p == Combined(q[a], q[n], d)
            la == Linked(q[a], p, d)
            ln == Linked(q[n], p, 1)
<1>7. q' = Append([q EXCEPT ![a] = la, ![n] = ln], p)
  BY <1>1, <1>2, <1>3, <1>4 DEF CombineStep, Last
<1>8. d \in Int /\ d > 1
  BY <1>3
<1>9. /\ p \in QNode /\ p.lvl = q[n].lvl + 1 /\ p.pos = 0 /\ p.lcos = -d /\ p.rcos = -1
      /\ p.h = Combine(q[a].h, q[n].h)
  <2>1. PICK x \in QNode : x = q[a]
    BY <1>3, <1>4
  <2>2. PICK y \in QNode : y = q[n]
    BY <1>3, <1>4
  <2>3. PICK e \in Int : e = d
    BY <1>8
  <2>4. PICK z : z = Combined(x, y, e)
    OBVIOUS
  <2>5. /\ z \in QNode /\ z.lvl = x.lvl + 1 /\ z.pos = 0 /\ z.lcos = -e /\ z.rcos = -1
        /\ z.h = Combine(x.h, y.h)
    BY <2>4, CombinedFacts
  <2>6. p = z
    BY <2>1, <2>2, <2>3, <2>4
  <2>7. x.lvl = y.lvl
    BY <1>3, <2>1, <2>2
  <2>. HIDE DEF d, p
  <2>. QED BY <2>1, <2>2, <2>3, <2>5, <2>6, <2>7
<1>10. /\ la \in QNode /\ la.pos = d /\ la.lvl = q[a].lvl /\ la.h = q[a].h
       /\ la.lcos = q[a].lcos /\ la.rcos = q[a].rcos
  <2>. HIDE DEF d, p
  <2>1. PICK x \in QNode : x = q[a]
    BY <1>3, <1>4
  <2>2. PICK y \in QNode : y = p
    BY <1>9
  <2>3. PICK e \in Int : e = d
    BY <1>8
  <2>4. PICK z : z = Linked(x, y, e)
    OBVIOUS
  <2>5. z \in QNode /\ z.pos = e /\ z.lvl = x.lvl /\ z.h = x.h /\ z.lcos = x.lcos /\ z.rcos = x.rcos
    BY <2>4, LinkedFacts
  <2>6. la = z
    BY <2>1, <2>2, <2>3, <2>4
  <2>. HIDE DEF la
  <2>. QED BY <2>1, <2>3, <2>5, <2>6
<1>11. /\ ln \in QNode /\ ln.pos = 1 /\ ln.lvl = q[n].lvl /\ ln.h = q[n].h
       /\ ln.lcos = q[n].lcos /\ ln.rcos = q[n].rcos
  <2>. HIDE DEF d, p
  <2>1. PICK x \in QNode : x = q[n]
    BY <1>3, <1>4
  <2>2. PICK y \in QNode : y = p
    BY <1>9
  <2>3. PICK e \in Int : e = 1
    OBVIOUS
  <2>4. PICK z : z = Linked(x, y, e)
    OBVIOUS
  <2>5. z \in QNode /\ z.pos = e /\ z.lvl = x.lvl /\ z.h = x.h /\ z.lcos = x.lcos /\ z.rcos = x.rcos
    BY <2>4, LinkedFacts
  <2>6. ln = z
    BY <2>1, <2>2, <2>3, <2>4
  <2>. HIDE DEF ln
  <2>. QED BY <2>1, <2>3, <2>5, <2>6
<1>. HIDE DEF p, la, ln
<1>12. /\ q' \in Seq(QNode) /\ Len(q') = n + 1
       /\ q'[a] = la /\ q'[n] = ln /\ q'[n + 1] = p
       /\ \A i \in 1 .. n : i # a /\ i # n => q'[i] = q[i]
  <2>. DEFINE q1 == [q EXCEPT ![a] = la, ![n] = ln]
  <2>1. /\ q1 \in Seq(QNode) /\ Len(q1) = n /\ q1[a] = la /\ q1[n] = ln
        /\ \A i \in 1 .. n : i # a /\ i # n => q1[i] = q[i]
    BY <1>1, <1>3, <1>4, <1>10, <1>11
  <2>. HIDE DEF q1
  <2>2. q' = Append(q1, p)
    BY <1>7 DEF q1
  <2>3. /\ q' \in Seq(QNode) /\ Len(q') = n + 1 /\ q'[n + 1] = p
        /\ \A i \in 1 .. n : q'[i] = q1[i]
    BY <1>9, <2>1, <2>2
  <2>. QED BY <1>3, <2>1, <2>3
<1>13. UNCHANGED <<file, hdr, stage, hlev, wpos, glob>> /\ cbd' = p.lvl
  <2>1. cbd' = Combined(q[at - 1], q[Len(q)], Len(q) + 2 - at).lvl
    BY DEF CombineStep, Last
  <2>2. Len(q) + 2 - at = d /\ at - 1 = a
    BY <1>1, <1>2, <1>3
  <2>. QED BY <1>1, <2>1, <2>2 DEF CombineStep, p
<1>14. \A i \in 1 .. n : q'[i].lvl = q[i].lvl
  BY <1>3, <1>10, <1>11, <1>12
<1>15. DiskTypeOK' /\ QueueTypeOK' /\ (wpos \in 1 .. MaxPos + 1)'
  BY <1>3, <1>4, <1>9, <1>12, <1>13 DEF DiskTypeOK, QueueTypeOK
<1>16. StreamConsistent'
  <2>1. PICK w \in Nat \ {0} : w = wpos
    BY <1>4
  <2>2. PICK e \in Nat : e = w - 1 + n
    BY <2>1
  <2>3. StreamEnd = e /\ StreamEnd' = e + 1
    BY <1>1, <1>12, <1>13, <2>1, <2>2 DEF StreamEnd
  <2>4. \A s \in 1 .. e : s # w - 1 + a /\ s # e => Stream(s)' = Stream(s)
    <3>. SUFFICES ASSUME NEW s \in 1 .. e, s # w - 1 + a, s # e
                  PROVE  Stream(s)' = Stream(s)
      OBVIOUS
    <3>1. CASE s < w
      BY <1>13, <2>1, <3>1 DEF Stream
    <3>2. CASE s >= w
      <4>1. PICK i \in 1 .. n : i = s - w + 1
        BY <2>1, <2>2, <3>2
      <4>2. i # a /\ i # n
        BY <2>1, <2>2, <4>1
      <4>3. Stream(s) = q[i] /\ Stream(s)' = q'[i]
        BY <1>13, <2>1, <3>2, <4>1 DEF Stream
      <4>. QED BY <1>12, <4>2, <4>3
    <3>. QED BY <2>1, <3>1, <3>2
  <2>5. /\ Stream(w - 1 + a) = q[a] /\ Stream(w - 1 + a)' = la
        /\ Stream(e) = q[n] /\ Stream(e)' = ln
        /\ Stream(e + 1)' = p
    <3>1. \A i \in 1 .. n + 1 : ~(w - 1 + i < w) /\ w - 1 + i - w + 1 = i
      BY <2>1
    <3>2. \A i \in 1 .. n + 1 : Stream(w - 1 + i) = q[i] /\ Stream(w - 1 + i)' = q'[i]
      BY <1>13, <2>1, <3>1 DEF Stream
    <3>3. e + 1 = w - 1 + (n + 1) /\ e = w - 1 + n
      BY <2>1, <2>2
    <3>. QED BY <1>3, <1>12, <3>2, <3>3
  <2>6. \A s \in 1 .. e : /\ Stream(s)'.lvl = Stream(s).lvl /\ Stream(s)'.h = Stream(s).h
                          /\ Stream(s)'.lcos = Stream(s).lcos
                          /\ Stream(s)'.rcos = Stream(s).rcos
    BY <1>10, <1>11, <2>4, <2>5
  <2>. SUFFICES ASSUME NEW s \in 1 .. e + 1, Stream(s)'.lvl > 0
                PROVE  JoinsChildren(s)'
    BY <2>3 DEF StreamConsistent
  <2>7. CASE s \in 1 .. e
    <3>1. JoinsChildren(s) /\ Stream(s)'.lcos = Stream(s).lcos
          /\ Stream(s)'.rcos = Stream(s).rcos
      BY <2>3, <2>6, <2>7 DEF StreamConsistent
    <3>. DEFINE l == s + Stream(s).lcos
                r == s + Stream(s).rcos
    <3>2. /\ l \in 1 .. s - 1 /\ r \in 1 .. s - 1 /\ l < r
          /\ \A c \in {l, r} : Stream(c).lvl = Stream(s).lvl - 1 /\ c + Stream(c).pos = s
          /\ Stream(s).h = Combine(Stream(l).h, Stream(r).h)
      BY <3>1 DEF JoinsChildren
    <3>3. \A c \in {l, r} : c \in 1 .. e /\ c # w - 1 + a /\ c # e
      <4>. TAKE c \in {l, r}
      <4>1. c \in 1 .. s - 1 /\ c + Stream(c).pos = s
        BY <3>2
      <4>2. c \in 1 .. e /\ c # e
        BY <2>7, <4>1
      <4>3. ASSUME c = w - 1 + a PROVE FALSE
        <5>1. Stream(c).pos = 0
          BY <1>6, <2>5, <4>3 DEF Open
        <5>. QED BY <4>1, <5>1
      <4>. QED BY <4>2, <4>3
    <3>4. \A c \in {l, r} : Stream(c)' = Stream(c)
      BY <2>4, <3>3
    <3>. QED BY <2>6, <2>7, <3>1, <3>2, <3>4 DEF JoinsChildren
  <2>8. CASE s = e + 1
    <3>1. s + p.lcos = w - 1 + a /\ s + p.rcos = e
      BY <1>3, <1>9, <2>1, <2>2, <2>8
    <3>2. /\ w - 1 + a \in 1 .. s - 1 /\ e \in 1 .. s - 1 /\ w - 1 + a < e
          /\ w - 1 + a + d = s /\ e + 1 = s
      BY <1>3, <2>1, <2>2, <2>8
    <3>3. q[a].lvl = p.lvl - 1 /\ q[n].lvl = p.lvl - 1
      <4>1. n \in 1 .. n
        BY <1>3
      <4>. QED BY <1>3, <1>4, <1>9, <4>1
    <3>4. p.h = Combine(la.h, ln.h)
      BY <1>9, <1>10, <1>11
    <3>. HIDE DEF d
    <3>. QED BY <1>10, <1>11, <2>5, <2>8, <3>1, <3>2, <3>3, <3>4 DEF JoinsChildren
  <2>. QED BY <2>7, <2>8
<1>17. Walking'
  <2>1. \A i \in 1 .. a - 1 : q'[i] = q[i]
    BY <1>3, <1>12
  <2>2. \A i \in 1 .. a - 1 : Open(i)' = Open(i)
    BY <2>1 DEF Open
  <2>3. Falling(a - 1)'
    BY <1>3, <1>5, <2>1, <2>2 DEF Falling
  <2>4. Open(n + 1)'
    BY <1>9, <1>12 DEF Open
  <2>5. (at \in 1 .. Len(q) /\ Open(Len(q)) /\ Falling(at - 1))'
    <3>1. a \in 1 .. n + 1 /\ a - 1 \in 0 .. n
      BY <1>3
    <3>. QED BY <1>3, <1>12, <2>3, <2>4, <3>1 DEF Falling, Open
  <2>6. \A i \in 1 .. a - 1 :
           IF Open(i) THEN q[i].lvl > q[n].lvl ELSE q[i].lvl < q[n].lvl + 1 \/ Below(i, a - 1)
    <3>. TAKE i \in 1 .. a - 1
    <3>1. CASE Open(i)
      <4>1. i \in 1 .. a /\ a \in 1 .. a /\ i < a
        BY <1>3
      <4>. QED BY <1>3, <1>5, <1>6, <3>1, <4>1 DEF Falling
    <3>2. CASE ~Open(i) /\ q[i].lvl < q[n].lvl
      <4>1. i \in 1 .. n /\ n \in 1 .. n
        BY <1>3
      <4>. QED BY <1>4, <3>2, <4>1
    <3>3. CASE ~Open(i) /\ Below(i, a)
      <4>1. PICK k \in i + 1 .. a : Open(k) /\ q[k].lvl > q[i].lvl
        BY <3>3 DEF Below
      <4>2. CASE k = a
        <5>1. i \in 1 .. n /\ n \in 1 .. n /\ a \in 1 .. n
          BY <1>3
        <5>. QED BY <1>3, <1>4, <3>3, <4>1, <4>2, <5>1
      <4>3. CASE k # a
        <5>1. k \in i + 1 .. a - 1
          BY <1>3, <4>3
        <5>. QED BY <3>3, <4>1, <5>1 DEF Below
      <4>. QED BY <4>2, <4>3
    <3>. QED BY <1>1, <1>3, <3>1, <3>2, <3>3 DEF Walking
  <2>7. (\A i \in 1 .. at - 1 :
            IF Open(i) THEN q[i].lvl >= q[Len(q)].lvl
                       ELSE q[i].lvl < q[Len(q)].lvl \/ Below(i, at - 1))'
    <3>1. \A i \in 1 .. a - 1 : Below(i, a - 1) => Below(i, a - 1)'
      BY <1>3, <2>1, <2>2 DEF Below
    <3>2. \A i \in 1 .. a - 1 : q[i].lvl > q[n].lvl => q[i].lvl >= q[n].lvl + 1
      <4>1. n \in 1 .. n /\ \A i \in 1 .. a - 1 : i \in 1 .. n
        BY <1>3
      <4>. QED BY <1>4, <4>1
    <3>3. \A i \in 1 .. a - 1 :
             IF Open(i)' THEN q'[i].lvl >= p.lvl ELSE q'[i].lvl < p.lvl \/ Below(i, a - 1)'
      BY <1>9, <2>1, <2>2, <2>6, <3>1, <3>2
    <3>. QED BY <1>3, <1>12, <3>3 DEF Open, Below
  <2>8. (\A i \in at .. Len(q) - 1 : ~Open(i) /\ q[i].lvl < q[Len(q)].lvl)'
    <3>1. \A i \in a .. n : ~Open(i)' /\ q'[i].lvl < p.lvl
      <4>. TAKE i \in a .. n
      <4>0. i \in 1 .. n /\ n \in 1 .. n /\ a \in 1 .. n
        BY <1>3
      <4>1. CASE i = a
        BY <1>3, <1>4, <1>8, <1>9, <1>10, <1>12, <4>0, <4>1 DEF Open
      <4>2. CASE i = n
        BY <1>4, <1>9, <1>11, <1>12, <4>0, <4>2, SMTT(20) DEF Open
      <4>3. CASE i # a /\ i # n
        <5>1. i \in at .. Len(q) - 1 /\ q'[i] = q[i]
          BY <1>1, <1>3, <1>12, <4>0, <4>3, SMTT(20)
        <5>2. ~Open(i) /\ q[i].lvl < q[n].lvl
          BY <1>1, <1>3, <5>1 DEF Walking
        <5>3. q[i].lvl \in Nat /\ q[n].lvl \in Nat
          BY <1>4, <4>0
        <5>. QED BY <1>9, <5>1, <5>2, <5>3 DEF Open
      <4>. QED BY <4>1, <4>2, <4>3
    <3>. QED BY <1>3, <1>12, <3>1 DEF Open
  <2>9. (Open(1) \/ (at = 1 /\ cbd > 0))'
    <3>1. p.lvl > 0
      <4>1. n \in 1 .. n
        BY <1>3
      <4>2. q[n].lvl \in Nat
        BY <1>4, <4>1
      <4>3. p.lvl = q[n].lvl + 1
        BY <1>9
      <4>. QED BY ONLY <4>2, <4>3
    <3>2. a # 1 => Open(1)
      BY <1>3 DEF Walking
    <3>3. a # 1 => 1 \in 1 .. a - 1
      BY <1>3
    <3>. QED BY <1>3, <1>13, <2>2, <3>1, <3>2, <3>3 DEF Open
  <2>. QED BY <1>12, <1>13, <2>5, <2>7, <2>8, <2>9 DEF Walking
<1>18. StageInv'
  BY <1>3, <1>13, <1>17 DEF StageInv
<1>19. PadInv'
  <2>1. 1 \in 1 .. n
    BY <1>3
  <2>. QED BY <1>1, <1>3, <1>12, <1>13, <1>14, <2>1 DEF PadInv
<1>. QED BY <1>15, <1>16, <1>18, <1>19

(* Each turn of a queue loop keeps the invariant.                          *)
LEMMA QueueStepInv == ASSUME QInv, QueueStep PROVE QInv'
BY CombineInv, SkipInv, WalkEndInv, FlushInv, FlushEndInv, PadStepInv, PadEndInv,
   WriteRootInv DEF QueueStep

-----------------------------------------------------------------------------
(* The builder around the queue.                                           *)
BuildInv ==
    /\ QInv
    /\ stage \in {"idle", "read", "walk", "flush", "pad", "root"}
    /\ todo \in Seq(InputPage)

(* An empty queue satisfies the invariant in every stage that may have one.*)
LEMMA EmptyQueue ==
    ASSUME DiskTypeOK, q = <<>>, at = 0, cbd = 0, hlev = NoPad, wpos = 1,
           glob \in Globals, stage \in {"idle", "read"}
    PROVE  QInv
<1>1. QueueTypeOK
  BY DEF QueueTypeOK
<1>2. StreamConsistent
  BY DEF StreamConsistent, StreamEnd
<1>3. StageInv /\ PadInv
  BY DEF StageInv, PadInv, Settled, Falling
<1>. QED BY <1>1, <1>2, <1>3, DiskAssumption DEF QInv

(* The same after a step.                                                  *)
LEMMA EmptyQueueAfter ==
    ASSUME DiskTypeOK', q' = <<>>, at' = 0, cbd' = 0, hlev' = NoPad, wpos' = 1,
           glob' \in Globals, stage' \in {"idle", "read"}
    PROVE  QInv'
<1>1. QueueTypeOK'
  BY DEF QueueTypeOK
<1>2. StreamConsistent'
  BY DEF StreamConsistent, StreamEnd
<1>3. StageInv' /\ PadInv'
  BY DEF StageInv, PadInv, Settled, Falling
<1>. QED BY <1>1, <1>2, <1>3, DiskAssumption DEF QInv

(* A cleared file has the right type.                                      *)
LEMMA ClearedDisk ==
    /\ [p \in Pos |-> ZeroBlock] \in [Pos -> Block]
    /\ [rno |-> NoPos, fslo |-> NoPos] \in Header
    /\ NoGlobals \in Globals
<1>1. NullHash \in Hash
  BY DEF NullHash, Hash, Byte
<1>2. ZeroBlock \in Block
  BY <1>1 DEF ZeroBlock, Block, Mark
<1>. QED BY <1>2, DiskAssumption DEF Header, NoPos, NoGlobals, Globals

LEMMA InitInv == Init => BuildInv
<1>. SUFFICES ASSUME Init PROVE BuildInv
  OBVIOUS
<1>1. DiskTypeOK /\ glob \in Globals
  BY ClearedDisk DEF Init, DiskTypeOK
<1>2. QInv
  BY <1>1, EmptyQueue DEF Init
<1>. QED BY <1>2 DEF Init, BuildInv

(* A new build: the file and the queue are cleared, the offset globals are *)
(* whatever the build before left there.                                   *)
LEMMA StartInv ==
    ASSUME BuildInv, NEW input \in Inputs, StartBuild(input)
    PROVE  BuildInv'
<1>1. glob' \in Globals
  BY DEF StartBuild, BuildInv, QInv, QueueTypeOK, Globals
<1>2. DiskTypeOK'
  BY ClearedDisk DEF StartBuild, DiskTypeOK
<1>3. QInv'
  BY <1>1, <1>2, EmptyQueueAfter DEF StartBuild
<1>4. input \in Seq(InputPage)
  BY BuildAssumption
<1>. QED BY <1>3, <1>4 DEF StartBuild, BuildInv

LEMMA CrashInv == ASSUME BuildInv, Crash PROVE BuildInv'
<1>1. glob' \in Globals
  BY ClearedDisk DEF Crash
<1>2. DiskTypeOK'
  BY DEF Crash, BuildInv, QInv, DiskTypeOK
<1>3. QInv'
  BY <1>1, <1>2, EmptyQueueAfter DEF Crash
<1>. QED BY <1>3 DEF Crash, BuildInv

LEMMA ReadPageInv == ASSUME BuildInv, ReadPage PROVE BuildInv'
<1>. DEFINE pg == Head(todo)
            leaf == MakeQNode(pg.pn, pg.h, 0, pg.pn >= NoPage, FALSE)
<1>1. pg \in InputPage /\ todo' \in Seq(InputPage)
  BY DEF ReadPage, BuildInv
<1>2. leaf \in QNode
  <2>1. pg.pn \in Nat /\ pg.h \in Hash /\ (pg.pn >= NoPage) \in BOOLEAN
    BY <1>1, DiskAssumption DEF InputPage
  <2>. HIDE DEF pg
  <2>. QED BY <2>1, MakeQNodeType
<1>3. leaf.lvl = 0 /\ leaf.pos = 0
  BY DEF MakeQNode
<1>4. /\ QInv /\ stage = "read" /\ hlev = NoPad
      /\ Enqueue(leaf) /\ UNCHANGED <<file, hdr, cbd, hlev, wpos, glob>>
  BY DEF ReadPage, BuildInv, QInv, PadInv
<1>. HIDE DEF leaf
<1>5. QInv'
  BY <1>2, <1>3, <1>4, EnqueueInv
<1>6. stage' = "walk"
  BY <1>4 DEF Enqueue
<1>. QED BY <1>1, <1>5, <1>6 DEF BuildInv

LEMMA EndOfInputInv == ASSUME BuildInv, EndOfInput PROVE BuildInv'
<1>. USE DEF BuildInv, QInv
<1>1. StreamConsistent'
  BY StreamFrame DEF EndOfInput
<1>2. /\ stage = "read" /\ UNCHANGED <<file, hdr, q, at, cbd, wpos, glob, todo>>
      /\ Settled /\ (q # <<>> => Open(1)) /\ cbd = 0
  BY DEF EndOfInput, StageInv
<1>3. Len(q) \in Nat /\ \A i \in 1 .. Len(q) : q[i].lvl \in Nat
  BY QueueFacts
<1>4. CASE Len(q) > 1
  <2>1. stage' = "pad" /\ hlev' = q[1].lvl /\ q # <<>> /\ q[1].lvl \in Nat
    <3>1. PICK n \in Nat : n = Len(q)
      BY <1>3
    <3>2. 1 \in 1 .. n
      BY <1>4, <3>1
    <3>. QED BY <1>3, <1>4, <3>1, <3>2 DEF EndOfInput, BeginPadding
  <2>2. DiskTypeOK' /\ QueueTypeOK' /\ (wpos \in 1 .. MaxPos + 1)'
    BY <1>2, <2>1 DEF DiskTypeOK, QueueTypeOK
  <2>3. StageInv' /\ PadInv'
    BY <1>2, <2>1 DEF StageInv, PadInv, Settled, Falling, Below, Open, NoPad
  <2>. QED BY <1>1, <1>2, <2>1, <2>2, <2>3
<1>5. CASE ~(Len(q) > 1)
  <2>1. stage' = "root" /\ UNCHANGED hlev
    BY <1>5 DEF EndOfInput
  <2>2. DiskTypeOK' /\ QueueTypeOK' /\ (wpos \in 1 .. MaxPos + 1)'
    BY <1>2, <2>1 DEF DiskTypeOK, QueueTypeOK
  <2>3. StageInv' /\ PadInv'
    BY <1>2, <1>3, <1>5, <2>1 DEF StageInv, PadInv, Settled, Falling, Below, Open
  <2>. QED BY <1>1, <1>2, <2>1, <2>2, <2>3
<1>. QED BY <1>4, <1>5

LEMMA WriteHeaderInv == ASSUME BuildInv, WriteHeader PROVE BuildInv'
<1>. USE DEF BuildInv, QInv
<1>1. StreamConsistent'
  BY StreamFrame DEF WriteHeader
<1>2. hdr' \in Header
  BY DEF WriteHeader, QueueTypeOK, Globals, Header
<1>3. DiskTypeOK' /\ QueueTypeOK' /\ (wpos \in 1 .. MaxPos + 1)'
  BY <1>2 DEF WriteHeader, DiskTypeOK, QueueTypeOK
<1>4. StageInv' /\ PadInv'
  BY DEF WriteHeader, StageInv, PadInv
<1>. QED BY <1>1, <1>3, <1>4 DEF WriteHeader

LEMMA QueueInv ==
    ASSUME BuildInv, QueueStep, UNCHANGED <<todo, built>>
    PROVE  BuildInv'
<1>1. QInv'
  BY QueueStepInv DEF BuildInv
<1>2. stage' \in {"idle", "read", "walk", "flush", "pad", "root"}
  BY DEF BuildInv, QueueStep, CombineStep, SkipStep, WalkEnd, FlushStep, FlushEnd,
         PadStep, Enqueue, PadEnd, WriteRoot
<1>. QED BY <1>1, <1>2 DEF BuildInv

(* The inductive invariant of the builder.                                 *)
THEOREM BuildInvariance == Spec => []BuildInv
<1>1. BuildInv /\ [Next]_vars => BuildInv'
  <2>. SUFFICES ASSUME BuildInv, [Next]_vars PROVE BuildInv'
    OBVIOUS
  <2>1. CASE \E input \in Inputs : StartBuild(input)
    BY <2>1, StartInv
  <2>2. CASE Crash
    BY <2>2, CrashInv
  <2>3. CASE Step
    BY <2>3, ReadPageInv, EndOfInputInv, WriteHeaderInv, QueueInv DEF Step
  <2>4. CASE UNCHANGED vars
    <3>. USE DEF vars, BuildInv, QInv
    <3>1. StreamConsistent'
      BY <2>4, StreamFrame
    <3>2. DiskTypeOK' /\ QueueTypeOK' /\ StageInv' /\ PadInv'
      BY <2>4 DEF DiskTypeOK, QueueTypeOK, StageInv, PadInv, Settled, Walking, Draining,
                  Falling, Below, Open
    <3>. QED BY <2>4, <3>1, <3>2
  <2>. QED BY <2>1, <2>2, <2>3, <2>4 DEF Next
<1>. QED BY InitInv, <1>1, PTL DEF Spec

-----------------------------------------------------------------------------
(* Every variable keeps its type, for every dataset (buildMHTFile_fv).     *)
THEOREM BuildTypeCorrect == Spec => []TypeOK
<1>1. BuildInv => TypeOK
  BY DEF BuildInv, QInv, TypeOK
<1>. QED BY <1>1, BuildInvariance, PTL

(* The blocks written and the nodes queued always form one consistent      *)
(* forest: offsets lead from a node to its children and back, and its hash *)
(* combines theirs (deal_with_nodes_offset, makeCombinedQNode).            *)
THEOREM StreamSafety == Spec => []StreamConsistent
<1>1. BuildInv => StreamConsistent
  BY DEF BuildInv, QInv
<1>. QED BY <1>1, BuildInvariance, PTL

(* No two nodes of a level wait for a parent between two leaves (the walk  *)
(* of process_all_pages_fv).                                               *)
THEOREM PeaksSafety == Spec => []PeaksFall
<1>1. BuildInv => PeaksFall
  BY DEF BuildInv, QInv, StageInv, Settled, Falling, Open, PeaksFall
<1>. QED BY <1>1, BuildInvariance, PTL

(* The padding loop stops exactly when one node is left to be the root     *)
(* (deal_with_remaining_nodes_in_queue, the drain loop of buildMHTFile_fv).*)
THEOREM SingleRoot == Spec => []OnlyRootRemains
<1>1. BuildInv => OnlyRootRemains
  <2>. SUFFICES ASSUME BuildInv, stage = "root", q # <<>> PROVE Len(q) = 1
    BY DEF OnlyRootRemains
  <2>1. Len(q) <= 1 /\ q \in Seq(QNode)
    BY DEF BuildInv, QInv, PadInv, QueueTypeOK
  <2>2. PICK n \in Nat : n = Len(q)
    BY <2>1
  <2>3. n # 0
    BY <2>1, <2>2
  <2>. QED BY <2>1, <2>2, <2>3
<1>. QED BY <1>1, BuildInvariance, PTL
=============================================================================
