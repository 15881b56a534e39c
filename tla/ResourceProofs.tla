--------------------------- MODULE ResourceProofs ---------------------------
(***************************************************************************)
(* Proofs about what the library uses besides its trees: the nodes of      *)
(* QNodePool, for any threads, any addresses and any number of nodes taken *)
(* in advance; the descriptors of MHTDescriptors, for any files and any    *)
(* table of descriptors; the data sets of DataSet, for any files, any data *)
(* as long as a pointer, any number of blocks and any words.               *)
(*                                                                         *)
(* A node has one owner, the free list ends, and the pool implements the   *)
(* abstract one, even when several threads find the count zero and         *)
(* initialise the pool again.  Whatever a program opens, closes and        *)
(* inserts, no descriptor stays open that nobody closes any more.  No call *)
(* tears or loses a block of a data set, and a sorted one is in order when *)
(* its indices are near enough for an int to hold what lies between them.  *)
(***************************************************************************)
EXTENDS QNodePool, MHTDescriptors, DataSet, FiniteSetTheorems, FunctionTheorems,
        SequenceTheorems, WellFoundedInduction, TLAPS

(* The strengthening: the free list is a stack of distinct live nodes that *)
(* no thread holds.                                                        *)
IsStack(s, k) ==
    /\ \A i, j \in 1 .. k : s[i] = s[j] => i = j
    /\ \A i \in 1 .. k : next[s[i]] = IF i = 1 THEN Null ELSE s[i - 1]
    /\ free = IF k = 0 THEN Null ELSE s[k]
    /\ \A i \in 1 .. k : s[i] \in live
    /\ \A t \in Thread : \A i \in 1 .. k : s[i] \notin holds[t]

FreeIsStack == \E k \in Nat : \E s \in [1 .. k -> Node] : IsStack(s, k)

Owned ==
    \A t \in Thread :
        /\ holds[t] \subseteq live
        /\ \A u \in Thread \ {t} : holds[t] \cap holds[u] = {}
        /\ pc[t] = "fields" => node[t] \in holds[t]

IInv == TypeOK /\ FreeIsStack /\ Owned

-----------------------------------------------------------------------------
(* Everything reached from a place of the stack lies at or below it.       *)
LEMMA StackReach ==
    ASSUME NEW k \in Nat, NEW s \in [1 .. k -> Node],
           \A i \in 1 .. k : next[s[i]] = IF i = 1 THEN Null ELSE s[i - 1],
           NEW j \in 0 .. k, NEW h,
           h = IF j = 0 THEN Null ELSE s[j]
    PROVE  From(h) \subseteq {s[i] : i \in 1 .. j}
<1> DEFINE S == {s[i] : i \in 1 .. j}
<1>1. S \in SUBSET Node
  OBVIOUS
<1>2. h # Null => h \in S
  OBVIOUS
<1>3. \A m \in S : next[m] # Null => next[m] \in S
  <2> SUFFICES ASSUME NEW i \in 1 .. j, next[s[i]] # Null
               PROVE  next[s[i]] \in S
    OBVIOUS
  <2>1. i # 1 /\ next[s[i]] = s[i - 1] /\ i - 1 \in 1 .. j
    OBVIOUS
  <2>2. QED
    BY <2>1
<1>4. QED
  BY <1>1, <1>2, <1>3 DEF From

LEMMA ListedInStack ==
    ASSUME NEW k \in Nat, NEW s \in [1 .. k -> Node], IsStack(s, k)
    PROVE  Listed \subseteq {s[i] : i \in 1 .. k}
<1>1. \A i \in 1 .. k : next[s[i]] = IF i = 1 THEN Null ELSE s[i - 1]
  BY DEF IsStack
<1>2. k \in 0 .. k /\ free = IF k = 0 THEN Null ELSE s[k]
  BY DEF IsStack
<1>3. QED
  BY <1>1, <1>2, StackReach DEF Listed

-----------------------------------------------------------------------------
THEOREM PoolInit == Init => IInv
<1> SUFFICES ASSUME Init PROVE IInv
  OBVIOUS
<1>1. TypeOK
  BY DEF Init, TypeOK
<1>2. FreeIsStack
  <2> DEFINE s == [i \in 1 .. 0 |-> Null]
  <2>1. s \in [1 .. 0 -> Node]
    OBVIOUS
  <2>2. IsStack(s, 0)
    BY DEF IsStack, Init
  <2>3. QED
    BY <2>1, <2>2 DEF FreeIsStack
<1>3. Owned
  BY DEF Init, Owned
<1>4. QED
  BY <1>1, <1>2, <1>3 DEF IInv

(* A step that leaves the list alone and gives no thread a node.           *)
LEMMA StackFrame ==
    ASSUME FreeIsStack, TypeOK,
           free' = free, live' = live, holds' = holds,
           NEW x \in Node, NEW y,
           \E t \in Thread : x \in holds[t],
           next' = [next EXCEPT ![x] = y]
    PROVE  FreeIsStack'
<1>1. PICK k \in Nat : \E s \in [1 .. k -> Node] : IsStack(s, k)
  BY DEF FreeIsStack
<1>2. PICK s \in [1 .. k -> Node] : IsStack(s, k)
  BY <1>1
<1>3. \A i \in 1 .. k : s[i] # x
  BY <1>2 DEF IsStack
<1>4. \A i \in 1 .. k : next'[s[i]] = next[s[i]]
  BY <1>3 DEF TypeOK
<1>5. IsStack(s, k)'
  BY <1>2, <1>4 DEF IsStack
<1>6. QED
  BY <1>5 DEF FreeIsStack

LEMMA TestCountStep ==
    ASSUME IInv, NEW t \in Thread, TestCount(t) PROVE IInv'
<1> USE DEF TestCount
<1>1. TypeOK'
  BY DEF IInv, TypeOK
<1>2. FreeIsStack'
  BY DEF IInv, FreeIsStack, IsStack
<1>3. Owned'
  BY DEF IInv, Owned, TypeOK
<1>4. QED
  BY <1>1, <1>2, <1>3 DEF IInv

LEMMA InitPoolStep ==
    ASSUME IInv, NEW t \in Thread, InitPool(t) PROVE IInv'
<1>1. PICK k \in 0 .. Prealloc : \E s \in Fresh(k) :
         /\ next' = Chained(s, k)
         /\ free' = IF k = 0 THEN Null ELSE s[k]
         /\ count' = k
         /\ live' = live \cup {s[i] : i \in 1 .. k}
  BY DEF InitPool
<1>2. PICK s \in Fresh(k) :
          /\ next' = Chained(s, k)
          /\ free' = IF k = 0 THEN Null ELSE s[k]
          /\ count' = k
          /\ live' = live \cup {s[i] : i \in 1 .. k}
  BY <1>1
<1>3. /\ pc' = [pc EXCEPT ![t] = "run"]
      /\ holds' = holds /\ node' = node
  BY DEF InitPool
<1>4. /\ k \in Nat
      /\ s \in [1 .. k -> Node]
      /\ \A i \in 1 .. k : s[i] \notin live
      /\ \A i, j \in 1 .. k : s[i] = s[j] => i = j
  BY PoolAssumption DEF Fresh
<1>5. \A i \in 1 .. k : next'[s[i]] = IF i = 1 THEN Null ELSE s[i - 1]
  <2> SUFFICES ASSUME NEW i \in 1 .. k
               PROVE  next'[s[i]] = IF i = 1 THEN Null ELSE s[i - 1]
    OBVIOUS
  <2> DEFINE c == CHOOSE j \in 1 .. k : s[j] = s[i]
  <2>1. c \in 1 .. k /\ s[c] = s[i]
    OBVIOUS
  <2>2. c = i
    BY <2>1, <1>4
  <2>3. s[i] \in Node /\ \E j \in 1 .. k : s[j] = s[i]
    BY <1>4
  <2>4. next'[s[i]] = IF c = 1 THEN Null ELSE s[c - 1]
    BY <1>2, <2>3 DEF Chained
  <2>5. QED
    BY <2>2, <2>4
<1>6. next' \in [Node -> Node \cup {Null}]
  <2> SUFFICES ASSUME NEW n \in Node
               PROVE  Chained(s, k)[n] \in Node \cup {Null}
    BY <1>2 DEF Chained
  <2>1. CASE \E i \in 1 .. k : s[i] = n
    <3>1. PICK i \in 1 .. k : s[i] = n
      BY <2>1
    <3>2. next'[n] = IF i = 1 THEN Null ELSE s[i - 1]
      BY <3>1, <1>5
    <3>3. i # 1 => i - 1 \in 1 .. k
      BY <1>4
    <3>4. QED
      BY <1>2, <1>4, <3>2, <3>3
  <2>2. CASE ~ \E i \in 1 .. k : s[i] = n
    BY <2>2 DEF Chained, IInv, TypeOK
  <2>3. QED
    BY <2>1, <2>2
<1>7. free' \in Node \cup {Null} /\ count' \in Nat /\ live' \subseteq Node
  <2>1. live' \subseteq Node
    BY <1>2, <1>4 DEF IInv, TypeOK
  <2>2. free' \in Node \cup {Null}
    BY <1>2, <1>4
  <2>3. QED
    BY <1>2, <1>4, <2>1, <2>2
<1>8. TypeOK'
  BY <1>3, <1>6, <1>7 DEF IInv, TypeOK
<1>9. FreeIsStack'
  <2>1. \A i \in 1 .. k : s[i] \in live'
    BY <1>2
  <2>2. \A u \in Thread : \A i \in 1 .. k : s[i] \notin holds'[u]
    BY <1>3, <1>4 DEF IInv, Owned
  <2>3. IsStack(s, k)'
    BY <1>2, <1>4, <1>5, <2>1, <2>2 DEF IsStack
  <2>4. QED
    BY <1>4, <2>3 DEF FreeIsStack
<1>10. Owned'
  BY <1>2, <1>3 DEF IInv, Owned, TypeOK
<1>11. QED
  BY <1>8, <1>9, <1>10 DEF IInv

(* The node handed out is live afterwards and was nobody's.                *)
LEMMA AllocGives ==
    ASSUME IInv, NEW t \in Thread, NEW n \in Node, Alloc(t, n)
    PROVE  /\ \A u \in Thread : n \notin holds[u]
           /\ n \in live' /\ live \subseteq live'
           /\ FreeIsStack'
<1>1. PICK k \in Nat : \E s \in [1 .. k -> Node] : IsStack(s, k)
  BY DEF IInv, FreeIsStack
<1>2. PICK s \in [1 .. k -> Node] : IsStack(s, k)
  BY <1>1
<1>3. next' = next /\ holds' = [holds EXCEPT ![t] = @ \cup {n}]
  BY DEF Alloc
<1>4. CASE Pop(n)
  <2>1. k # 0 /\ n = s[k]
    BY <1>2, <1>4, PoolAssumption DEF Pop, IsStack
  <2> DEFINE j == k - 1
             r == [i \in 1 .. j |-> s[i]]
  <2>2. j \in Nat /\ r \in [1 .. j -> Node] /\ k \in 1 .. k
    BY <2>1
  <2>3. \A i \in 1 .. j : i \in 1 .. k /\ i # k /\ r[i] = s[i]
    BY <2>1
  <2>4. n \in live /\ live' = live /\ \A u \in Thread : n \notin holds[u]
    BY <1>2, <1>4, <2>1, <2>2 DEF Pop, IsStack
  <2>5. free' = IF j = 0 THEN Null ELSE r[j]
    <3>1. next[s[k]] = IF k = 1 THEN Null ELSE s[k - 1]
      BY <1>2, <2>2 DEF IsStack
    <3>2. free' = next[s[k]]
      BY <1>4, <2>1 DEF Pop
    <3>3. QED
      BY <3>1, <3>2, <2>1
  <2>6. \A i \in 1 .. j : r[i] # n
    BY <1>2, <2>1, <2>2, <2>3 DEF IsStack
  <2>7. \A u \in Thread : \A i \in 1 .. j : r[i] \notin holds'[u]
    BY <1>2, <1>3, <2>3, <2>6 DEF IsStack, IInv, TypeOK
  <2>8. \A i \in 1 .. j : next'[r[i]] = IF i = 1 THEN Null ELSE r[i - 1]
    <3> SUFFICES ASSUME NEW i \in 1 .. j
                 PROVE  next'[r[i]] = IF i = 1 THEN Null ELSE r[i - 1]
      OBVIOUS
    <3>1. next[s[i]] = IF i = 1 THEN Null ELSE s[i - 1]
      BY <1>2, <2>3 DEF IsStack
    <3>2. i # 1 => i - 1 \in 1 .. j /\ r[i - 1] = s[i - 1]
      BY <2>2
    <3>3. QED
      BY <1>3, <2>3, <3>1, <3>2
  <2>9. /\ \A a, b \in 1 .. j : r[a] = r[b] => a = b
        /\ \A i \in 1 .. j : r[i] \in live'
    BY <1>2, <2>3, <2>4 DEF IsStack
  <2>10. IsStack(r, j)'
    BY <2>5, <2>7, <2>8, <2>9 DEF IsStack
  <2>11. FreeIsStack'
    BY <2>2, <2>10 DEF FreeIsStack
  <2>12. QED
    BY <2>4, <2>11
<1>5. CASE Malloc(n)
  <2>1. /\ k = 0 /\ free' = Null
        /\ n \notin live /\ live' = live \cup {n}
    <3>1. k # 0 => s[k] \in Node
      OBVIOUS
    <3>2. QED
      BY <1>2, <1>5, <3>1, PoolAssumption DEF Malloc, IsStack
  <2>2. \A u \in Thread : n \notin holds[u]
    BY <2>1 DEF IInv, Owned
  <2>3. IsStack(s, k)'
    BY <2>1 DEF IsStack
  <2>4. QED
    BY <2>1, <2>2, <2>3 DEF FreeIsStack
<1>6. QED
  BY <1>4, <1>5 DEF Alloc

LEMMA AllocStep ==
    ASSUME IInv, NEW t \in Thread, NEW n \in Node, Alloc(t, n) PROVE IInv'
<1>1. /\ \A u \in Thread : n \notin holds[u]
      /\ n \in live' /\ live \subseteq live'
      /\ FreeIsStack'
  BY AllocGives
<1>2. /\ holds' = [holds EXCEPT ![t] = @ \cup {n}]
      /\ node' = [node EXCEPT ![t] = n]
      /\ pc' = [pc EXCEPT ![t] = "fields"]
      /\ next' = next
  BY DEF Alloc
<1>3. free' \in Node \cup {Null} /\ count' \in Nat /\ live' \subseteq Node
  <2>1. CASE Pop(n)
    BY <2>1 DEF Pop, IInv, TypeOK
  <2>2. CASE Malloc(n)
    BY <2>2 DEF Malloc, IInv, TypeOK
  <2>3. QED
    BY <2>1, <2>2 DEF Alloc
<1>4. TypeOK'
  BY <1>2, <1>3 DEF IInv, TypeOK
<1>5. Owned'
  <2> SUFFICES ASSUME NEW u \in Thread
               PROVE  /\ holds'[u] \subseteq live'
                      /\ \A v \in Thread \ {u} : holds'[u] \cap holds'[v] = {}
                      /\ pc'[u] = "fields" => node'[u] \in holds'[u]
    BY DEF Owned
  <2>1. \A v \in Thread : holds'[v] = IF v = t THEN holds[v] \cup {n} ELSE holds[v]
    BY <1>2 DEF IInv, TypeOK
  <2>2. /\ holds[u] \subseteq live
        /\ \A v \in Thread \ {u} : holds[u] \cap holds[v] = {}
    BY DEF IInv, Owned
  <2>3. holds'[u] \subseteq live'
    <3>1. holds'[u] \subseteq holds[u] \cup {n}
      BY <2>1
    <3>2. QED
      BY <1>1, <2>2, <3>1
  <2>4. \A v \in Thread \ {u} : holds'[u] \cap holds'[v] = {}
    <3> SUFFICES ASSUME NEW v \in Thread \ {u}
                 PROVE  holds'[u] \cap holds'[v] = {}
      OBVIOUS
    <3>1. n \notin holds[u] /\ n \notin holds[v] /\ holds[u] \cap holds[v] = {}
      BY <1>1, <2>2
    <3>2. CASE u = t
      <4>1. holds'[u] = holds[u] \cup {n} /\ holds'[v] = holds[v]
        BY <2>1, <3>2
      <4>2. QED
        BY <3>1, <4>1
    <3>3. CASE u # t
      <4>1. holds'[u] = holds[u] /\ holds'[v] \subseteq holds[v] \cup {n}
        BY <2>1, <3>3
      <4>2. QED
        BY <3>1, <4>1
    <3>4. QED
      BY <3>2, <3>3
  <2>5. pc'[u] = "fields" => node'[u] \in holds'[u]
    BY <1>2, <2>1 DEF IInv, Owned, TypeOK
  <2>6. QED
    BY <2>3, <2>4, <2>5
<1>6. QED
  BY <1>1, <1>4, <1>5 DEF IInv

LEMMA SetFieldsStep ==
    ASSUME IInv, NEW t \in Thread, SetFields(t) PROVE IInv'
<1>1. /\ node[t] \in holds[t] /\ node[t] \in Node
      /\ next' = [next EXCEPT ![node[t]] = Null]
      /\ node' = [node EXCEPT ![t] = Null]
      /\ pc' = [pc EXCEPT ![t] = "run"]
      /\ free' = free /\ count' = count /\ live' = live /\ holds' = holds
  BY DEF SetFields, IInv, Owned, TypeOK
<1>2. TypeOK'
  BY <1>1 DEF IInv, TypeOK
<1>3. FreeIsStack'
  BY <1>1, StackFrame DEF IInv
<1>4. Owned'
  BY <1>1 DEF IInv, Owned, TypeOK
<1>5. QED
  BY <1>2, <1>3, <1>4 DEF IInv

LEMMA LinkStep ==
    ASSUME IInv, NEW t \in Thread, NEW n \in holds[t],
           NEW m \in holds[t] \cup {Null}, Link(t, n, m)
    PROVE  IInv'
<1>1. /\ n \in Node /\ m \in Node \cup {Null}
      /\ next' = [next EXCEPT ![n] = m]
      /\ free' = free /\ count' = count /\ live' = live /\ holds' = holds
      /\ pc' = pc /\ node' = node
  BY DEF Link, IInv, TypeOK
<1>2. TypeOK'
  BY <1>1 DEF IInv, TypeOK
<1>3. FreeIsStack'
  BY <1>1, StackFrame DEF IInv
<1>4. Owned'
  BY <1>1 DEF IInv, Owned
<1>5. QED
  BY <1>2, <1>3, <1>4 DEF IInv

LEMMA FreeStep ==
    ASSUME IInv, NEW t \in Thread, NEW n \in holds[t], Free(t, n)
    PROVE  IInv'
<1>1. /\ pc[t] = "run" /\ n \in Node
      /\ next' = [next EXCEPT ![n] = free] /\ free' = n /\ count' = count
      /\ holds' = [holds EXCEPT ![t] = @ \ {n}]
      /\ live' = live /\ pc' = pc /\ node' = node
  BY DEF Free, Push, IInv, TypeOK
<1>2. TypeOK'
  BY <1>1 DEF IInv, TypeOK
<1>3. \A u \in Thread : holds'[u] = IF u = t THEN holds[u] \ {n} ELSE holds[u]
  BY <1>1 DEF IInv, TypeOK
<1>4. \A u \in Thread : n \notin holds'[u]
  BY <1>3 DEF IInv, Owned
<1>5. PICK k \in Nat : \E s \in [1 .. k -> Node] : IsStack(s, k)
  BY DEF IInv, FreeIsStack
<1>6. PICK s \in [1 .. k -> Node] : IsStack(s, k)
  BY <1>5
<1>7. FreeIsStack'
  <2> DEFINE j == k + 1
             r == [i \in 1 .. j |-> IF i = j THEN n ELSE s[i]]
  <2>1. j \in Nat /\ r \in [1 .. j -> Node]
    BY <1>1
  <2>2. \A i \in 1 .. j : i = j \/ (i \in 1 .. k /\ r[i] = s[i])
    OBVIOUS
  <2>3. j \in 1 .. j /\ r[j] = n
    OBVIOUS
  <2>4. \A i \in 1 .. k : s[i] # n
    BY <1>6 DEF IsStack
  <2>5. \A a, b \in 1 .. j : r[a] = r[b] => a = b
    BY <1>6, <2>2, <2>3, <2>4 DEF IsStack
  <2>6. \A i \in 1 .. j : next'[r[i]] = IF i = 1 THEN Null ELSE r[i - 1]
    <3> SUFFICES ASSUME NEW i \in 1 .. j
                 PROVE  next'[r[i]] = IF i = 1 THEN Null ELSE r[i - 1]
      OBVIOUS
    <3>1. i # 1 => i - 1 \in 1 .. k /\ r[i - 1] = s[i - 1]
      OBVIOUS
    <3>2. CASE i = j
      <4>1. next'[r[i]] = free
        BY <1>1, <2>3, <3>2 DEF IInv, TypeOK
      <4>2. QED
        BY <1>6, <3>1, <3>2, <4>1 DEF IsStack
    <3>3. CASE i \in 1 .. k
      <4>1. next'[r[i]] = next[s[i]]
        BY <1>1, <2>2, <2>4, <3>3 DEF IInv, TypeOK
      <4>2. next[s[i]] = IF i = 1 THEN Null ELSE s[i - 1]
        BY <1>6, <3>3 DEF IsStack
      <4>3. QED
        BY <3>1, <4>1, <4>2
    <3>4. QED
      BY <2>2, <3>2, <3>3
  <2>7. \A i \in 1 .. j : r[i] \in live'
    BY <1>1, <1>6, <2>2, <2>3 DEF IsStack, IInv, Owned
  <2>8. \A u \in Thread : \A i \in 1 .. j : r[i] \notin holds'[u]
    BY <1>3, <1>4, <1>6, <2>2, <2>3 DEF IsStack
  <2>9. free' = IF j = 0 THEN Null ELSE r[j]
    BY <1>1, <2>3
  <2>10. IsStack(r, j)'
    BY <2>5, <2>6, <2>7, <2>8, <2>9 DEF IsStack
  <2>11. QED
    BY <2>1, <2>10 DEF FreeIsStack
<1>8. Owned'
  <2>1. \A u \in Thread : pc'[u] = "fields" => node'[u] \in holds'[u]
    BY <1>1, <1>3 DEF IInv, Owned
  <2>2. \A u \in Thread : holds'[u] \subseteq live'
    BY <1>1, <1>3 DEF IInv, Owned
  <2>3. \A u \in Thread : \A v \in Thread \ {u} : holds'[u] \cap holds'[v] = {}
    BY <1>3 DEF IInv, Owned
  <2>4. QED
    BY <2>1, <2>2, <2>3 DEF Owned
<1>9. QED
  BY <1>2, <1>7, <1>8 DEF IInv

LEMMA CleanupStep ==
    ASSUME IInv, Cleanup PROVE IInv'
<1>1. /\ \A t \in Thread : holds[t] = {} /\ pc[t] = "run"
      /\ live' = live \ Listed /\ free' = Null /\ count' = 0
      /\ next' = next /\ holds' = holds /\ pc' = pc /\ node' = node
  BY DEF Cleanup, CountAfterCleanup
<1>2. TypeOK'
  BY <1>1 DEF IInv, TypeOK
<1>3. FreeIsStack'
  <2> DEFINE s == [i \in 1 .. 0 |-> Null]
  <2>1. s \in [1 .. 0 -> Node]
    OBVIOUS
  <2>2. IsStack(s, 0)'
    BY <1>1 DEF IsStack
  <2>3. QED
    BY <2>1, <2>2 DEF FreeIsStack
<1>4. Owned'
  BY <1>1 DEF Owned
<1>5. QED
  BY <1>2, <1>3, <1>4 DEF IInv

THEOREM PoolStep == IInv /\ [Next]_vars => IInv'
<1> SUFFICES ASSUME IInv, [Next]_vars PROVE IInv'
  OBVIOUS
<1>1. CASE UNCHANGED vars
  BY <1>1 DEF vars, IInv, TypeOK, FreeIsStack, IsStack, Owned
<1>2. ASSUME NEW t \in Thread,
             TestCount(t) \/ InitPool(t) \/ SetFields(t)
      PROVE  IInv'
  BY <1>2, TestCountStep, InitPoolStep, SetFieldsStep
<1>3. ASSUME NEW t \in Thread, NEW n \in Node, Alloc(t, n) PROVE IInv'
  BY <1>3, AllocStep
<1>4. ASSUME NEW t \in Thread, NEW n \in holds[t], Free(t, n) PROVE IInv'
  BY <1>4, FreeStep
<1>5. ASSUME NEW t \in Thread, NEW n \in holds[t],
             NEW m \in holds[t] \cup {Null}, Link(t, n, m)
      PROVE  IInv'
  BY <1>5, LinkStep
<1>6. CASE Cleanup
  BY <1>6, CleanupStep
<1>7. QED
  BY <1>1, <1>2, <1>3, <1>4, <1>5, <1>6 DEF Next

-----------------------------------------------------------------------------
(* Every variable keeps its type: the count stays a natural number however *)
(* often the pool is initialised again.                                    *)
THEOREM PoolTypeCorrect == Spec => []TypeOK
<1>1. IInv => TypeOK
  BY DEF IInv
<1>2. QED
  BY <1>1, PoolInit, PoolStep, PTL DEF Spec

(* A node has one owner: no two threads, and no thread and the free list,  *)
(* ever share a node.                                                      *)
THEOREM PoolOneOwner == Spec => []OneOwner
<1>1. IInv => OneOwner
  <2> SUFFICES ASSUME IInv PROVE OneOwner
    OBVIOUS
  <2>1. PICK k \in Nat : \E s \in [1 .. k -> Node] : IsStack(s, k)
    BY DEF IInv, FreeIsStack
  <2>2. PICK s \in [1 .. k -> Node] : IsStack(s, k)
    BY <2>1
  <2>3. \A t \in Thread : \A i \in 1 .. k : s[i] \notin holds[t]
    BY <2>2 DEF IsStack
  <2>4. Listed \subseteq {s[i] : i \in 1 .. k}
    BY <2>2, ListedInStack
  <2>5. \A t \in Thread : holds[t] \cap Listed = {}
    BY <2>3, <2>4
  <2>6. QED
    BY <2>5 DEF OneOwner, IInv, Owned
<1>2. QED
  BY <1>1, PoolInit, PoolStep, PTL DEF Spec

(* The free list never runs into itself.                                   *)
THEOREM PoolListEnds == Spec => []FreeListEnds
<1>1. IInv => FreeListEnds
  <2> SUFFICES ASSUME IInv, NEW n \in Listed PROVE n \notin From(next[n])
    BY DEF FreeListEnds
  <2>1. PICK k \in Nat : \E s \in [1 .. k -> Node] : IsStack(s, k)
    BY DEF IInv, FreeIsStack
  <2>2. PICK s \in [1 .. k -> Node] : IsStack(s, k)
    BY <2>1
  <2>3. PICK i \in 1 .. k : n = s[i]
    BY <2>2, ListedInStack
  <2>4. /\ i - 1 \in 0 .. k
        /\ next[n] = IF i - 1 = 0 THEN Null ELSE s[i - 1]
    BY <2>2, <2>3 DEF IsStack
  <2>5. \A j \in 1 .. k : next[s[j]] = IF j = 1 THEN Null ELSE s[j - 1]
    BY <2>2 DEF IsStack
  <2>6. From(next[n]) \subseteq {s[j] : j \in 1 .. (i - 1)}
    BY <2>4, <2>5, StackReach
  <2>7. \A j \in 1 .. (i - 1) : j \in 1 .. k /\ j # i
    OBVIOUS
  <2>8. \A j \in 1 .. (i - 1) : s[j] # n
    BY <2>2, <2>3, <2>7 DEF IsStack
  <2>9. QED
    BY <2>6, <2>8
<1>2. QED
  BY <1>1, PoolInit, PoolStep, PTL DEF Spec

(* The pool implements the abstract one: a node is handed out only when no *)
(* thread has it.                                                          *)
THEOREM PoolImplements == Spec => NodesHandedOutOnce
<1>1. Init => P!Init
  BY DEF Init, P!Init
<1>2. IInv /\ [Next]_vars => [P!Next]_holds
  <2> SUFFICES ASSUME IInv, [Next]_vars PROVE P!Next \/ holds' = holds
    OBVIOUS
  <2>1. ASSUME NEW t \in Thread, NEW n \in Node, Alloc(t, n) PROVE P!Next
    <3>1. \A u \in Thread : n \notin holds[u]
      BY <2>1, AllocGives
    <3>2. P!Alloc(t, n)
      BY <2>1, <3>1 DEF Alloc, P!Alloc
    <3>3. QED
      BY <3>2 DEF P!Next
  <2>2. ASSUME NEW t \in Thread, NEW n \in holds[t], Free(t, n) PROVE P!Next
    <3>1. n \in Node
      BY DEF IInv, TypeOK
    <3>2. P!Free(t, n)
      BY <2>2 DEF Free, P!Free
    <3>3. QED
      BY <3>1, <3>2 DEF P!Next
  <2>3. ASSUME NEW t \in Thread,
               TestCount(t) \/ InitPool(t) \/ SetFields(t)
        PROVE  holds' = holds
    BY <2>3 DEF TestCount, InitPool, SetFields
  <2>4. ASSUME NEW t \in Thread, NEW n, NEW m, Link(t, n, m)
        PROVE  holds' = holds
    BY <2>4 DEF Link
  <2>5. CASE Cleanup
    BY <2>5 DEF Cleanup
  <2>6. CASE UNCHANGED vars
    BY <2>6 DEF vars
  <2>7. QED
    BY <2>1, <2>2, <2>3, <2>4, <2>5, <2>6 DEF Next
<1>3. QED
  BY <1>1, <1>2, PoolInit, PoolStep, PTL DEF Spec, NodesHandedOutOnce, P!Spec

-----------------------------------------------------------------------------
(* The handles that initOpenMHTFileWR gave say nothing of what is open: an *)
(* insertion leaves them in the callers' hands and closes their number.    *)
(* So an open descriptor is the one in the global or one that its caller   *)
(* opened without the library.                                             *)
OpenIsOwned(t, g) ==
    \A fd \in Fd : t[fd] # Closed =>
        fd = g \/ \E h \in handles : ~h.mht /\ h.fd = fd

DescriptorInv == DescriptorTypeOK /\ OpenIsOwned(table, g_mhtFileFdRd)

Table == [Fd -> MHTFile \cup OwnFile \cup {TmpFile, Closed}]

-----------------------------------------------------------------------------
(* open gives a free number or none.                                       *)
LEMMA OpenedFree ==
    ASSUME NEW t
    PROVE  Opened(t) = NoFd \/ Opened(t) \in FreeFds(t)
<1> DEFINE R == OpToRel(<, Nat)
<1>1. IsWellFoundedOn(R, Nat)
  BY NatLessThanWellFounded
<1>2. \A x, y \in Nat : <<x, y>> \in R <=> x < y
  BY DEF OpToRel
<1>3. FreeFds(t) \subseteq Nat
  BY DescriptorAssumption DEF FreeFds, Fd
<1> HIDE DEF R
<1>4. CASE FreeFds(t) = {}
  BY <1>4 DEF Opened
<1>5. CASE FreeFds(t) # {}
  <2>1. \E x \in FreeFds(t) : \A y \in FreeFds(t) : ~(<<y, x>> \in R)
    BY <1>1, <1>3, <1>5, WFMin
  <2>2. PICK x \in FreeFds(t) : \A y \in FreeFds(t) : ~(<<y, x>> \in R)
    BY <2>1
  <2>3. ASSUME NEW y \in FreeFds(t) PROVE x =< y
    <3>1. ~(<<y, x>> \in R) /\ x \in Nat /\ y \in Nat
      BY <1>3, <2>2
    <3>2. ~(y < x)
      BY <1>2, <3>1
    <3>3. QED
      BY <3>1, <3>2
  <2>4. Min(FreeFds(t)) \in FreeFds(t)
    BY <2>3 DEF Min
  <2>5. QED
    BY <1>5, <2>4 DEF Opened
<1>6. QED
  BY <1>4, <1>5

LEMMA FdFacts == Fd \subseteq Int /\ NoFd \notin Fd /\ (\A fd \in Fd : fd > 2) /\ ~(NoFd > 2)
BY DescriptorAssumption DEF Fd, NoFd

(* What initOpenMHTFileWR does to the table before it opens: the number in *)
(* the global is closed, the others are as they were.                      *)
LEMMA BeforeOpenFacts ==
    ASSUME NEW t \in Table, NEW g \in Fd \cup {NoFd}
    PROVE  /\ BeforeOpen(t, g) \in Table
           /\ \A fd \in Fd : BeforeOpen(t, g)[fd] = IF fd = g THEN Closed ELSE t[fd]
BY FdFacts DEF BeforeOpen, Shut, Table

LEMMA ReferFacts ==
    ASSUME NEW t \in Table, NEW fd \in Fd \cup {NoFd},
           NEW f \in MHTFile \cup OwnFile \cup {TmpFile}
    PROVE  /\ Refer(t, fd, f) \in Table
           /\ \A x \in Fd : Refer(t, fd, f)[x] = IF x = fd THEN f ELSE t[x]
BY FdFacts DEF Refer, Table

LEMMA ShutFacts ==
    ASSUME NEW t \in Table, NEW fd \in Fd \cup {NoFd}
    PROVE  /\ Shut(t, fd) \in Table
           /\ \A x \in Fd : Shut(t, fd)[x] = IF x = fd THEN Closed ELSE t[x]
BY FdFacts DEF Shut, Table

LEMMA OpenedType == ASSUME NEW t PROVE Opened(t) \in Fd \cup {NoFd}
BY OpenedFree DEF FreeFds

-----------------------------------------------------------------------------
LEMMA InitOpenInv ==
    ASSUME DescriptorInv, NEW f \in MHTFile, InitOpen(f)
    PROVE  DescriptorInv'
<1> DEFINE t  == BeforeOpen(table, g_mhtFileFdRd)
           fd == Opened(t)
<1>1. table \in Table /\ g_mhtFileFdRd \in Fd \cup {NoFd} /\ handles \subseteq Handle
  BY DEF DescriptorInv, DescriptorTypeOK, Table
<1>2. t \in Table /\ \A x \in Fd : t[x] = IF x = g_mhtFileFdRd THEN Closed ELSE table[x]
  BY <1>1, BeforeOpenFacts
<1>3. fd \in Fd \cup {NoFd}
  BY OpenedType
<1>4. /\ table' = Refer(t, fd, f)
      /\ g_mhtFileFdRd' = fd
      /\ handles' = {h \in handles : ~h.mht} \cup Given(fd, f)
  BY DEF InitOpen
<1> HIDE DEF t, fd
<1>5. table' \in Table /\ \A x \in Fd : table'[x] = IF x = fd THEN f ELSE t[x]
  BY <1>2, <1>3, <1>4, ReferFacts
<1>6. handles' \subseteq Handle
  <2>1. ASSUME NEW x \in {fd} \ {NoFd} PROVE [fd |-> x, file |-> f, mht |-> TRUE] \in Handle
    BY <1>3, <2>1 DEF Handle
  <2>2. Given(fd, f) \subseteq Handle
    BY <2>1 DEF Given
  <2>3. QED
    BY <1>1, <1>4, <2>2
<1>7. OpenIsOwned(table, g_mhtFileFdRd)'
  BY <1>2, <1>4, <1>5 DEF DescriptorInv, OpenIsOwned
<1>8. QED
  BY <1>3, <1>4, <1>5, <1>6, <1>7 DEF DescriptorInv, DescriptorTypeOK, Table

LEMMA OpenOwnInv ==
    ASSUME DescriptorInv, NEW f \in OwnFile, OpenOwn(f)
    PROVE  DescriptorInv'
<1> DEFINE fd == Opened(table)
           h  == [fd |-> fd, file |-> f, mht |-> FALSE]
<1>1. table \in Table /\ g_mhtFileFdRd \in Fd \cup {NoFd} /\ handles \subseteq Handle
  BY DEF DescriptorInv, DescriptorTypeOK, Table
<1>2. /\ fd # NoFd /\ table' = Refer(table, fd, f)
      /\ handles' = handles \cup {h} /\ g_mhtFileFdRd' = g_mhtFileFdRd
  BY DEF OpenOwn
<1>3. fd \in Fd
  BY <1>2, OpenedType
<1>4. h \in Handle /\ ~h.mht /\ h.fd = fd
  BY <1>3 DEF Handle
<1> HIDE DEF fd, h
<1>5. table' \in Table /\ \A x \in Fd : table'[x] = IF x = fd THEN f ELSE table[x]
  BY <1>1, <1>2, <1>3, ReferFacts
<1>6. OpenIsOwned(table, g_mhtFileFdRd)'
  BY <1>2, <1>4, <1>5 DEF DescriptorInv, OpenIsOwned
<1>7. QED
  BY <1>1, <1>2, <1>4, <1>5, <1>6 DEF DescriptorInv, DescriptorTypeOK, Table

LEMMA CloseInv ==
    ASSUME DescriptorInv, NEW h \in handles, Close(h)
    PROVE  DescriptorInv'
<1>1. table \in Table /\ g_mhtFileFdRd \in Fd \cup {NoFd} /\ handles \subseteq Handle
  BY DEF DescriptorInv, DescriptorTypeOK, Table
<1>2. table' = Shut(table, h.fd) /\ handles' = handles \ {h} /\ g_mhtFileFdRd' = g_mhtFileFdRd
  BY DEF Close
<1>3. h.fd \in Fd
  BY <1>1 DEF Handle
<1>4. table' \in Table /\ \A x \in Fd : table'[x] = IF x = h.fd THEN Closed ELSE table[x]
  BY <1>1, <1>2, <1>3, ShutFacts
<1>5. OpenIsOwned(table, g_mhtFileFdRd)'
  BY <1>2, <1>4 DEF DescriptorInv, OpenIsOwned
<1>6. QED
  BY <1>1, <1>2, <1>4, <1>5 DEF DescriptorInv, DescriptorTypeOK, Table

(* An insertion closes what it opened, and the number of the global before *)
(* it: afterwards only the callers' own descriptors are open.              *)
LEMMA InsertInv ==
    ASSUME DescriptorInv, NEW f \in MHTFile, InsertUpdates(f) \/ InsertAdds(f)
    PROVE  DescriptorInv'
<1> DEFINE t1 == BeforeOpen(table, g_mhtFileFdRd)
           fd == Opened(t1)
           tc == Shut(Refer(t1, fd, f), fd)
<1>1. table \in Table /\ g_mhtFileFdRd \in Fd \cup {NoFd} /\ handles \subseteq Handle
  BY DEF DescriptorInv, DescriptorTypeOK, Table
<1>2. t1 \in Table /\ \A x \in Fd : t1[x] = IF x = g_mhtFileFdRd THEN Closed ELSE table[x]
  BY <1>1, BeforeOpenFacts
<1>3. fd \in Fd \cup {NoFd}
  BY OpenedType
<1>4. tc \in Table /\ \A x \in Fd : tc[x] # Closed => t1[x] # Closed
  <2> HIDE DEF t1, fd
  <2>1. Refer(t1, fd, f) \in Table /\ \A x \in Fd : Refer(t1, fd, f)[x] = IF x = fd THEN f ELSE t1[x]
    BY <1>2, <1>3, ReferFacts
  <2>2. QED
    BY <1>3, <2>1, ShutFacts
<1>5. CASE InsertUpdates(f)
  <2>1. table' = tc /\ g_mhtFileFdRd' = fd /\ handles' = handles
    BY <1>5 DEF InsertUpdates
  <2> HIDE DEF t1, fd, tc
  <2>2. OpenIsOwned(table, g_mhtFileFdRd)'
    BY <1>2, <1>4, <2>1 DEF DescriptorInv, OpenIsOwned
  <2>3. QED
    BY <1>1, <1>3, <1>4, <2>1, <2>2 DEF DescriptorInv, DescriptorTypeOK, Table
<1>6. CASE InsertAdds(f)
  <2> DEFINE t2  == BeforeOpen(tc, fd)
             new == Opened(t2)
             t3  == Refer(t2, new, f)
             tmp == Opened(t3)
             t4  == Refer(t3, tmp, TmpFile)
             t5  == Shut(t4, new)
  <2>1. table' = Shut(t5, tmp) /\ g_mhtFileFdRd' = new /\ handles' = handles
    BY <1>6 DEF InsertAdds
  <2>2. new \in Fd \cup {NoFd} /\ tmp \in Fd \cup {NoFd}
    BY OpenedType
  <2>3. t2 \in Table /\ \A x \in Fd : t2[x] = IF x = fd THEN Closed ELSE tc[x]
    <3> HIDE DEF t1, fd, tc
    <3> QED BY <1>3, <1>4, BeforeOpenFacts
  <2> HIDE DEF t2, new, tc, fd, t1
  <2>4. t3 \in Table /\ \A x \in Fd : t3[x] = IF x = new THEN f ELSE t2[x]
    BY <2>2, <2>3, ReferFacts
  <2> HIDE DEF t3, tmp
  <2>5. t4 \in Table /\ \A x \in Fd : t4[x] = IF x = tmp THEN TmpFile ELSE t3[x]
    BY <2>2, <2>4, ReferFacts
  <2> HIDE DEF t4
  <2>6. t5 \in Table /\ \A x \in Fd : t5[x] = IF x = new THEN Closed ELSE t4[x]
    BY <2>2, <2>5, ShutFacts
  <2> HIDE DEF t5
  <2>7. table' \in Table /\ \A x \in Fd : table'[x] = IF x = tmp THEN Closed ELSE t5[x]
    BY <2>1, <2>2, <2>6, ShutFacts
  <2>8. \A x \in Fd : table'[x] # Closed => t1[x] # Closed
    BY <1>4, <2>3, <2>4, <2>5, <2>6, <2>7
  <2>9. OpenIsOwned(table, g_mhtFileFdRd)'
    BY <1>2, <2>1, <2>8 DEF DescriptorInv, OpenIsOwned
  <2>10. QED
    BY <1>1, <2>1, <2>2, <2>7, <2>9 DEF DescriptorInv, DescriptorTypeOK, Table
<1>7. QED
  BY <1>5, <1>6

(* Every variable has its type, and each open descriptor is one a caller   *)
(* opened or the one the next initOpenMHTFileWR closes: a program that     *)
(* opens, closes and inserts for ever does not run out of numbers.         *)
THEOREM DescriptorSafety == DescriptorSpec => []TableAccounted
<1>1. DescriptorInit => DescriptorInv
  BY DEF DescriptorInit, DescriptorInv, DescriptorTypeOK, OpenIsOwned, Handle
<1>2. DescriptorInv /\ [DescriptorNext]_descriptorVars => DescriptorInv'
  <2> SUFFICES ASSUME DescriptorInv, [DescriptorNext]_descriptorVars PROVE DescriptorInv'
    OBVIOUS
  <2>1. ASSUME NEW f \in MHTFile, InitOpen(f) PROVE DescriptorInv'
    BY <2>1, InitOpenInv
  <2>2. ASSUME NEW f \in MHTFile, InsertUpdates(f) \/ InsertAdds(f) PROVE DescriptorInv'
    BY <2>2, InsertInv
  <2>3. ASSUME NEW f \in OwnFile, OpenOwn(f) PROVE DescriptorInv'
    BY <2>3, OpenOwnInv
  <2>4. ASSUME NEW h \in handles, Close(h) PROVE DescriptorInv'
    BY <2>4, CloseInv
  <2>5. CASE UNCHANGED descriptorVars
    BY <2>5 DEF descriptorVars, DescriptorInv, DescriptorTypeOK, OpenIsOwned
  <2>6. QED
    BY <2>1, <2>2, <2>3, <2>4, <2>5 DEF DescriptorNext
<1>3. DescriptorInv => TableAccounted
  BY DEF DescriptorInv, OpenIsOwned, TableAccounted, NoneLeftOpen
<1>4. QED
  BY <1>1, <1>2, <1>3, PTL DEF DescriptorSpec

-----------------------------------------------------------------------------
(* A data set of k blocks of an index and a pointer.                       *)
Shaped(w, k) ==
    /\ w \in Seq(Word)
    /\ Len(w) = HeaderLen + (PtrLen + 1) * k
    /\ BlockLen(w) = PtrLen + 1
    /\ SubSeq(w, 1, 4) = Version

FilesInv ==
    /\ fs \in [Files -> Seq(Word)]
    /\ \A f \in Files : Exists(f) => \E k \in Nat : Shaped(fs[f], k)

(* Blocks as they are written: a sequence of m of them.                    *)
Block     == {b \in Seq(Word) : Len(b) = PtrLen + 1}
Parts(m)  == [1 .. m -> Block]

-----------------------------------------------------------------------------
(* Induction over 1 .. n, stated with a set.                               *)
LEMMA UpTo ==
    ASSUME NEW n \in Nat, NEW S,
           \A p \in 1 .. n : (\A k \in 1 .. p - 1 : k \in S) => p \in S
    PROVE  1 .. n \subseteq S
<1> DEFINE D == (1 .. n) \ S
           R == OpToRel(<, Nat)
<1>1. SUFFICES ASSUME D # {} PROVE FALSE
  OBVIOUS
<1>2. IsWellFoundedOn(R, Nat)
  BY NatLessThanWellFounded
<1>3. \A x, y \in Nat : <<y, x>> \in R <=> y < x
  BY DEF OpToRel
<1>4. D \subseteq Nat
  OBVIOUS
<1> HIDE DEF R, D
<1>5. PICK m \in D : \A y \in D : ~(<<y, m>> \in R)
  BY <1>1, <1>2, <1>4, WFMin
<1>6. m \in 1 .. n /\ m \notin S
  BY <1>5 DEF D
<1>7. PICK k \in 1 .. m - 1 : k \notin S
  BY <1>6
<1>8. k \in D /\ k \in Nat /\ m \in Nat /\ k < m
  BY <1>6, <1>7 DEF D
<1>9. QED
  BY <1>3, <1>5, <1>8

(* The running concatenation of the blocks of a sequence.                  *)
Runs(b, m, g) == g = [i \in 1 .. m |-> IF i = 1 THEN b[i] ELSE g[i - 1] \o b[i]]

LEMMA RunsExist ==
    ASSUME NEW b, NEW m \in Nat
    PROVE  \E g : Runs(b, m, g)
<1> DEFINE S == {n \in Nat : \E g : Runs(b, n, g)}
<1>1. 0 \in S
  <2>1. Runs(b, 0, [i \in 1 .. 0 |-> b[i]])
    BY DEF Runs
  <2>2. QED
    BY <2>1
<1>2. ASSUME NEW p \in 1 .. m, \A k \in 1 .. p - 1 : k \in S
      PROVE  p \in S
  <2>1. p - 1 \in S
    BY <1>1, <1>2
  <2>2. PICK g : Runs(b, p - 1, g)
    BY <2>1
  <2> DEFINE h == [i \in 1 .. p |-> IF i < p THEN g[i]
                                    ELSE IF i = 1 THEN b[i] ELSE g[i - 1] \o b[i]]
  <2>3. ASSUME NEW i \in 1 .. p
        PROVE  h[i] = IF i = 1 THEN b[i] ELSE h[i - 1] \o b[i]
    <3>1. CASE i < p
      <4>1. i \in 1 .. p - 1
        BY <3>1
      <4>2. g[i] = IF i = 1 THEN b[i] ELSE g[i - 1] \o b[i]
        BY <2>2, <4>1, Zenon DEF Runs
      <4>3. h[i] = g[i] /\ (i # 1 => h[i - 1] = g[i - 1])
        BY <3>1
      <4>4. QED
        BY <4>2, <4>3
    <3>2. CASE i = p
      <4>1. i # 1 => h[i - 1] = g[i - 1]
        BY <3>2
      <4>2. QED
        BY <3>2, <4>1
    <3>3. QED
      BY <3>1, <3>2
  <2>4. Runs(b, p, h)
    <3> HIDE DEF h
    <3>1. h = [i \in 1 .. p |-> h[i]]
      BY DEF h
    <3>2. QED
      BY <2>3, <3>1 DEF Runs
  <2>5. QED
    BY <2>4
<1> HIDE DEF S
<1>3. 1 .. m \subseteq S
  BY <1>2, UpTo
<1>4. m \in S
  BY <1>1, <1>3
<1>5. QED
  BY <1>4 DEF S

LEMMA ConcatRuns ==
    ASSUME NEW m \in Nat \ {0}, NEW b \in Parts(m)
    PROVE  \E g : Runs(b, m, g) /\ Concat(b) = g[m]
<1> DEFINE G == CHOOSE g : Runs(b, m, g)
<1>1. Runs(b, m, G)
  BY RunsExist
<1>2. Len(b) = m /\ Len(b) # 0
  <2>1. b \in Seq(Block)
    BY DEF Parts
  <2>2. QED
    BY DEF Parts
<1>3. Concat(b) = G[m]
  BY <1>2 DEF Concat, Sq!FlattenSeq, Runs
<1>4. QED
  BY <1>1, <1>3

(* Every block that is written stands at its place.                        *)
LEMMA ConcatBlocks ==
    ASSUME NEW m \in Nat \ {0}, NEW b \in Parts(m)
    PROVE  /\ Concat(b) \in Seq(Word)
           /\ Len(Concat(b)) = 3 * m
           /\ \A n \in 1 .. m : \A j \in 1 .. 3 : Concat(b)[3 * (n - 1) + j] = b[n][j]
<1>1. PICK g : Runs(b, m, g) /\ Concat(b) = g[m]
  BY ConcatRuns
<1> DEFINE Good(i) == /\ g[i] \in Seq(Word)
                      /\ Len(g[i]) = 3 * i
                      /\ \A n \in 1 .. i : \A j \in 1 .. 3 : g[i][3 * (n - 1) + j] = b[n][j]
           S == {i \in 1 .. m : Good(i)}
<1>2. \A i \in 1 .. m : b[i] \in Seq(Word) /\ Len(b[i]) = 3
  BY DEF Parts, Block, PtrLen
<1>3. ASSUME NEW p \in 1 .. m, \A k \in 1 .. p - 1 : k \in S
      PROVE  p \in S
  <2>1. CASE p = 1
    <3>1. g[p] = b[p]
      BY <1>1, <2>1 DEF Runs
    <3>2. QED
      BY <1>2, <2>1, <3>1
  <2>2. CASE p # 1
    <3>1. p - 1 \in 1 .. m /\ p - 1 \in 1 .. p - 1
      BY <2>2
    <3>2. Good(p - 1)
      BY <1>3, <3>1
    <3>3. g[p] = g[p - 1] \o b[p]
      BY <1>1, <2>2 DEF Runs
    <3> DEFINE l == Len(g[p - 1])
    <3>4. l \in Nat /\ l = 3 * (p - 1) /\ Len(b[p]) = 3 /\ p \in Nat
      <4>1. Len(g[p - 1]) = 3 * (p - 1) /\ Len(b[p]) = 3
        BY <1>2, <3>2, Zenon
      <4>2. QED
        BY <4>1
    <3>5. l + Len(b[p]) = 3 * p
      BY <3>4
    <3>6. g[p - 1] \in Seq(Word) /\ b[p] \in Seq(Word)
      BY <1>2, <3>2
    <3>7. /\ g[p] \in Seq(Word)
          /\ Len(g[p]) = l + Len(b[p])
          /\ \A i \in 1 .. l + Len(b[p]) :
                g[p][i] = IF i <= l THEN g[p - 1][i] ELSE b[p][i - l]
      <4>1. /\ g[p - 1] \o b[p] \in Seq(Word)
            /\ Len(g[p - 1] \o b[p]) = Len(g[p - 1]) + Len(b[p])
            /\ \A i \in 1 .. Len(g[p - 1]) + Len(b[p]) :
                  (g[p - 1] \o b[p])[i] = IF i <= Len(g[p - 1]) THEN g[p - 1][i]
                                          ELSE b[p][i - Len(g[p - 1])]
        BY <3>6, ConcatProperties, Zenon
      <4>2. QED
        BY <3>3, <4>1
    <3> HIDE DEF l
    <3>8. ASSUME NEW n \in 1 .. p, NEW j \in 1 .. 3
          PROVE  g[p][3 * (n - 1) + j] = b[n][j]
      <4>1. CASE n < p
        <5>1. 3 * (n - 1) + j \in 1 .. l
          BY <3>4, <4>1
        <5>2. n \in 1 .. p - 1
          BY <4>1
        <5>3. g[p - 1][3 * (n - 1) + j] = b[n][j]
          BY <3>2, <5>2
        <5>4. g[p][3 * (n - 1) + j] = g[p - 1][3 * (n - 1) + j]
          BY <3>7, <3>4, <5>1
        <5>5. QED
          BY <5>3, <5>4
      <4>2. CASE n = p
        <5>1. 3 * (n - 1) + j = l + j /\ l + j \in 1 .. l + Len(b[p]) /\ ~(l + j <= l)
              /\ l + j - l = j
          BY <3>4, <4>2
        <5>2. PICK i \in 1 .. l + Len(b[p]) : i = l + j
          BY <5>1
        <5>3. g[p][i] = IF i <= l THEN g[p - 1][i] ELSE b[p][i - l]
          BY <3>7
        <5>4. ~(i <= l) /\ i - l = j
          BY <3>4, <5>1, <5>2
        <5>5. g[p][l + j] = b[p][j]
          BY <5>2, <5>3, <5>4
        <5>6. QED
          BY <4>2, <5>1, <5>5
      <4>3. QED
        BY <4>1, <4>2
    <3>9. QED
      BY <3>7, <3>8, <3>5
  <2>3. QED
    BY <2>1, <2>2
<1> HIDE DEF S
<1>4. 1 .. m \subseteq S
  BY <1>3, UpTo
<1>5. Good(m)
  BY <1>4 DEF S
<1>6. QED
  BY <1>1, <1>5

-----------------------------------------------------------------------------
(* What ds_verify_ds and the readers find in a data set.                   *)
LEMMA BlockFacts ==
    ASSUME NEW k \in Nat, NEW w, Shaped(w, k)
    PROVE  /\ BlockNum(w) = k
           /\ Whole(w)
           /\ DOMAIN Blocks(w) = 1 .. k
           /\ Len(Blocks(w)) = k
           /\ \A n \in 1 .. k : /\ Blocks(w)[n] \in Block
                                /\ \A j \in 1 .. 3 : Blocks(w)[n][j] = w[5 + 3 * (n - 1) + j]
<1>1. w \in Seq(Word) /\ Len(w) = 5 + 3 * k /\ BlockLen(w) = 3
  BY DEF Shaped, HeaderLen, PtrLen
<1>2. BlockNum(w) = k
  <2>1. BlockNum(w) = (3 * k + 2) \div 3
    BY <1>1 DEF BlockNum, HeaderLen
  <2>2. QED
    BY <2>1
<1>3. Whole(w)
  <2>1. (3 * k) % 3 = 0
    OBVIOUS
  <2>2. Len(w) - HeaderLen = 3 * k
    BY <1>1 DEF HeaderLen
  <2>3. QED
    BY <1>1, <2>1, <2>2 DEF Whole
<1>4. Blocks(w) = [n \in 1 .. k |-> SubSeq(w, 3 * n + 3, 3 * n + 5)]
  <2>1. ASSUME NEW n \in 1 .. k
        PROVE  /\ HeaderLen + (n - 1) * BlockLen(w) + 1 = 3 * n + 3
               /\ (IF n < BlockNum(w) THEN HeaderLen + n * BlockLen(w) ELSE Len(w)) = 3 * n + 5
    BY <1>1, <1>2 DEF HeaderLen
  <2>2. QED
    BY <1>2, <2>1 DEF Blocks
<1>5. ASSUME NEW n \in 1 .. k
      PROVE  /\ Blocks(w)[n] \in Block
             /\ \A j \in 1 .. 3 : Blocks(w)[n][j] = w[5 + 3 * (n - 1) + j]
  <2> DEFINE lo == 3 * n + 3
             hi == 3 * n + 5
  <2>1. lo \in Int /\ hi \in Int /\ lo <= hi /\ hi - lo + 1 = 3
    OBVIOUS
  <2>2. \A i \in lo .. hi : w[i] \in Word
    BY <1>1
  <2> HIDE DEF lo, hi
  <2>3. /\ SubSeq(w, lo, hi) \in Seq(Word)
        /\ Len(SubSeq(w, lo, hi)) = IF lo <= hi THEN hi - lo + 1 ELSE 0
        /\ \A i \in 1 .. hi - lo + 1 : SubSeq(w, lo, hi)[i] = w[lo + i - 1]
    <3> HIDE DEF lo, hi
    <3>1. QED
      BY <2>1, <2>2, SubSeqProperties
  <2>4. Blocks(w)[n] = SubSeq(w, lo, hi)
    BY <1>4 DEF lo, hi
  <2>5. \A j \in 1 .. 3 : lo + j - 1 = 5 + 3 * (n - 1) + j
    BY DEF lo
  <2>6. QED
    BY <2>1, <2>3, <2>4, <2>5 DEF Block, PtrLen
<1>6. DOMAIN Blocks(w) = 1 .. k /\ Len(Blocks(w)) = k
  BY <1>4
<1>7. QED
  BY <1>2, <1>3, <1>5, <1>6

LEMMA BlockAt ==
    ASSUME NEW k \in Nat, NEW w, Shaped(w, k), NEW n \in 1 .. k
    PROVE  /\ Blocks(w)[n] \in Block
           /\ \A j \in 1 .. 3 : Blocks(w)[n][j] = w[5 + 3 * (n - 1) + j]
BY BlockFacts

(* Blocks are behind a header or behind the blocks of a data set: nothing  *)
(* that is there moves, and the new blocks follow.                         *)
LEMMA Appended ==
    ASSUME NEW k \in Nat, NEW w, Shaped(w, k),
           NEW m \in Nat \ {0}, NEW b \in Parts(m)
    PROVE  LET now == w \o Concat(b) IN
           /\ Shaped(now, k + m)
           /\ BlockNum(now) = k + m
           /\ \A n \in 1 .. k : Blocks(now)[n] = Blocks(w)[n]
           /\ \A n \in 1 .. m : Blocks(now)[k + n] = b[n]
<1> DEFINE c   == Concat(b)
           now == w \o c
<1>1. /\ c \in Seq(Word) /\ Len(c) = 3 * m
      /\ \A n \in 1 .. m : \A j \in 1 .. 3 : c[3 * (n - 1) + j] = b[n][j]
  BY ConcatBlocks
<1>2. /\ w \in Seq(Word) /\ Len(w) = 5 + 3 * k /\ w[5] = 3
      /\ SubSeq(w, 1, 4) = Version
  BY DEF Shaped, HeaderLen, PtrLen, BlockLen
<1> HIDE DEF c
<1>3. /\ now \in Seq(Word)
      /\ Len(now) = Len(w) + Len(c)
      /\ \A i \in 1 .. Len(w) + Len(c) :
            now[i] = IF i <= Len(w) THEN w[i] ELSE c[i - Len(w)]
  BY <1>1, <1>2, ConcatProperties, Zenon
<1> HIDE DEF now
<1>4. \A i \in 1 .. Len(w) : now[i] = w[i]
  BY <1>1, <1>2, <1>3
<1>5. \A i \in 1 .. Len(c) : now[5 + 3 * k + i] = c[i]
  BY <1>1, <1>2, <1>3
<1>6. SubSeq(now, 1, 4) = SubSeq(w, 1, 4)
  <2>1. \A i \in 1 .. 4 : now[1 + i - 1] = w[1 + i - 1]
    BY <1>2, <1>4
  <2>2. 1 \in Int /\ 4 \in Int /\ (\A i \in 1 .. 4 : w[i] \in Word /\ now[i] \in Word)
    BY <1>1, <1>2, <1>3
  <2> DEFINE a == SubSeq(now, 1, 4)
             d == SubSeq(w, 1, 4)
  <2>3. /\ a \in Seq(Word) /\ Len(a) = 4 /\ (\A i \in 1 .. 4 : a[i] = now[1 + i - 1])
        /\ d \in Seq(Word) /\ Len(d) = 4 /\ (\A i \in 1 .. 4 : d[i] = w[1 + i - 1])
    BY <2>2, SubSeqProperties
  <2> HIDE DEF a, d
  <2>4. a = d
    BY <2>1, <2>3
  <2>5. QED
    BY <2>4 DEF a, d
<1>7. Shaped(now, k + m)
  <2>1. Len(now) = 5 + 3 * (k + m)
    BY <1>1, <1>2, <1>3
  <2>2. now[5] = 3
    BY <1>2, <1>4
  <2>3. QED
    BY <1>2, <1>3, <1>6, <2>1, <2>2 DEF Shaped, HeaderLen, PtrLen, BlockLen
<1>8. ASSUME NEW x, NEW y, x \in Block, y \in Block, \A j \in 1 .. 3 : x[j] = y[j]
      PROVE  x = y
  BY <1>8 DEF Block, PtrLen
<1>9. ASSUME NEW n \in 1 .. k PROVE Blocks(now)[n] = Blocks(w)[n]
  <2>1. /\ Blocks(w)[n] \in Block
        /\ \A j \in 1 .. 3 : Blocks(w)[n][j] = w[5 + 3 * (n - 1) + j]
    BY BlockFacts
  <2>2. /\ Blocks(now)[n] \in Block
        /\ \A j \in 1 .. 3 : Blocks(now)[n][j] = now[5 + 3 * (n - 1) + j]
    <3>1. PICK K \in Nat : K = k + m
      OBVIOUS
    <3>2. Shaped(now, K)
      BY <1>7, <3>1
    <3>3. n \in 1 .. K
      BY <3>1
    <3>4. QED
      BY <3>2, <3>3, BlockAt
  <2>3. \A j \in 1 .. 3 : 5 + 3 * (n - 1) + j \in 1 .. Len(w)
    BY <1>2
  <2>4. \A j \in 1 .. 3 : Blocks(now)[n][j] = Blocks(w)[n][j]
    BY <1>4, <2>1, <2>2, <2>3
  <2>5. QED
    BY <1>8, <2>1, <2>2, <2>4
<1>10. ASSUME NEW n \in 1 .. m PROVE Blocks(now)[k + n] = b[n]
  <2>1. b[n] \in Block
    BY DEF Parts
  <2>2. /\ Blocks(now)[k + n] \in Block
        /\ \A j \in 1 .. 3 : Blocks(now)[k + n][j] = now[5 + 3 * (k + n - 1) + j]
    <3>1. PICK q : q = k + n
      OBVIOUS
    <3>2. PICK K \in Nat : K = k + m
      OBVIOUS
    <3>3. Shaped(now, K) /\ q \in 1 .. K
      BY <1>7, <3>1, <3>2
    <3>4. /\ Blocks(now)[q] \in Block
          /\ \A j \in 1 .. 3 : Blocks(now)[q][j] = now[5 + 3 * (q - 1) + j]
      BY <3>3, BlockAt
    <3>5. QED
      BY <3>1, <3>4
  <2>3. ASSUME NEW j \in 1 .. 3
        PROVE  now[5 + 3 * (k + n - 1) + j] = b[n][j]
    <3>1. 3 * (n - 1) + j \in 1 .. Len(c)
      BY <1>1
    <3>2. 5 + 3 * (k + n - 1) + j = 5 + 3 * k + (3 * (n - 1) + j)
      OBVIOUS
    <3>3. now[5 + 3 * k + (3 * (n - 1) + j)] = c[3 * (n - 1) + j]
      BY <1>5, <3>1
    <3>4. QED
      BY <1>1, <3>2, <3>3
  <2>4. \A j \in 1 .. 3 : Blocks(now)[k + n][j] = b[n][j]
    BY <2>2, <2>3
  <2>5. QED
    BY <1>8, <2>1, <2>2, <2>4
<1>11. k + m \in Nat /\ BlockNum(now) = k + m
  BY <1>7, BlockFacts
<1>12. QED
  BY <1>7, <1>9, <1>10, <1>11 DEF now, c

-----------------------------------------------------------------------------
(* Every data set is whole, and the last call lost no block and sorted     *)
(* what it sorted.                                                         *)
SetsInv == FilesInv /\ BlocksKept /\ SortOrders

LEMMA Words == 0 \in Word /\ NoIndex \in Word /\ MaxBlocks \in Nat /\ 1 .. MaxBlocks \subseteq Word
<1>1. NoIndex \in Word
  BY DataSetAssumption DEF NoIndex, Word
<1>2. QED
  BY <1>1, DataSetAssumption DEF Word

LEMMA DataFacts ==
    ASSUME PointerRows, NEW num \in Nat \ {0}, NEW data \in Data(num)
    PROVE  /\ DOMAIN data = 1 .. num /\ Len(data) = num
           /\ \A n \in 1 .. num : data[n] \in Seq(Word) /\ Len(data[n]) = 2
BY DataSetAssumption DEF PointerRows, Data, PtrLen, Word

LEMMA BlockMade ==
    ASSUME NEW x \in Word, NEW r \in Seq(Word), Len(r) = 2
    PROVE  <<x>> \o r \in Block
<1>1. <<x>> \in Seq(Word) /\ Len(<<x>>) = 1
  OBVIOUS
<1>2. <<x>> \o r \in Seq(Word) /\ Len(<<x>> \o r) = Len(<<x>>) + Len(r)
  BY <1>1, ConcatProperties
<1>3. QED
  BY <1>1, <1>2 DEF Block, PtrLen

(* A block read from a data set and given another index.                   *)
LEMMA BlockRenumbered ==
    ASSUME NEW x \in Word, NEW b \in Block
    PROVE  <<x>> \o Tail(b) \in Block
<1>1. b \in Seq(Word) /\ Len(b) = 3
  BY DEF Block, PtrLen
<1>2. Tail(b) \in Seq(Word) /\ Len(Tail(b)) = 2
  BY <1>1
<1>3. QED
  BY <1>2, BlockMade

LEMMA HeaderShaped ==
    ASSUME 3 \in Word
    PROVE  Shaped(Header(3), 0)
<1>1. Version \in Seq(Word) /\ Len(Version) = 4
  BY DataSetAssumption DEF Word
<1>2. <<3>> \in Seq(Word) /\ Len(<<3>>) = 1
  OBVIOUS
<1> DEFINE h == Version \o <<3>>
<1>3. /\ h \in Seq(Word)
      /\ Len(h) = Len(Version) + Len(<<3>>)
      /\ \A i \in 1 .. Len(Version) + Len(<<3>>) :
            h[i] = IF i <= Len(Version) THEN Version[i] ELSE <<3>>[i - Len(Version)]
  BY <1>1, <1>2, ConcatProperties, Zenon
<1>4. Len(h) = 5 /\ h[5] = 3 /\ \A i \in 1 .. 4 : h[i] = Version[i]
  <2>1. Len(Version) + Len(<<3>>) = 5 /\ Len(Version) = 4
    BY <1>1, <1>2
  <2> HIDE DEF h
  <2>2. h[5] = <<3>>[5 - 4]
    BY <1>3, <2>1
  <2>3. QED
    BY <1>3, <2>1, <2>2
<1> HIDE DEF h
<1>5. SubSeq(h, 1, 4) = Version
  <2>1. 1 \in Int /\ 4 \in Int /\ \A i \in 1 .. 4 : h[i] \in Word
    BY <1>3, <1>4
  <2> DEFINE a == SubSeq(h, 1, 4)
  <2>2. a \in Seq(Word) /\ Len(a) = 4 /\ \A i \in 1 .. 4 : a[i] = h[1 + i - 1]
    BY <2>1, SubSeqProperties
  <2> HIDE DEF a
  <2>3. \A i \in 1 .. 4 : 1 + i - 1 = i
    OBVIOUS
  <2>4. a = Version
    BY <1>1, <1>4, <2>2, <2>3
  <2>5. QED
    BY <2>4 DEF a
<1>6. Shaped(h, 0)
  BY <1>3, <1>4, <1>5 DEF Shaped, HeaderLen, PtrLen, BlockLen
<1>7. QED
  BY <1>6 DEF h, Header

(* A file is created.                                                      *)
LEMMA CreatedInv ==
    ASSUME FilesInv, NEW f \in Files, NEW op \in {"random", "shuffled", "array"}, NEW data,
           NEW h, Shaped(h, 0), NEW m \in Nat \ {0}, NEW b \in Parts(m),
           Became(op, f, data, h \o Concat(b))
    PROVE  SetsInv'
<1>1. \E k \in Nat : Shaped(h \o Concat(b), k)
  <2>1. Shaped(h \o Concat(b), 0 + m)
    BY Appended
  <2>2. 0 + m \in Nat
    OBVIOUS
  <2>3. QED
    BY <2>1, <2>2
<1>2. h \o Concat(b) \in Seq(Word)
  BY <1>1 DEF Shaped
<1>3. FilesInv'
  BY <1>1, <1>2 DEF FilesInv, Became, Exists
<1>4. call'.op \in {"random", "shuffled", "array"}
  BY DEF Became
<1>5. QED
  BY <1>3, <1>4 DEF SetsInv, BlocksKept, SortOrders

(* A file is extended.                                                     *)
LEMMA ExtendedInv ==
    ASSUME FilesInv, NEW f \in Files, Exists(f), NEW op \in {"char", "extendArray", "extendDs"},
           NEW data, NEW m \in Nat \ {0}, Len(data) = m, NEW b \in Parts(m),
           Became(op, f, data, fs[f] \o Concat(b))
    PROVE  SetsInv'
<1>1. PICK k \in Nat : Shaped(fs[f], k)
  BY DEF FilesInv
<1> DEFINE now == fs[f] \o Concat(b)
<1>2. /\ Shaped(now, k + m)
      /\ BlockNum(now) = k + m
      /\ \A n \in 1 .. k : Blocks(now)[n] = Blocks(fs[f])[n]
  <2>1. PICK w : w = fs[f]
    OBVIOUS
  <2>2. /\ Shaped(w \o Concat(b), k + m)
        /\ BlockNum(w \o Concat(b)) = k + m
        /\ \A n \in 1 .. k : Blocks(w \o Concat(b))[n] = Blocks(w)[n]
    BY <1>1, <2>1, Appended
  <2>3. QED
    BY <2>1, <2>2
<1>3. BlockNum(fs[f]) = k
  BY <1>1, BlockFacts
<1> HIDE DEF now
<1>4. /\ fs' = [fs EXCEPT ![f] = now]
      /\ call' = [op |-> op, on |-> f, data |-> data, old |-> fs[f]]
  BY DEF Became, now
<1>5. FilesInv'
  <2>1. now \in Seq(Word) /\ k + m \in Nat
    BY <1>2 DEF Shaped
  <2>2. QED
    BY <1>2, <1>4, <2>1 DEF FilesInv, Exists
<1>6. fs'[f] = now
  BY <1>4 DEF FilesInv
<1>7. BlocksKept'
  <2>1. /\ call'.op # "sort" /\ call'.on = f /\ call'.old = fs[f] /\ call'.data = data
    BY <1>4
  <2>2. QED
    BY <1>2, <1>3, <1>6, <2>1 DEF BlocksKept
<1>8. SortOrders'
  BY <1>4 DEF SortOrders
<1>9. QED
  BY <1>5, <1>7, <1>8 DEF SetsInv

LEMMA CreateInv ==
    ASSUME PointerRows, FilesInv, Create
    PROVE  SetsInv'
<1>1. PICK f \in Files, num \in 1 .. MaxBlocks : \E data \in Data(num) :
          \/ CreateRandom(f, data)
          \/ \E order \in Perms(num) : CreateShuffled(f, data, order)
          \/ CreateByArray(f, data)
  BY DEF Create
<1>2. PICK data \in Data(num) :
          \/ CreateRandom(f, data)
          \/ \E order \in Perms(num) : CreateShuffled(f, data, order)
          \/ CreateByArray(f, data)
  BY <1>1
<1>3. num \in Nat \ {0} /\ 1 .. num \subseteq Word
  BY Words
<1>4. /\ DOMAIN data = 1 .. num /\ Len(data) = num
      /\ \A n \in 1 .. num : data[n] \in Seq(Word) /\ Len(data[n]) = 2
  BY <1>3, DataFacts
<1>5. Shaped(Header(1 + Len(data[1])), 0)
  <2>1. data[1] \in Rows /\ Len(data[1]) = 2
    BY <1>3, <1>4 DEF Data
  <2>2. Len(data[1]) + 1 < WordMod /\ WordMod \in Nat
    BY <2>1, DataSetAssumption
  <2>3. 1 + Len(data[1]) = 3 /\ 3 \in Word
    BY <2>1, <2>2 DEF Word
  <2>4. QED
    BY <2>3, HeaderShaped
<1>6. CASE CreateRandom(f, data)
  <2> DEFINE b == [n \in 1 .. num |-> <<n>> \o data[n]]
  <2>1. b \in Parts(num)
    BY <1>3, <1>4, BlockMade DEF Parts
  <2>2. Became("random", f, data, Header(1 + Len(data[1])) \o Concat(b))
    BY <1>4, <1>6 DEF CreateRandom
  <2> HIDE DEF b
  <2>3. QED
    BY <1>3, <1>5, <2>1, <2>2, CreatedInv
<1>7. ASSUME NEW order \in Perms(num), CreateShuffled(f, data, order)
      PROVE  SetsInv'
  <2> DEFINE b == [n \in 1 .. num |-> <<order[n]>> \o data[n]]
  <2>1. \A n \in 1 .. num : order[n] \in Word
    BY <1>3 DEF Perms
  <2>2. b \in Parts(num)
    BY <1>4, <2>1, BlockMade DEF Parts
  <2>3. Became("shuffled", f, data, Header(1 + Len(data[1])) \o Concat(b))
    BY <1>4, <1>7 DEF CreateShuffled
  <2> HIDE DEF b
  <2>4. QED
    BY <1>3, <1>5, <2>2, <2>3, CreatedInv
<1>8. CASE CreateByArray(f, data)
  <2> DEFINE b == [n \in 1 .. num |-> <<n>> \o data[1]]
  <2>1. b \in Parts(num)
    BY <1>3, <1>4, BlockMade DEF Parts
  <2>2. Became("array", f, data, Header(1 + Len(data[1])) \o Concat(b))
    BY <1>4, <1>8 DEF CreateByArray
  <2> HIDE DEF b
  <2>3. QED
    BY <1>3, <1>5, <2>1, <2>2, CreatedInv
<1>9. QED
  BY <1>2, <1>6, <1>7, <1>8

LEMMA PadInv ==
    ASSUME FilesInv, PadWithChar
    PROVE  SetsInv'
<1>1. PICK f \in Files, num \in 1 .. 2 : Exists(f) /\ ExtendWithChar(f, num, 0)
  BY DEF PadWithChar
<1> DEFINE block == <<NoIndex>> \o [j \in 1 .. BlockLen(fs[f]) - 1 |-> 0]
           b     == [n \in 1 .. num |-> block]
           data  == [n \in 1 .. num |-> Tail(block)]
<1>2. BlockLen(fs[f]) = 3
  BY <1>1 DEF FilesInv, Shaped, PtrLen
<1>3. block \in Block
  <2> DEFINE r == [j \in 1 .. 2 |-> 0]
  <2>1. r \in Seq(Word) /\ Len(r) = 2
    BY Words
  <2> HIDE DEF r
  <2>2. <<NoIndex>> \o r \in Block
    BY <2>1, Words, BlockMade
  <2>3. r = [j \in 1 .. BlockLen(fs[f]) - 1 |-> 0]
    BY <1>2 DEF r
  <2>4. QED
    BY <2>2, <2>3
<1>4. Became("char", f, data, fs[f] \o Concat(b))
  BY <1>1 DEF ExtendWithChar
<1> HIDE DEF block
<1>5. b \in Parts(num) /\ Len(data) = num /\ num \in Nat \ {0}
  BY <1>3 DEF Parts
<1> HIDE DEF b, data
<1>6. QED
  BY <1>1, <1>4, <1>5, ExtendedInv

(* The word that is taken for the last index is a word of the file.        *)
LEMMA NextIndex ==
    ASSUME FilesInv, NEW f \in Files, Exists(f), NEW n \in Nat
    PROVE  (LastWord(fs[f]) + n) % WordMod \in Word
<1>1. PICK k \in Nat : Shaped(fs[f], k)
  BY DEF FilesInv
<1>2. fs[f] \in Seq(Word) /\ Len(fs[f]) \in 1 .. Len(fs[f])
  BY <1>1 DEF Shaped, HeaderLen, PtrLen
<1>3. LastWord(fs[f]) \in Word
  BY <1>2 DEF LastWord
<1>4. QED
  BY <1>3, DataSetAssumption DEF Word

LEMMA AppendArrayInv ==
    ASSUME PointerRows, FilesInv, AppendArray
    PROVE  SetsInv'
<1>1. PICK f \in Files, num \in 1 .. 2 :
          \E data \in Data(num) : Exists(f) /\ ExtendByArray(f, data)
  BY DEF AppendArray
<1>2. PICK data \in Data(num) : Exists(f) /\ ExtendByArray(f, data)
  BY <1>1
<1> DEFINE b == [n \in 1 .. num |-> <<(LastWord(fs[f]) + n) % WordMod>> \o data[n]]
<1>3. num \in Nat \ {0}
  OBVIOUS
<1>4. /\ DOMAIN data = 1 .. num /\ Len(data) = num
      /\ \A n \in 1 .. num : data[n] \in Seq(Word) /\ Len(data[n]) = 2
  BY <1>3, DataFacts
<1>5. b \in Parts(num)
  <2>1. \A n \in 1 .. num : (LastWord(fs[f]) + n) % WordMod \in Word
    BY <1>2, NextIndex
  <2>2. QED
    BY <1>4, <2>1, BlockMade DEF Parts
<1>6. Became("extendArray", f, data, fs[f] \o Concat(b))
  BY <1>2, <1>4 DEF ExtendByArray
<1> HIDE DEF b
<1>7. QED
  BY <1>2, <1>3, <1>4, <1>5, <1>6, ExtendedInv

(* The input is read from its first word, but as many blocks are read as   *)
(* it has, and all of them are whole.                                      *)
LEMMA AppendDsInv ==
    ASSUME FilesInv, AppendDs
    PROVE  SetsInv'
<1>1. PICK f \in Files, g \in Files : Exists(f) /\ Exists(g) /\ ExtendByDs(f, g)
  BY DEF AppendDs
<1> DEFINE w    == fs[g]
           len  == BlockLen(w)
           full == {n \in 0 .. BlockNum(w) : n * len <= Len(w)}
           num  == CHOOSE n \in full : \A x \in full : x <= n
           Renumbered(n) == <<(LastWord(fs[f]) + n) % WordMod>> \o Tail(Chunk(w, len, n))
           b    == [n \in 1 .. num |-> Renumbered(n)]
           data == [n \in 1 .. BlockNum(w) |-> Tail(Blocks(w)[n])]
<1>2. Verified(g) /\ Became("extendDs", f, data, fs[f] \o Concat(b))
  BY <1>1 DEF ExtendByDs
<1>3. PICK k \in Nat : Shaped(w, k)
  BY <1>1 DEF FilesInv
<1>4. /\ BlockNum(w) = k /\ len = 3 /\ w \in Seq(Word) /\ Len(w) = 5 + 3 * k /\ k > 0
  <2>1. BlockNum(w) = k
    BY <1>3, BlockFacts
  <2>2. QED
    BY <1>2, <1>3, <2>1 DEF Shaped, HeaderLen, PtrLen, Verified
<1>5. num = k
  <2>1. full = 0 .. k
    BY <1>4
  <2>2. k \in full /\ (\A x \in full : x <= k) /\ full \subseteq Int
    BY <2>1
  <2> HIDE DEF full
  <2>3. num \in full /\ \A x \in full : x <= num
    <3>1. \E n \in full : \A x \in full : x <= n
      BY <2>2
    <3>2. QED
      BY <3>1, Zenon
  <2> HIDE DEF num
  <2>4. QED
    BY <2>2, <2>3
<1> HIDE DEF num, w
<1>6. ASSUME NEW n \in 1 .. k PROVE Renumbered(n) \in Block
  <2> DEFINE lo == (n - 1) * len + 1
             hi == n * len
  <2>1. lo = 3 * n - 2 /\ hi = 3 * n
    BY <1>4
  <2>2. lo \in Int /\ hi \in Int /\ lo <= hi /\ hi - lo + 1 = 3
    BY <2>1
  <2>3. \A i \in lo .. hi : w[i] \in Word
    BY <1>4, <2>1
  <2> HIDE DEF lo, hi
  <2>4. /\ SubSeq(w, lo, hi) \in Seq(Word)
        /\ Len(SubSeq(w, lo, hi)) = IF lo <= hi THEN hi - lo + 1 ELSE 0
    BY <2>2, <2>3, SubSeqProperties
  <2>5. SubSeq(w, lo, hi) \in Block
    BY <2>2, <2>4 DEF Block, PtrLen
  <2>6. Chunk(w, len, n) \in Block
    BY <2>5 DEF Chunk, lo, hi
  <2>7. (LastWord(fs[f]) + n) % WordMod \in Word
    BY <1>1, NextIndex
  <2>8. QED
    BY <2>6, <2>7, BlockRenumbered
<1>7. k \in Nat \ {0} /\ Len(data) = k /\ b \in Parts(k)
  BY <1>4, <1>5, <1>6 DEF Parts
<1> HIDE DEF b, data
<1>8. QED
  BY <1>1, <1>2, <1>7, ExtendedInv

-----------------------------------------------------------------------------
(* The places at which a block stands.                                     *)
Places(B, k, b) == {n \in 1 .. k : B[n] = b}

LEMMA TimesPlaces == \A b, w : Times(b, w) = Cardinality(Places(Blocks(w), BlockNum(w), b))
BY DEF Times, Places

(* qsort moves blocks and loses none.                                      *)
LEMMA Permuted ==
    ASSUME NEW k \in Nat, NEW p \in Perms(k), NEW B, NEW b,
           NEW moved, \A n \in 1 .. k : moved[n] = B[p[n]]
    PROVE  Cardinality(Places(moved, k, b)) = Cardinality(Places(B, k, b))
<1> DEFINE N == 1 .. k
           A == {n \in N : B[p[n]] = b}
           C == {n \in N : B[n] = b}
<1>1. IsFiniteSet(N)
  BY FS_Interval
<1>2. p \in Injection(N, N)
  BY DEF Perms, Injection, IsInjective
<1>3. p \in Surjection(N, N)
  BY <1>1, <1>2, FS_Injection
<1> DEFINE q == [n \in A |-> p[n]]
<1>4. q \in [A -> C]
  BY DEF Perms
<1>5. q \in Injection(A, C)
  BY <1>4 DEF Perms, Injection, IsInjective
<1>6. q \in Surjection(A, C)
  <2>1. ASSUME NEW c \in C PROVE \E n \in A : q[n] = c
    BY <1>3 DEF Surjection
  <2>2. QED
    BY <1>4, <2>1 DEF Surjection
<1>7. ExistsBijection(A, C)
  BY <1>5, <1>6 DEF ExistsBijection, Bijection
<1>8. IsFiniteSet(A)
  <2>1. A \subseteq N
    OBVIOUS
  <2>2. QED
    BY <1>1, <2>1, FS_Subset
<1> HIDE DEF A, C
<1>9. Cardinality(C) = Cardinality(A)
  BY <1>7, <1>8, FS_Bijection
<1>10. Places(moved, k, b) = A /\ Places(B, k, b) = C
  BY DEF Places, A, C
<1>11. QED
  BY <1>9, <1>10

(* Indices that are near each other are compared as they should be.        *)
LEMMA CompareExact ==
    ASSUME NEW a, NEW b, a[1] \in Word, b[1] \in Word,
           AsInt(a[1]) - AsInt(b[1]) <= NoIndex,
           AsInt(b[1]) - AsInt(a[1]) <= NoIndex
    PROVE  Compare(a, b) = AsInt(a[1]) - AsInt(b[1])
<1> DEFINE x == a[1]
           y == b[1]
           M == NoIndex
           W == WordMod
<1>1. W \in Nat /\ M \in Nat /\ 2 * M + 2 <= W /\ x \in 0 .. W - 1 /\ y \in 0 .. W - 1
  BY DataSetAssumption DEF NoIndex, Word
<1>2. \A z \in Int : z <= M => AsInt(z) = z
  BY DEF AsInt
<1>3. \A z \in Int : z > M => AsInt(z) = z - W
  BY <1>1 DEF AsInt
<1>4. \A z \in 0 .. W - 1 : z % W = z
  BY <1>1
<1>5. \A z \in -W .. -1 : z % W = z + W
  BY <1>1
<1>6. Compare(a, b) = AsInt((x - y) % W)
  BY DEF Compare
<1>7. AsInt(x) - AsInt(y) <= M /\ AsInt(y) - AsInt(x) <= M
  OBVIOUS
<1> HIDE DEF x, y, M, W
<1>8. PICK c : c = (x - y) % W
  OBVIOUS
<1>9. CASE x >= y
  <2>1. c = x - y
    BY <1>1, <1>4, <1>8, <1>9
  <2>2. QED
    BY <1>1, <1>2, <1>3, <1>6, <1>7, <1>8, <1>9, <2>1 DEF x, y
<1>10. CASE x < y
  <2>1. c = x - y + W
    BY <1>1, <1>5, <1>8, <1>10
  <2>2. QED
    BY <1>1, <1>2, <1>3, <1>6, <1>7, <1>8, <1>10, <2>1 DEF x, y
<1>11. QED
  BY <1>1, <1>9, <1>10

LEMMA SortInv ==
    ASSUME FilesInv, Sort
    PROVE  SetsInv'
<1>1. PICK f \in Files, g \in Files : SortByIndex(f, g)
  BY DEF Sort
<1> DEFINE w == fs[f]
           B == Blocks(w)
<1>2. PICK k \in Nat : Shaped(w, k)
  BY <1>1 DEF FilesInv, SortByIndex, Verified
<1>3. /\ BlockNum(w) = k /\ DOMAIN B = 1 .. k /\ Len(B) = k
      /\ \A n \in 1 .. k : B[n] \in Block
      /\ BlockLen(w) = 3 /\ 3 \in Word
  <2>1. w \in Seq(Word) /\ 5 \in 1 .. Len(w) /\ BlockLen(w) = 3 /\ BlockLen(w) = w[5]
    BY <1>2 DEF Shaped, HeaderLen, PtrLen, BlockLen
  <2>2. w[5] \in Word
    BY <2>1
  <2>3. QED
    BY <1>2, <2>1, <2>2, BlockFacts
<1>4. k \in Nat \ {0}
  BY <1>1, <1>3 DEF SortByIndex, Verified
<1>5. PICK p \in Perms(k) :
          /\ SortedBy(B, p)
          /\ fs' = [fs EXCEPT ![g] = Header(3) \o Concat([n \in 1 .. k |-> B[p[n]]])]
          /\ call' = [op |-> "sort", on |-> g, data |-> <<>>, old |-> w]
  BY <1>1, <1>3 DEF SortByIndex
<1> DEFINE b   == [n \in 1 .. k |-> B[p[n]]]
           now == Header(3) \o Concat(b)
<1>6. p \in [1 .. k -> 1 .. k]
  BY DEF Perms
<1> HIDE DEF B, w
<1>7. b \in Parts(k)
  BY <1>3, <1>6 DEF Parts
<1>8. Shaped(now, k) /\ BlockNum(now) = k /\ \A n \in 1 .. k : Blocks(now)[n] = B[p[n]]
  <2>1. Shaped(Header(3), 0)
    BY <1>3, HeaderShaped
  <2> HIDE DEF b
  <2>2. /\ Shaped(now, 0 + k) /\ BlockNum(now) = 0 + k
        /\ \A n \in 1 .. k : Blocks(now)[0 + n] = b[n]
    <3>1. PICK h, z : h = Header(3) /\ z = 0
      OBVIOUS
    <3>2. z \in Nat /\ Shaped(h, z)
      BY <2>1, <3>1
    <3>3. /\ Shaped(h \o Concat(b), z + k) /\ BlockNum(h \o Concat(b)) = z + k
          /\ \A n \in 1 .. k : Blocks(h \o Concat(b))[z + n] = b[n]
      BY <1>4, <1>7, <3>2, Appended
    <3>4. QED
      BY <3>1, <3>3
  <2>3. 0 + k = k /\ \A n \in 1 .. k : 0 + n = n
    BY <1>4
  <2>4. QED
    BY <2>2, <2>3 DEF b
<1> HIDE DEF now
<1>9. now \in Seq(Word)
  BY <1>8 DEF Shaped
<1>10. fs' = [fs EXCEPT ![g] = now]
  BY <1>5 DEF now
<1>11. FilesInv'
  BY <1>8, <1>9, <1>10 DEF FilesInv, Exists
<1>12. /\ fs'[call'.on] = now /\ call'.op = "sort" /\ call'.old = w /\ Len(call'.data) = 0
  BY <1>5, <1>10 DEF FilesInv
<1>13. BlocksKept'
  <2>1. ASSUME NEW n \in 1 .. k PROVE Times(B[n], now) = Times(B[n], w)
    <3>1. Cardinality(Places(Blocks(now), k, B[n])) = Cardinality(Places(B, k, B[n]))
      BY <1>8, Permuted
    <3>2. QED
      BY <1>3, <1>8, <3>1, TimesPlaces DEF B
  <2>2. BlockNum(now) = BlockNum(w) + Len(call'.data)
    BY <1>3, <1>8, <1>12
  <2>3. \A n \in 1 .. BlockNum(w) : Times(Blocks(w)[n], now) = Times(Blocks(w)[n], w)
    BY <1>3, <2>1 DEF B
  <2>4. QED
    BY <1>12, <2>2, <2>3 DEF BlocksKept
<1>14. SortOrders'
  <2>1. SUFFICES ASSUME Near(w), NEW n \in 1 .. k - 1
                 PROVE  Indices(now)[n] <= Indices(now)[n + 1]
    BY <1>8, <1>12 DEF SortOrders, Ordered
  <2>2. n \in 1 .. k /\ n + 1 \in 1 .. k
    BY <1>4
  <2>3. Indices(now)[n] = AsInt(B[p[n]][1]) /\ Indices(now)[n + 1] = AsInt(B[p[n + 1]][1])
    BY <1>8, <2>2 DEF Indices
  <2>4. PICK x \in 1 .. k, y \in 1 .. k : x = p[n] /\ y = p[n + 1]
    BY <1>6, <2>2
  <2>5. Indices(w) = [i \in 1 .. k |-> AsInt(B[i][1])]
    BY <1>3 DEF Indices, B
  <2>6. /\ AsInt(B[x][1]) - AsInt(B[y][1]) <= NoIndex
        /\ AsInt(B[y][1]) - AsInt(B[x][1]) <= NoIndex
    BY <1>3, <2>1, <2>5 DEF Near
  <2>7. B[x][1] \in Word /\ B[y][1] \in Word
    BY <1>3 DEF Block, PtrLen
  <2>8. Compare(B[x], B[y]) = AsInt(B[x][1]) - AsInt(B[y][1])
    BY <2>6, <2>7, CompareExact
  <2>9. Compare(B[x], B[y]) <= 0
    BY <1>3, <1>5, <2>1, <2>4 DEF SortedBy
  <2>10. AsInt(B[x][1]) \in Int /\ AsInt(B[y][1]) \in Int
    BY <2>7, DataSetAssumption DEF AsInt, Word
  <2>11. AsInt(B[x][1]) <= AsInt(B[y][1])
    BY <2>8, <2>9, <2>10
  <2>12. QED
    BY <2>3, <2>4, <2>11
<1>15. QED
  BY <1>11, <1>13, <1>14 DEF SetsInv

-----------------------------------------------------------------------------
LEMMA InitSets == DataSetInit => SetsInv
<1> SUFFICES ASSUME DataSetInit PROVE SetsInv
  OBVIOUS
<1>1. FilesInv
  BY DEF DataSetInit, FilesInv, Exists
<1>2. call.op = "none"
  BY DEF DataSetInit, NoCall
<1>3. QED
  BY <1>1, <1>2 DEF SetsInv, BlocksKept, SortOrders

LEMMA DataSetStep ==
    ASSUME PointerRows, SetsInv, [DataSetNext]_dataSetVars
    PROVE  SetsInv'
<1>1. FilesInv
  BY DEF SetsInv
<1>2. CASE Create
  BY <1>1, <1>2, CreateInv
<1>3. CASE PadWithChar
  BY <1>1, <1>3, PadInv
<1>4. CASE AppendArray
  BY <1>1, <1>4, AppendArrayInv
<1>5. CASE AppendDs
  BY <1>1, <1>5, AppendDsInv
<1>6. CASE Sort
  BY <1>1, <1>6, SortInv
<1>7. CASE UNCHANGED dataSetVars
  BY <1>7 DEF dataSetVars, SetsInv, FilesInv, Exists, BlocksKept, SortOrders
<1>8. QED
  BY <1>2, <1>3, <1>4, <1>5, <1>6, <1>7 DEF DataSetNext

LEMMA DataSetInv == PointerRows => (DataSetSpec => []SetsInv)
<1> SUFFICES ASSUME PointerRows PROVE DataSetSpec => []SetsInv
  OBVIOUS
<1>1. SetsInv /\ [DataSetNext]_dataSetVars => SetsInv'
  BY DataSetStep
<1>2. QED
  BY <1>1, InitSets, PTL DEF DataSetSpec

LEMMA InvWhole == SetsInv => FilesWhole
<1> SUFFICES ASSUME SetsInv PROVE FilesWhole
  OBVIOUS
<1>1. FilesInv
  BY DEF SetsInv
<1>2. ASSUME NEW f \in Files, Exists(f)
      PROVE  SubSeq(fs[f], 1, 4) = Version /\ Whole(fs[f])
  <2>1. PICK k \in Nat : Shaped(fs[f], k)
    BY <1>1, <1>2 DEF FilesInv
  <2>2. QED
    BY <2>1, BlockFacts DEF Shaped
<1>3. QED
  BY <1>1, <1>2 DEF FilesWhole, FilesTypeOK, WholeBlocks, FilesInv

(* As long as data are as long as a pointer, every data set keeps its      *)
(* version and is made of whole blocks, whatever calls made it.            *)
THEOREM DataSetsWhole == PointerRows => (DataSetSpec => []FilesWhole)
BY DataSetInv, InvWhole, PTL

(* Extending and sorting lose no block of such a data set.                 *)
THEOREM DataSetsKept == PointerRows => (DataSetSpec => []BlocksKept)
<1>1. SetsInv => BlocksKept
  BY DEF SetsInv
<1>2. QED
  BY <1>1, DataSetInv, PTL

(* Sorting puts the indices in order when an int holds what lies between   *)
(* any two of them.                                                        *)
THEOREM DataSetsSorted == PointerRows => (DataSetSpec => []SortOrders)
<1>1. SetsInv => SortOrders
  BY DEF SetsInv
<1>2. QED
  BY <1>1, DataSetInv, PTL
=============================================================================
