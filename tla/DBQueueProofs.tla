---------------------------- MODULE DBQueueProofs ----------------------------
(***************************************************************************)
(* Proofs about DBQueue, for every finite set of nodes and callers that    *)
(* are careful: the linked queue is a chain in both directions, accounts   *)
(* for every node of the pool, and implements the sequence of NodeQueue.   *)
(***************************************************************************)
EXTENDS DBQueue, FiniteSetTheorems, SequenceTheorems, WellFoundedInduction, TLAPS

-----------------------------------------------------------------------------
(* Induction and recursion over the natural numbers, stated with sets and  *)
(* functions.                                                              *)
LEMMA LeastNat ==
    ASSUME NEW T, T \subseteq Nat, T # {}
    PROVE  \E m \in T : \A k \in T : m <= k
<1> DEFINE R == OpToRel(<, Nat)
<1>1. IsWellFoundedOn(R, Nat)
  BY NatLessThanWellFounded
<1>2. \A x, y \in Nat : <<y, x>> \in R <=> y < x
  BY DEF OpToRel
<1> HIDE DEF R
<1>3. PICK m \in T : \A y \in T : ~(<<y, m>> \in R)
  BY <1>1, WFMin
<1>4. m \in Nat /\ \A k \in T : k \in Nat
  OBVIOUS
<1>5. ASSUME NEW k \in T PROVE m <= k
  <2>1. ~(<<k, m>> \in R) /\ k \in Nat
    BY <1>3, <1>4
  <2>2. ~(k < m)
    BY <1>2, <1>4, <2>1
  <2>3. QED
    BY <1>4, <2>1, <2>2
<1>6. QED
  BY <1>5

LEMMA NatInduct ==
    ASSUME NEW S, 0 \in S, \A n \in Nat : n \in S => n + 1 \in S
    PROVE  Nat \subseteq S
<1> DEFINE D == Nat \ S
<1>1. SUFFICES ASSUME D # {} PROVE FALSE
  OBVIOUS
<1>2. D \subseteq Nat
  OBVIOUS
<1> HIDE DEF D
<1>3. PICK m \in D : \A k \in D : m <= k
  BY <1>1, <1>2, LeastNat
<1>4. m \in Nat /\ m \notin S /\ m # 0
  BY <1>3 DEF D
<1>5. m - 1 \in Nat /\ m - 1 \notin D
  BY <1>2, <1>3, <1>4
<1>6. (m - 1) + 1 \in S
  BY <1>5 DEF D
<1>7. QED
  BY <1>4, <1>6

(* F can be iterated from x0: the least set of pairs that holds <<0, x0>>  *)
(* and is closed under F is a function.                                    *)
Iterates(f, V, x0, F) ==
    /\ f \in [Nat -> V] /\ f[0] = x0
    /\ \A k \in Nat : f[k + 1] = F[f[k]]

LEMMA Iteration ==
    ASSUME NEW V, NEW x0, NEW F, x0 \in V, \A x \in V : F[x] \in V
    PROVE  \E f : Iterates(f, V, x0, F)
<1> DEFINE Shut(T) == /\ <<0, x0>> \in T
                      /\ \A k \in Nat, x \in V : <<k, x>> \in T => <<k + 1, F[x]>> \in T
           R == {p \in Nat \X V : \A T \in SUBSET (Nat \X V) : Shut(T) => p \in T}
<1>1. R \in SUBSET (Nat \X V) /\ Shut(R)
  <2>1. <<0, x0>> \in R
    OBVIOUS
  <2>2. ASSUME NEW k \in Nat, NEW x \in V, <<k, x>> \in R PROVE <<k + 1, F[x]>> \in R
    <3>1. <<k + 1, F[x]>> \in Nat \X V
      OBVIOUS
    <3>2. ASSUME NEW T \in SUBSET (Nat \X V), Shut(T) PROVE <<k + 1, F[x]>> \in T
      BY <2>2, <3>2
    <3>3. QED
      BY <3>1, <3>2
  <2>3. QED
    BY <2>1, <2>2
<1>2. \A T \in SUBSET (Nat \X V) : Shut(T) => R \subseteq T
  OBVIOUS
<1> HIDE DEF R
<1> DEFINE One(k) == \E x \in V : <<k, x>> \in R /\ \A y \in V : <<k, y>> \in R => y = x
           S == {k \in Nat : One(k)}
<1>3. 0 \in S
  <2>1. ASSUME NEW y \in V, <<0, y>> \in R, y # x0 PROVE FALSE
    <3> DEFINE T == R \ {<<0, y>>}
    <3>1. T \in SUBSET (Nat \X V)
      BY <1>1
    <3>2. Shut(T)
      BY <1>1, <2>1
    <3>3. R \subseteq T
      BY <1>2, <3>1, <3>2
    <3>4. QED
      BY <2>1, <3>3
  <2>2. QED
    BY <1>1, <2>1
<1>4. ASSUME NEW k \in Nat, k \in S PROVE k + 1 \in S
  <2>1. PICK x \in V : <<k, x>> \in R /\ \A y \in V : <<k, y>> \in R => y = x
    BY <1>4
  <2>2. F[x] \in V /\ <<k + 1, F[x]>> \in R
    BY <1>1, <2>1
  <2>3. ASSUME NEW y \in V, <<k + 1, y>> \in R, y # F[x] PROVE FALSE
    <3> DEFINE T == R \ {<<k + 1, y>>}
    <3>1. T \in SUBSET (Nat \X V)
      BY <1>1
    <3>2. <<0, x0>> \in T
      BY <1>1
    <3>3. ASSUME NEW j \in Nat, NEW u \in V, <<j, u>> \in T PROVE <<j + 1, F[u]>> \in T
      <4>1. <<j, u>> \in R /\ <<j + 1, F[u]>> \in R
        BY <1>1, <3>3
      <4>2. j = k => u = x
        BY <2>1, <4>1
      <4>3. QED
        BY <2>3, <4>1, <4>2
    <3>4. R \subseteq T
      BY <1>2, <3>1, <3>2, <3>3
    <3>5. QED
      BY <2>3, <3>4
  <2>4. QED
    BY <2>2, <2>3
<1> HIDE DEF S
<1>5. Nat \subseteq S
  BY <1>3, <1>4, NatInduct
<1>6. \A k \in Nat : One(k)
  BY <1>5 DEF S
<1> DEFINE f == [k \in Nat |-> CHOOSE x \in V : <<k, x>> \in R]
<1>7. \A k \in Nat : f[k] \in V /\ <<k, f[k]>> \in R
  BY <1>6
<1> HIDE DEF f
<1>8. f[0] = x0
  BY <1>1, <1>6, <1>7
<1>9. ASSUME NEW k \in Nat PROVE f[k + 1] = F[f[k]]
  <2>1. <<k + 1, F[f[k]]>> \in R /\ F[f[k]] \in V
    BY <1>1, <1>7
  <2>2. <<k + 1, f[k + 1]>> \in R /\ f[k + 1] \in V
    BY <1>7
  <2>3. One(k + 1)
    BY <1>6
  <2>4. PICK x \in V : \A y \in V : <<k + 1, y>> \in R => y = x
    BY <2>3
  <2>5. QED
    BY <2>1, <2>2, <2>4
<1>10. f \in [Nat -> V]
  BY <1>7 DEF f
<1>11. Iterates(f, V, x0, F)
  BY <1>8, <1>9, <1>10 DEF Iterates
<1>12. QED
  BY <1>11

-----------------------------------------------------------------------------
(* A function on 1 .. n is a sequence.                                     *)
LEMMA RowIsSeq ==
    ASSUME NEW S, NEW n \in Nat, NEW d \in [1 .. n -> S]
    PROVE  d \in Seq(S) /\ Len(d) = n
OBVIOUS

(* The recursive function of Walk exists and satisfies its equation.       *)
LEMMA WalkUnfolds ==
    ASSUME NEW link \in [Node -> Node \cup {Null}]
    PROVE  \E w : /\ \A m : Walk(link, m) = w[Cardinality(Node)][m]
                  /\ \A k \in Nat, m \in Node \cup {Null} :
                        w[k][m] = IF k = 0 \/ m = Null THEN <<>>
                                  ELSE <<m>> \o w[k - 1][link[m]]
<1> DEFINE M == Node \cup {Null}
           Eq(w) == w = [k \in Nat |-> [m \in M |->
                            IF k = 0 \/ m = Null THEN <<>> ELSE <<m>> \o w[k - 1][link[m]]]]
<1>1. \E w : Eq(w)
  <2> DEFINE V == [M -> Seq(Node)]
             x0 == [m \in M |-> <<>>]
             F == [g \in V |-> [m \in M |-> IF m = Null THEN <<>> ELSE <<m>> \o g[link[m]]]]
  <2>1. x0 \in V
    OBVIOUS
  <2>2. F \in [V -> V]
    <3> SUFFICES ASSUME NEW g \in V, NEW m \in M
                 PROVE  (IF m = Null THEN <<>> ELSE <<m>> \o g[link[m]]) \in Seq(Node)
      OBVIOUS
    <3>1. CASE m = Null
      BY <3>1
    <3>2. CASE m # Null
      <4>1. m \in Node /\ link[m] \in M
        BY <3>2
      <4>2. <<m>> \in Seq(Node) /\ g[link[m]] \in Seq(Node)
        BY <4>1
      <4>3. QED
        BY <3>2, <4>2, ConcatProperties
    <3>3. QED
      BY <3>1, <3>2
  <2> HIDE DEF V, x0
  <2>3a. PICK f : Iterates(f, V, x0, F)
    <3> HIDE DEF F
    <3>1. x0 \in V /\ \A x \in V : F[x] \in V
      BY <2>1, <2>2
    <3>2. QED
      BY <3>1, Iteration, Zenon
  <2>3. f \in [Nat -> V] /\ f[0] = x0 /\ \A k \in Nat : f[k + 1] = F[f[k]]
    BY <2>3a DEF Iterates
  <2>4. ASSUME NEW k \in Nat
        PROVE  f[k] = [m \in M |-> IF k = 0 \/ m = Null THEN <<>>
                                   ELSE <<m>> \o f[k - 1][link[m]]]
    <3>1. CASE k = 0
      BY <2>3, <3>1 DEF x0
    <3>2. CASE k # 0
      <4>1. k - 1 \in Nat /\ (k - 1) + 1 = k
        BY <3>2
      <4>2. f[k] = F[f[k - 1]] /\ f[k - 1] \in V
        BY <2>3, <4>1
      <4>3. F[f[k - 1]] = [m \in M |-> IF m = Null THEN <<>> ELSE <<m>> \o f[k - 1][link[m]]]
        BY <4>2
      <4>4. QED
        BY <3>2, <4>2, <4>3
    <3>3. QED
      BY <3>1, <3>2
  <2>5. Eq(f)
    BY <2>3, <2>4
  <2>6. QED
    BY <2>5
<1>2. PICK w : w = (CHOOSE u : Eq(u)) /\ Eq(w)
  BY <1>1, Zenon
<1>3. \A m : Walk(link, m) = w[Cardinality(Node)][m]
  BY <1>2 DEF Walk
<1>4. \A k \in Nat : w[k] = [m \in M |-> IF k = 0 \/ m = Null THEN <<>>
                                        ELSE <<m>> \o w[k - 1][link[m]]]
  BY <1>2
<1>5. \A k \in Nat, m \in M : w[k][m] = IF k = 0 \/ m = Null THEN <<>>
                                        ELSE <<m>> \o w[k - 1][link[m]]
  BY <1>4
<1>6. QED
  BY <1>3, <1>5

(* Walk follows a chain to its end.                                        *)
LEMMA WalkChain ==
    ASSUME NEW link \in [Node -> Node \cup {Null}],
           NEW n \in Nat, n <= Cardinality(Node), Cardinality(Node) \in Nat,
           NEW d \in [1 .. n -> Node],
           \A i \in 1 .. n : link[d[i]] = IF i = n THEN Null ELSE d[i + 1]
    PROVE  Walk(link, IF n = 0 THEN Null ELSE d[1]) = d
<1> DEFINE At(j)   == IF j = n + 1 THEN Null ELSE d[j]
           Rest(j) == [i \in 1 .. n - j + 1 |-> d[j + i - 1]]
<1>1. PICK w : /\ \A m : Walk(link, m) = w[Cardinality(Node)][m]
               /\ \A k \in Nat, m \in Node \cup {Null} :
                     w[k][m] = IF k = 0 \/ m = Null THEN <<>>
                               ELSE <<m>> \o w[k - 1][link[m]]
  BY WalkUnfolds
<1>1a. ASSUME NEW k \in Nat, NEW m \in Node \cup {Null}
       PROVE  w[k + 1][m] = IF m = Null THEN <<>> ELSE <<m>> \o w[k][link[m]]
  <2>1. k + 1 \in Nat /\ k + 1 # 0 /\ (k + 1) - 1 = k
    OBVIOUS
  <2>2. w[k + 1][m] = IF k + 1 = 0 \/ m = Null THEN <<>>
                      ELSE <<m>> \o w[(k + 1) - 1][link[m]]
    BY <1>1, <2>1
  <2>3. QED
    BY <2>1, <2>2
<1>2. \A j \in 1 .. n + 1 : /\ Rest(j) \in Seq(Node) /\ Len(Rest(j)) = n - j + 1
                            /\ At(j) \in Node \cup {Null}
  <2> SUFFICES ASSUME NEW j \in 1 .. n + 1
               PROVE  /\ Rest(j) \in Seq(Node) /\ Len(Rest(j)) = n - j + 1
                      /\ At(j) \in Node \cup {Null}
    OBVIOUS
  <2>1. n - j + 1 \in Nat /\ Rest(j) \in [1 .. n - j + 1 -> Node]
    OBVIOUS
  <2>2. QED
    BY <2>1, RowIsSeq
<1>3. Rest(n + 1) = <<>>
  BY <1>2
<1>4. \A j \in 1 .. n : Rest(j) = <<d[j]>> \o Rest(j + 1)
  <2> SUFFICES ASSUME NEW j \in 1 .. n PROVE Rest(j) = <<d[j]>> \o Rest(j + 1)
    OBVIOUS
  <2>1. /\ d[j] \in Node /\ <<d[j]>> \in Seq(Node) /\ Len(<<d[j]>>) = 1
        /\ Rest(j + 1) \in Seq(Node) /\ Len(Rest(j + 1)) = n - j
        /\ Rest(j) \in Seq(Node) /\ Len(Rest(j)) = n - j + 1
    BY <1>2
  <2>2. /\ <<d[j]>> \o Rest(j + 1) \in Seq(Node)
        /\ Len(<<d[j]>> \o Rest(j + 1)) = n - j + 1
        /\ \A i \in 1 .. n - j + 1 : (<<d[j]>> \o Rest(j + 1))[i] =
              IF i <= 1 THEN <<d[j]>>[i] ELSE Rest(j + 1)[i - 1]
    <3> DEFINE s == <<d[j]>>
               t == Rest(j + 1)
    <3> HIDE DEF Rest, s, t
    <3>1. s \in Seq(Node) /\ Len(s) = 1 /\ t \in Seq(Node) /\ Len(t) = n - j
      BY <2>1 DEF s, t
    <3>2. /\ s \o t \in Seq(Node) /\ Len(s \o t) = Len(s) + Len(t)
          /\ \A i \in 1 .. Len(s) + Len(t) :
                (s \o t)[i] = IF i <= Len(s) THEN s[i] ELSE t[i - Len(s)]
      BY ONLY <3>1, ConcatProperties
    <3>3. Len(s) + Len(t) = n - j + 1
      BY <3>1
    <3>4. QED
      BY <3>1, <3>2, <3>3 DEF s, t
  <2>3. \A i \in 1 .. n - j + 1 : Rest(j)[i] = (<<d[j]>> \o Rest(j + 1))[i]
    BY <2>2
  <2> HIDE DEF Rest
  <2>4. QED
    BY <2>1, <2>2, <2>3, SeqEqual
<1> HIDE DEF Rest
<1> DEFINE S == {k \in Nat : \A j \in 1 .. n + 1 : n - j + 1 <= k => w[k][At(j)] = Rest(j)}
<1>5. 0 \in S
  <2> SUFFICES ASSUME NEW j \in 1 .. n + 1, n - j + 1 <= 0 PROVE w[0][At(j)] = Rest(j)
    OBVIOUS
  <2>1. j = n + 1
    OBVIOUS
  <2>2. w[0][At(j)] = <<>>
    BY <1>1, <1>2
  <2>3. QED
    BY <1>3, <2>1, <2>2
<1>6. ASSUME NEW k \in Nat, k \in S PROVE k + 1 \in S
  <2> SUFFICES ASSUME NEW j \in 1 .. n + 1, n - j + 1 <= k + 1
               PROVE  w[k + 1][At(j)] = Rest(j)
    OBVIOUS
  <2>1. CASE j = n + 1
    BY <1>1a, <1>3, <2>1
  <2>2. CASE j # n + 1
    <3>1. j \in 1 .. n /\ j + 1 \in 1 .. n + 1 /\ At(j) = d[j] /\ d[j] \in Node /\ d[j] # Null
      BY <2>2, QueueAssumption
    <3>2. link[d[j]] = At(j + 1)
      BY <3>1
    <3>3. w[k + 1][d[j]] = <<d[j]>> \o w[k][link[d[j]]]
      BY <1>1a, <3>1
    <3>4. w[k][At(j + 1)] = Rest(j + 1)
      BY <1>6, <3>1
    <3>5. QED
      BY <1>4, <3>1, <3>2, <3>3, <3>4
  <2>3. QED
    BY <2>1, <2>2
<1> HIDE DEF S
<1>7. Cardinality(Node) \in S
  BY <1>5, <1>6, NatInduct
<1>8. w[Cardinality(Node)][At(1)] = Rest(1)
  BY <1>7 DEF S
<1>9. Rest(1) = d
  BY DEF Rest
<1>10. QED
  BY <1>1, <1>8, <1>9

-----------------------------------------------------------------------------
(* The strengthening: there is no queue, or the header and the nodes       *)
(* behind it, c[1] to c[n], are distinct nodes of the pool that nobody     *)
(* holds, linked in both directions.                                       *)
IsChain(nx, pv, n, c) ==
    /\ \A i, j \in 0 .. n : c[i] = c[j] => i = j
    /\ \A i \in 0 .. n : nx[c[i]] = IF i = n THEN Null ELSE c[i + 1]
    /\ \A i \in 0 .. n : pv[c[i]] = IF i = 0 THEN Null ELSE c[i - 1]

Linked(nx, pv, n, c) ==
    /\ nx \in [Node -> Node \cup {Null}] /\ pv \in [Node -> Node \cup {Null}]
    /\ n \in Nat /\ c \in [0 .. n -> Node]
    /\ IsChain(nx, pv, n, c)

Queue(n, c) ==
    /\ header = c[0] /\ tail = c[n] /\ len = n
    /\ IsChain(next, prev, n, c)
    /\ \A i \in 0 .. n : c[i] \in used \ held
    /\ \A x \in used \ held : \E i \in 0 .. n : x = c[i]

NoQueue == header = Null /\ tail = Null /\ len = 0 /\ used = held

Typed ==
    /\ next \in [Node -> Node \cup {Null}]
    /\ prev \in [Node -> Node \cup {Null}]
    /\ used \subseteq Node /\ held \subseteq used
    /\ asked \in Node \cup {Null, "first", "second"} /\ out \in Node \cup {Null}
    /\ aborted \in BOOLEAN

QInv == Typed /\ (NoQueue \/ \E n \in Nat : \E c \in [0 .. n -> Node] : Queue(n, c))

Row(n, c) == [i \in 1 .. n |-> c[i]]

ItemsOf(nx, hd) == IF hd = Null THEN <<>> ELSE Walk(nx, nx[hd])

LEMMA NodesFinite == IsFiniteSet(Node) /\ Cardinality(Node) \in Nat
BY QueueAssumption, FS_CardinalityType

(* Distinct nodes are no more than there are nodes.                        *)
LEMMA Counted ==
    ASSUME NEW n \in Nat, NEW c \in [0 .. n -> Node],
           \A i, j \in 0 .. n : c[i] = c[j] => i = j,
           NEW T, \A x : x \in T <=> \E i \in 0 .. n : x = c[i]
    PROVE  IsFiniteSet(T) /\ Cardinality(T) = n + 1 /\ n < Cardinality(Node)
<1>1. IsFiniteSet(0 .. n) /\ Cardinality(0 .. n) = n + 1
  <2>1. 0 \in Int /\ n \in Int
    OBVIOUS
  <2>2. IsFiniteSet(0 .. n) /\ Cardinality(0 .. n) = IF 0 > n THEN 0 ELSE n - 0 + 1
    BY <2>1, FS_Interval, Zenon
  <2>3. QED
    BY <2>2
<1>2. T \subseteq Node
  OBVIOUS
<1>3. ExistsBijection(0 .. n, T)
  <2>1. c \in [0 .. n -> T]
    OBVIOUS
  <2>2. \A i, j \in 0 .. n : c[i] = c[j] => i = j
    OBVIOUS
  <2>3. \A x \in T : \E i \in 0 .. n : c[i] = x
    OBVIOUS
  <2>4. c \in Bijection(0 .. n, T)
    BY <2>1, <2>2, <2>3 DEF Bijection, Injection, Surjection, IsInjective
  <2>5. QED
    BY <2>4 DEF ExistsBijection
<1>4. IsFiniteSet(T) /\ Cardinality(T) = n + 1
  BY <1>1, <1>3, FS_Bijection
<1>5. Cardinality(T) <= Cardinality(Node)
  BY <1>2, NodesFinite, FS_Subset
<1>6. QED
  BY <1>4, <1>5, NodesFinite

LEMMA ItemsAreRow ==
    ASSUME NEW nx \in [Node -> Node \cup {Null}], NEW pv,
           NEW n \in Nat, NEW c \in [0 .. n -> Node], IsChain(nx, pv, n, c)
    PROVE  /\ ItemsOf(nx, c[0]) = Row(n, c) /\ n < Cardinality(Node)
           /\ Row(n, c) \in Seq(Node) /\ Len(Row(n, c)) = n
           /\ \A i \in 1 .. n : Row(n, c)[i] = c[i]
<1> DEFINE d == Row(n, c)
<1>1. d \in [1 .. n -> Node] /\ \A i \in 1 .. n : d[i] = c[i]
  BY DEF Row
<1>2. n < Cardinality(Node)
  <2> DEFINE T == {c[i] : i \in 0 .. n}
  <2>1. \A x : x \in T <=> \E i \in 0 .. n : x = c[i]
    OBVIOUS
  <2> HIDE DEF T
  <2>2. \A i, j \in 0 .. n : c[i] = c[j] => i = j
    BY DEF IsChain
  <2>3. QED
    BY <2>1, <2>2, Counted, Zenon
<1> HIDE DEF d
<1>3. \A i \in 1 .. n : nx[d[i]] = IF i = n THEN Null ELSE d[i + 1]
  BY <1>1 DEF IsChain
<1>4. nx[c[0]] = IF n = 0 THEN Null ELSE d[1]
  BY <1>1 DEF IsChain
<1>5. n <= Cardinality(Node)
  BY <1>2, NodesFinite
<1>6. Walk(nx, nx[c[0]]) = d
  BY <1>1, <1>3, <1>4, <1>5, NodesFinite, WalkChain
<1>7. c[0] # Null
  BY QueueAssumption
<1>8. d \in Seq(Node) /\ Len(d) = n
  BY <1>1, RowIsSeq
<1>9. QED
  BY <1>1, <1>2, <1>6, <1>7, <1>8 DEF ItemsOf, d

(* Walking back along a chain meets it in reverse.                         *)
LEMMA BackwardOfChain ==
    ASSUME NEW nx \in [Node -> Node \cup {Null}],
           NEW pv \in [Node -> Node \cup {Null}],
           NEW n \in Nat, NEW c \in [0 .. n -> Node], IsChain(nx, pv, n, c)
    PROVE  Walk(pv, c[n]) = Reverse(<<c[0]>> \o Row(n, c))
<1> DEFINE d == [i \in 1 .. n + 1 |-> c[n + 1 - i]]
           r == Row(n, c)
           h == <<c[0]>>
<1>1. d \in [1 .. n + 1 -> Node] /\ \A i \in 1 .. n + 1 : d[i] = c[n + 1 - i]
  OBVIOUS
<1>2. \A i \in 1 .. n + 1 : pv[c[n + 1 - i]] = IF i = n + 1 THEN Null ELSE c[n + 1 - (i + 1)]
  <2> SUFFICES ASSUME NEW i \in 1 .. n + 1
               PROVE pv[c[n + 1 - i]] = IF i = n + 1 THEN Null ELSE c[n + 1 - (i + 1)]
    OBVIOUS
  <2>1. n + 1 - i \in 0 .. n /\ (n + 1 - i) - 1 = n + 1 - (i + 1)
    OBVIOUS
  <2>2. pv[c[n + 1 - i]] = IF n + 1 - i = 0 THEN Null ELSE c[(n + 1 - i) - 1]
    BY <2>1 DEF IsChain
  <2>3. n + 1 - i = 0 <=> i = n + 1
    OBVIOUS
  <2>4. QED
    BY <2>1, <2>2, <2>3
<1>3. \A i \in 1 .. n + 1 : pv[d[i]] = IF i = n + 1 THEN Null ELSE d[i + 1]
  BY <1>1, <1>2
<1>4. n < Cardinality(Node) /\ r \in Seq(Node) /\ Len(r) = n /\ \A i \in 1 .. n : r[i] = c[i]
  BY ItemsAreRow
<1>5. n + 1 \in Nat /\ n + 1 <= Cardinality(Node) /\ n + 1 # 0 /\ d[1] = c[n]
  BY <1>1, <1>4, NodesFinite
<1> HIDE DEF d, r
<1>6. Walk(pv, c[n]) = d
  <2>1. Walk(pv, IF n + 1 = 0 THEN Null ELSE d[1]) = d
    BY ONLY <1>1, <1>3, <1>5, NodesFinite, WalkChain, pv \in [Node -> Node \cup {Null}]
  <2>2. QED
    BY <1>5, <2>1
<1>7. c[0] \in Node /\ h \in Seq(Node) /\ Len(h) = 1 /\ h[1] = c[0]
  OBVIOUS
<1> HIDE DEF h
<1>8. /\ Len(h \o r) = Len(h) + Len(r)
      /\ \A i \in 1 .. Len(h) + Len(r) :
            (h \o r)[i] = IF i <= Len(h) THEN h[i] ELSE r[i - Len(h)]
  BY ONLY <1>4, <1>7, ConcatProperties
<1>9. Len(h) + Len(r) = n + 1
  BY <1>4, <1>7
<1>10. \A i \in 1 .. n + 1 : (h \o r)[i] = c[i - 1]
  BY <1>4, <1>7, <1>8, <1>9
<1>11. Reverse(h \o r) = [i \in 1 .. n + 1 |-> (h \o r)[(n + 1 - i) + 1]]
  BY <1>8, <1>9 DEF Reverse
<1>12. \A i \in 1 .. n + 1 : (h \o r)[(n + 1 - i) + 1] = c[n + 1 - i]
  <2> SUFFICES ASSUME NEW i \in 1 .. n + 1 PROVE (h \o r)[(n + 1 - i) + 1] = c[n + 1 - i]
    OBVIOUS
  <2>1. (n + 1 - i) + 1 \in 1 .. n + 1 /\ ((n + 1 - i) + 1) - 1 = n + 1 - i
    OBVIOUS
  <2>2. (h \o r)[(n + 1 - i) + 1] = c[((n + 1 - i) + 1) - 1]
    BY <1>10, <2>1
  <2>3. QED
    BY <2>1, <2>2
<1>13. Reverse(h \o r) = d
  BY <1>11, <1>12 DEF d
<1>14. QED
  BY <1>6, <1>13 DEF h, r

(* A chain grows by a node outside it.                                     *)
With(n, c, x) == [i \in 0 .. n + 1 |-> IF i = n + 1 THEN x ELSE c[i]]

Grown(nx, pv, n, c, x, mx, qv, e) ==
    /\ mx = [nx EXCEPT ![c[n]] = x, ![x] = Null]
    /\ qv = [pv EXCEPT ![x] = c[n]]
    /\ e = With(n, c, x)

Apart(n, c, x) == x \in Node /\ \A i \in 0 .. n : c[i] # x

LEMMA ChainGrows ==
    ASSUME NEW nx, NEW pv, NEW n, NEW c, Linked(nx, pv, n, c),
           NEW x, Apart(n, c, x), NEW e, NEW mx, NEW qv,
           Grown(nx, pv, n, c, x, mx, qv, e)
    PROVE  /\ IsChain(mx, qv, n + 1, e)
           /\ Row(n + 1, e) = Append(Row(n, c), x)
<1>0. /\ nx \in [Node -> Node \cup {Null}] /\ pv \in [Node -> Node \cup {Null}]
      /\ n \in Nat /\ c \in [0 .. n -> Node] /\ IsChain(nx, pv, n, c)
      /\ x \in Node /\ \A i \in 0 .. n : c[i] # x
      /\ e \in [0 .. n + 1 -> Node]
      /\ \A i \in 0 .. n + 1 : e[i] = IF i = n + 1 THEN x ELSE c[i]
  BY DEF Linked, With, Apart, Grown
<1>1. \A i \in 0 .. n : c[i] \in Node /\ c[i] # x
  BY <1>0
<1>2. \A i, j \in 0 .. n : c[i] = c[j] => i = j
  BY <1>0 DEF IsChain
<1>3. \A i \in 0 .. n : mx[c[i]] = IF i = n THEN x ELSE c[i + 1]
  <2> SUFFICES ASSUME NEW i \in 0 .. n PROVE mx[c[i]] = IF i = n THEN x ELSE c[i + 1]
    OBVIOUS
  <2>1. nx[c[i]] = IF i = n THEN Null ELSE c[i + 1]
    BY <1>0 DEF IsChain
  <2>2. i # n => c[i] # c[n]
    BY <1>0, <1>2
  <2>3. QED
    BY <1>0, <1>1, <2>1, <2>2 DEF Grown
<1>4. mx[x] = Null /\ qv[x] = c[n]
  BY <1>0, <1>1 DEF Grown
<1>5. \A i \in 0 .. n : qv[c[i]] = IF i = 0 THEN Null ELSE c[i - 1]
  BY <1>0, <1>1 DEF IsChain, Grown
<1>6. \A i, j \in 0 .. n + 1 : e[i] = e[j] => i = j
  BY <1>0, <1>1, <1>2
<1>7. \A i \in 0 .. n + 1 : mx[e[i]] = IF i = n + 1 THEN Null ELSE e[i + 1]
  BY <1>0, <1>3, <1>4
<1>8. \A i \in 0 .. n + 1 : qv[e[i]] = IF i = 0 THEN Null ELSE e[i - 1]
  <2> SUFFICES ASSUME NEW i \in 0 .. n + 1
               PROVE qv[e[i]] = IF i = 0 THEN Null ELSE e[i - 1]
    OBVIOUS
  <2>1. CASE i = n + 1
    <3>1. e[i] = x /\ e[i - 1] = c[n] /\ i # 0
      BY <1>0, <2>1
    <3>2. QED
      BY <1>4, <3>1
  <2>2. CASE i # n + 1
    <3>1. i \in 0 .. n /\ e[i] = c[i] /\ (i # 0 => e[i - 1] = c[i - 1])
      BY <1>0, <2>2
    <3>2. QED
      BY <1>5, <3>1
  <2>3. QED
    BY <2>1, <2>2
<1>9. IsChain(mx, qv, n + 1, e)
  BY <1>6, <1>7, <1>8 DEF IsChain
<1>10. Row(n + 1, e) = Append(Row(n, c), x)
  <2> DEFINE r == Row(n, c)
             s == Row(n + 1, e)
  <2>1. /\ r \in Seq(Node) /\ Len(r) = n /\ \A i \in 1 .. n : r[i] = c[i]
        /\ s \in Seq(Node) /\ Len(s) = n + 1 /\ \A i \in 1 .. n + 1 : s[i] = e[i]
    <3>1. r \in [1 .. n -> Node] /\ s \in [1 .. n + 1 -> Node]
      BY <1>0 DEF Row
    <3>2. QED
      BY <1>0, <3>1 DEF Row
  <2> HIDE DEF r, s
  <2>2. Append(r, x) \in Seq(Node) /\ Len(Append(r, x)) = n + 1
        /\ \A i \in 1 .. n + 1 : Append(r, x)[i] = IF i <= n THEN r[i] ELSE x
    BY <1>0, <2>1
  <2>3. \A i \in 1 .. n + 1 : s[i] = Append(r, x)[i]
    BY <1>0, <2>1, <2>2
  <2>4. s = Append(r, x)
    BY <2>1, <2>2, <2>3, SeqEqual
  <2>5. QED
    BY <2>4 DEF r, s
<1>11. QED
  BY <1>9, <1>10

(* A chain without its j-th node.                                          *)
Without(n, c, j) == [i \in 0 .. n - 1 |-> IF i < j THEN c[i] ELSE c[i + 1]]

Shrunk(n, e, r) == n \in Nat /\ e \in [0 .. n -> Node] /\ Row(n, e) = r

LEMMA ChainShrinks ==
    ASSUME NEW nx, NEW pv, NEW n, NEW c, Linked(nx, pv, n, c),
           NEW j \in 1 .. n, NEW e, e = Without(n, c, j),
           NEW mx, mx = [nx EXCEPT ![c[j - 1]] = nx[c[j]]],
           NEW qv, qv = IF j = n THEN pv ELSE [pv EXCEPT ![c[j + 1]] = c[j - 1]]
    PROVE  IsChain(mx, qv, n - 1, e) /\ Shrunk(n - 1, e, RemoveAt(Row(n, c), j))
<1>0. /\ nx \in [Node -> Node \cup {Null}] /\ pv \in [Node -> Node \cup {Null}]
      /\ n \in Nat /\ c \in [0 .. n -> Node] /\ IsChain(nx, pv, n, c)
  BY DEF Linked
<1> USE <1>0
<1>1. \A i \in 0 .. n : c[i] \in Node
  OBVIOUS
<1>2. \A i, k \in 0 .. n : c[i] = c[k] => i = k
  BY DEF IsChain
<1>3. /\ \A i \in 0 .. n : nx[c[i]] = IF i = n THEN Null ELSE c[i + 1]
      /\ \A i \in 0 .. n : pv[c[i]] = IF i = 0 THEN Null ELSE c[i - 1]
  BY DEF IsChain
<1>4. /\ n - 1 \in Nat /\ e \in [0 .. n - 1 -> Node]
      /\ \A i \in 0 .. n - 1 : e[i] = IF i < j THEN c[i] ELSE c[i + 1]
  BY DEF Without
<1>5. \A i \in 0 .. n : mx[c[i]] = IF i = j - 1 THEN (IF j = n THEN Null ELSE c[j + 1])
                                   ELSE IF i = n THEN Null ELSE c[i + 1]
  <2> SUFFICES ASSUME NEW i \in 0 .. n
               PROVE mx[c[i]] = IF i = j - 1 THEN (IF j = n THEN Null ELSE c[j + 1])
                                ELSE IF i = n THEN Null ELSE c[i + 1]
    OBVIOUS
  <2>1. j - 1 \in 0 .. n /\ j \in 0 .. n
    OBVIOUS
  <2>2. i # j - 1 => c[i] # c[j - 1]
    BY <1>2, <2>1
  <2>3. mx[c[i]] = IF c[i] = c[j - 1] THEN nx[c[j]] ELSE nx[c[i]]
    BY <1>1, <2>1
  <2>4. nx[c[j]] = (IF j = n THEN Null ELSE c[j + 1]) /\ nx[c[i]] = IF i = n THEN Null ELSE c[i + 1]
    BY <1>3, <2>1
  <2>5. QED
    BY <2>2, <2>3, <2>4
<1>6. \A i \in 0 .. n : qv[c[i]] = IF i = j + 1 THEN c[j - 1]
                                   ELSE IF i = 0 THEN Null ELSE c[i - 1]
  <2> SUFFICES ASSUME NEW i \in 0 .. n
               PROVE qv[c[i]] = IF i = j + 1 THEN c[j - 1]
                                ELSE IF i = 0 THEN Null ELSE c[i - 1]
    OBVIOUS
  <2>1. CASE j = n
    BY <1>3, <2>1
  <2>2. CASE j # n
    <3>1. j + 1 \in 0 .. n
      BY <2>2
    <3>2. i # j + 1 => c[i] # c[j + 1]
      BY <1>2, <3>1
    <3>3. qv[c[i]] = IF c[i] = c[j + 1] THEN c[j - 1] ELSE pv[c[i]]
      BY <1>1, <2>2, <3>1
    <3>4. QED
      BY <1>3, <3>2, <3>3
  <2>3. QED
    BY <2>1, <2>2
<1>7. \A i, k \in 0 .. n - 1 : e[i] = e[k] => i = k
  <2> SUFFICES ASSUME NEW i \in 0 .. n - 1, NEW k \in 0 .. n - 1, e[i] = e[k] PROVE i = k
    OBVIOUS
  <2>1. i \in 0 .. n /\ i + 1 \in 0 .. n /\ k \in 0 .. n /\ k + 1 \in 0 .. n
    OBVIOUS
  <2>2. CASE i < j /\ k < j
    BY <1>2, <1>4, <2>1, <2>2
  <2>3. CASE i < j /\ ~(k < j)
    <3>1. c[i] = c[k + 1]
      BY <1>4, <2>3
    <3>2. i = k + 1
      BY <1>2, <2>1, <3>1
    <3>3. QED
      BY <2>3, <3>2
  <2>4. CASE ~(i < j) /\ k < j
    <3>1. c[i + 1] = c[k]
      BY <1>4, <2>4
    <3>2. i + 1 = k
      BY <1>2, <2>1, <3>1
    <3>3. QED
      BY <2>4, <3>2
  <2>5. CASE ~(i < j) /\ ~(k < j)
    <3>1. c[i + 1] = c[k + 1]
      BY <1>4, <2>5
    <3>2. i + 1 = k + 1
      BY <1>2, <2>1, <3>1
    <3>3. QED
      BY <3>2
  <2>6. QED
    BY <2>2, <2>3, <2>4, <2>5
<1>8. \A i \in 0 .. n - 1 : mx[e[i]] = IF i = n - 1 THEN Null ELSE e[i + 1]
  <2> SUFFICES ASSUME NEW i \in 0 .. n - 1
               PROVE mx[e[i]] = IF i = n - 1 THEN Null ELSE e[i + 1]
    OBVIOUS
  <2>1. i \in 0 .. n /\ i + 1 \in 0 .. n /\ (i + 1) + 1 = i + 2
    OBVIOUS
  <2>2. CASE i = j - 1
    <3>1. e[i] = c[i]
      BY <1>4, <2>2
    <3>2. i # n - 1 => i + 1 \in 0 .. n - 1 /\ e[i + 1] = c[j + 1]
      BY <1>4, <2>2
    <3>3. mx[c[i]] = IF j = n THEN Null ELSE c[j + 1]
      BY <1>5, <2>1, <2>2
    <3>4. QED
      BY <2>2, <3>1, <3>2, <3>3
  <2>3. CASE i < j - 1
    <3>1. e[i] = c[i] /\ i # n - 1 /\ e[i + 1] = c[i + 1]
      BY <1>4, <2>3
    <3>2. mx[c[i]] = c[i + 1]
      BY <1>5, <2>1, <2>3
    <3>3. QED
      BY <3>1, <3>2
  <2>4. CASE i >= j
    <3>1. e[i] = c[i + 1]
      BY <1>4, <2>4
    <3>2. mx[c[i + 1]] = IF i + 1 = n THEN Null ELSE c[(i + 1) + 1]
      BY <1>5, <2>1, <2>4
    <3>3. i # n - 1 => e[i + 1] = c[(i + 1) + 1]
      BY <1>4, <2>4
    <3>4. QED
      BY <3>1, <3>2, <3>3
  <2>5. QED
    BY <2>2, <2>3, <2>4
<1>9. \A i \in 0 .. n - 1 : qv[e[i]] = IF i = 0 THEN Null ELSE e[i - 1]
  <2> SUFFICES ASSUME NEW i \in 0 .. n - 1
               PROVE qv[e[i]] = IF i = 0 THEN Null ELSE e[i - 1]
    OBVIOUS
  <2>1. i \in 0 .. n /\ i + 1 \in 0 .. n /\ (i + 1) - 1 = i
    OBVIOUS
  <2>2. CASE i < j
    <3>1. e[i] = c[i] /\ (i # 0 => e[i - 1] = c[i - 1])
      BY <1>4, <2>2
    <3>2. qv[c[i]] = IF i = 0 THEN Null ELSE c[i - 1]
      BY <1>6, <2>1, <2>2
    <3>3. QED
      BY <3>1, <3>2
  <2>3. CASE i = j
    <3>1. e[i] = c[j + 1] /\ i # 0 /\ e[i - 1] = c[j - 1]
      BY <1>4, <2>3
    <3>2. qv[c[j + 1]] = c[j - 1]
      BY <1>6, <2>1, <2>3
    <3>3. QED
      BY <3>1, <3>2
  <2>4. CASE i > j
    <3>1. e[i] = c[i + 1] /\ i # 0 /\ e[i - 1] = c[(i - 1) + 1] /\ (i - 1) + 1 = i
      BY <1>4, <2>4
    <3>2. qv[c[i + 1]] = c[(i + 1) - 1]
      BY <1>6, <2>1, <2>4
    <3>3. QED
      BY <2>1, <3>1, <3>2
  <2>5. QED
    BY <2>2, <2>3, <2>4
<1>10. IsChain(mx, qv, n - 1, e)
  BY <1>7, <1>8, <1>9 DEF IsChain
<1>11. Row(n - 1, e) = RemoveAt(Row(n, c), j)
  <2> DEFINE r == Row(n, c)
             s == Row(n - 1, e)
             a == SubSeq(r, 1, j - 1)
             b == SubSeq(r, j + 1, n)
  <2>1. /\ r \in Seq(Node) /\ Len(r) = n /\ \A i \in 1 .. n : r[i] = c[i]
        /\ s \in Seq(Node) /\ Len(s) = n - 1 /\ \A i \in 1 .. n - 1 : s[i] = e[i]
    <3>1. r \in [1 .. n -> Node] /\ s \in [1 .. n - 1 -> Node]
      BY <1>4 DEF Row
    <3>2. QED
      BY <1>4, <3>1 DEF Row
  <2>2. a \o b = RemoveAt(r, j)
    BY <2>1 DEF RemoveAt
  <2> HIDE DEF r, s
  <2>3. a \in Seq(Node) /\ Len(a) = j - 1 /\ \A i \in 1 .. j - 1 : a[i] = r[i]
    <3>1. /\ SubSeq(r, 1, j - 1) \in Seq(Node)
          /\ Len(SubSeq(r, 1, j - 1)) = IF 1 <= j - 1 THEN j - 1 - 1 + 1 ELSE 0
          /\ \A i \in 1 .. j - 1 - 1 + 1 : SubSeq(r, 1, j - 1)[i] = r[1 + i - 1]
      BY <2>1, SubSeqProperties
    <3>2. /\ j - 1 - 1 + 1 = j - 1 /\ \A i \in 1 .. j - 1 : 1 + i - 1 = i
          /\ (IF 1 <= j - 1 THEN j - 1 - 1 + 1 ELSE 0) = j - 1
      OBVIOUS
    <3>3. QED
      BY <3>1, <3>2
  <2>4. b \in Seq(Node) /\ Len(b) = n - j /\ \A i \in 1 .. n - j : b[i] = r[j + i]
    <3>1. /\ SubSeq(r, j + 1, n) \in Seq(Node)
          /\ Len(SubSeq(r, j + 1, n)) = IF j + 1 <= n THEN n - (j + 1) + 1 ELSE 0
          /\ \A i \in 1 .. n - (j + 1) + 1 : SubSeq(r, j + 1, n)[i] = r[j + 1 + i - 1]
      BY <2>1, SubSeqProperties
    <3>2. /\ n - (j + 1) + 1 = n - j /\ \A i \in 1 .. n - j : j + 1 + i - 1 = j + i
          /\ (IF j + 1 <= n THEN n - (j + 1) + 1 ELSE 0) = n - j
      OBVIOUS
    <3>3. QED
      BY <3>1, <3>2
  <2> HIDE DEF a, b
  <2>5. /\ a \o b \in Seq(Node) /\ Len(a \o b) = Len(a) + Len(b)
        /\ \A i \in 1 .. Len(a) + Len(b) :
              (a \o b)[i] = IF i <= Len(a) THEN a[i] ELSE b[i - Len(a)]
    BY ONLY <2>3, <2>4, ConcatProperties
  <2>6. Len(a) + Len(b) = n - 1
    BY <2>3, <2>4
  <2>7. \A i \in 1 .. n - 1 : (a \o b)[i] = s[i]
    <3> SUFFICES ASSUME NEW i \in 1 .. n - 1 PROVE (a \o b)[i] = s[i]
      OBVIOUS
    <3>1. CASE i <= j - 1
      <4>1. (a \o b)[i] = a[i] /\ a[i] = r[i] /\ r[i] = c[i] /\ s[i] = e[i] /\ e[i] = c[i]
        BY ONLY <1>4, <2>1, <2>3, <2>5, <2>6, <3>1, i \in 1 .. n - 1, n \in Nat, j \in 1 .. n
      <4>2. QED
        BY <4>1
    <3>2. CASE i > j - 1
      <4>1. i - (j - 1) \in 1 .. n - j /\ j + (i - (j - 1)) = i + 1 /\ i + 1 \in 1 .. n
        BY <3>2
      <4>2. (a \o b)[i] = b[i - (j - 1)] /\ b[i - (j - 1)] = r[i + 1]
        <5>1. i \in 1 .. Len(a) + Len(b) /\ ~(i <= Len(a)) /\ i - Len(a) = i - (j - 1)
          BY <2>3, <2>6, <3>2
        <5>2. (a \o b)[i] = b[i - (j - 1)]
          BY <2>5, <5>1
        <5>3. b[i - (j - 1)] = r[j + (i - (j - 1))]
          BY <2>4, <4>1
        <5>4. QED
          BY <4>1, <5>2, <5>3
      <4>3. r[i + 1] = c[i + 1] /\ s[i] = e[i] /\ e[i] = c[i + 1]
        BY <1>4, <2>1, <3>2, <4>1
      <4>4. QED
        BY <4>2, <4>3
    <3>3. i <= j - 1 \/ i > j - 1
      OBVIOUS
    <3>4. QED
      BY <3>1, <3>2, <3>3, Zenon
  <2>8. s = a \o b
    BY <2>1, <2>5, <2>6, <2>7, SeqEqual
  <2>9. QED
    BY <2>2, <2>8 DEF r, s
<1>12. QED
  BY <1>4, <1>10, <1>11 DEF Shrunk

-----------------------------------------------------------------------------
(* What the chain shows, before a step and after it.                       *)
LEMMA Shown ==
    ASSUME Typed, NEW n \in Nat, NEW c \in [0 .. n -> Node], Queue(n, c)
    PROVE  /\ Items = Row(n, c) /\ n < Cardinality(Node)
           /\ Row(n, c) \in Seq(Node) /\ Len(Row(n, c)) = n
           /\ \A i \in 1 .. n : Row(n, c)[i] = c[i]
<1>1. next \in [Node -> Node \cup {Null}] /\ IsChain(next, prev, n, c) /\ header = c[0]
  BY DEF Typed, Queue
<1>2. Items = ItemsOf(next, header)
  BY DEF Items, ItemsOf
<1>3. QED
  BY <1>1, <1>2, ItemsAreRow

LEMMA ShownNext ==
    ASSUME Typed', NEW n \in Nat, NEW c \in [0 .. n -> Node], Queue(n, c)'
    PROVE  Items' = Row(n, c)
<1>1. /\ next' \in [Node -> Node \cup {Null}]
      /\ IsChain(next', prev', n, c) /\ header' = c[0]
  BY DEF Typed, Queue, IsChain
<1>2. Items' = ItemsOf(next', header')
  BY DEF Items, ItemsOf
<1>3. QED
  BY <1>1, <1>2, ItemsAreRow

LEMMA NothingShown ==
    /\ NoQueue => Items = <<>>
    /\ NoQueue' => Items' = <<>>
BY DEF NoQueue, Items

LEMMA RowEmpty == ASSUME NEW c PROVE Row(0, c) = <<>>
BY DEF Row

(* The abstract step, or none.                                             *)
Shows == [Q!Next]_<<Items, asked, out>>

(* The two specifications take the same library operator.                  *)
LEMMA SameRemoval == \A s, i : Q!RemoveAt(s, i) = RemoveAt(s, i)
BY DEF RemoveAt, Q!RemoveAt

(* An empty queue, or none, shows the empty sequence.                      *)
LEMMA EmptyShown ==
    ASSUME QInv, Empty
    PROVE  /\ Items = <<>> /\ len = 0
           /\ held = used \ GivenBack /\ (header # Null => header \in used)
<1>1. CASE NoQueue
  BY <1>1, NothingShown DEF NoQueue, GivenBack
<1>2. ASSUME NEW n \in Nat, NEW c \in [0 .. n -> Node], Queue(n, c)
      PROVE  /\ Items = <<>> /\ len = 0
             /\ held = used \ GivenBack /\ (header # Null => header \in used)
  <2>1. c[0] = c[n] /\ 0 \in 0 .. n /\ n \in 0 .. n
    BY <1>2 DEF Queue, Empty
  <2>2. n = 0
    BY <1>2, <2>1 DEF Queue, IsChain
  <2>3. Items = <<>>
    BY <1>2, <2>2, Shown, RowEmpty DEF QInv
  <2>4. header # Null /\ header \in used \ held
    BY <1>2, <2>1, QueueAssumption DEF Queue
  <2>5. \A x \in used \ held : x = header
    BY <1>2, <2>2 DEF Queue
  <2>6. QED
    BY <1>2, <2>2, <2>3, <2>4, <2>5 DEF Queue, QInv, Typed, GivenBack
<1>3. QED
  BY <1>1, <1>2 DEF QInv

LEMMA InitQueueStep ==
    ASSUME Careful, QInv, InitQueue
    PROVE  QInv' /\ Shows
<1>1. Items = <<>> /\ held = used \ GivenBack
  BY EmptyShown DEF InitQueue
<1>2. PICK x \in Node \ (used \ GivenBack) :
        /\ used' = (used \ GivenBack) \cup {x}
        /\ Blank(x)
        /\ header' = x /\ tail' = x
  BY DEF InitQueue
<1>3. /\ len' = 0 /\ held' = held /\ asked' = asked /\ out' = out /\ aborted' = aborted
  BY DEF InitQueue
<1> DEFINE e == [i \in 0 .. 0 |-> x]
<1>4. e \in [0 .. 0 -> Node] /\ e[0] = x
  OBVIOUS
<1>5. Typed'
  BY <1>2, <1>3, <1>1 DEF QInv, Typed, Blank
<1>6. next'[x] = Null /\ prev'[x] = Null
  BY <1>2 DEF Blank, QInv, Typed
<1> HIDE DEF e
<1>7. IsChain(next', prev', 0, e)
  BY <1>4, <1>6 DEF IsChain
<1>8. Queue(0, e)'
  BY <1>1, <1>2, <1>3, <1>4, <1>7 DEF Queue, IsChain
<1>9. Items' = <<>>
  BY <1>4, <1>5, <1>8, ShownNext, RowEmpty
<1>10. QInv'
  BY <1>4, <1>5, <1>8 DEF QInv
<1>11. QED
  BY <1>1, <1>3, <1>9, <1>10 DEF Shows

(* A step that leaves the header, the tail and their nodes alone.          *)
LEMMA ElsewhereStep ==
    ASSUME QInv, Typed',
           UNCHANGED <<header, tail, len, asked, out>>,
           used' \ held' = used \ held, NoQueue => used' = held',
           \A y \in used \ held : next'[y] = next[y] /\ prev'[y] = prev[y]
    PROVE  QInv' /\ Shows
<1>1. CASE NoQueue
  <2>1. NoQueue'
    BY <1>1 DEF NoQueue
  <2>2. QED
    BY <1>1, <2>1, NothingShown DEF QInv, Shows
<1>2. ASSUME NEW n \in Nat, NEW c \in [0 .. n -> Node], Queue(n, c)
      PROVE  QInv' /\ Shows
  <2>1. IsChain(next', prev', n, c)
    <3>1. \A i \in 0 .. n : c[i] \in used \ held
      BY <1>2 DEF Queue
    <3>2. IsChain(next, prev, n, c)
      BY <1>2 DEF Queue
    <3>3. QED
      BY <3>1, <3>2 DEF IsChain
  <2>2. Queue(n, c)'
    BY <1>2, <2>1 DEF Queue, IsChain
  <2>3. Items' = Items
    BY <1>2, <2>2, Shown, ShownNext DEF QInv
  <2>4. QED
    BY <2>2, <2>3 DEF QInv, Shows
<1>3. QED
  BY <1>1, <1>2 DEF QInv

LEMMA MakeStep ==
    ASSUME QInv, NEW x \in Node, MakeQNode(x)
    PROVE  QInv' /\ Shows
<1>1. Typed'
  BY DEF QInv, Typed, MakeQNode, Blank
<1>2. \A y \in used \ held : next'[y] = next[y] /\ prev'[y] = prev[y]
  BY DEF QInv, Typed, MakeQNode, Blank
<1>3. used' \ held' = used \ held /\ (NoQueue => used' = held')
  BY DEF QInv, Typed, MakeQNode, NoQueue
<1>4. QED
  BY <1>1, <1>2, <1>3, ElsewhereStep DEF MakeQNode

LEMMA DeleteStep ==
    ASSUME QInv, NEW x \in held, DeleteQNode(x)
    PROVE  QInv' /\ Shows
<1>1. Typed'
  BY DEF QInv, Typed, DeleteQNode
<1>2. \A y \in used \ held : next'[y] = next[y] /\ prev'[y] = prev[y]
  BY DEF QInv, Typed, DeleteQNode
<1>3. used' \ held' = used \ held /\ (NoQueue => used' = held')
  BY DEF QInv, Typed, DeleteQNode, NoQueue
<1>4. QED
  BY <1>1, <1>2, <1>3, ElsewhereStep DEF DeleteQNode

LEMMA EnqueueStep ==
    ASSUME QInv, NEW x \in held, Enqueue(x)
    PROVE  QInv' /\ Shows
<1>1. Typed
  BY DEF QInv
<1>2. x \in Node /\ x \in used
  BY <1>1 DEF Typed
<1>3. ~NoQueue
  BY DEF Enqueue, NoQueue
<1>4. PICK n \in Nat : \E c \in [0 .. n -> Node] : Queue(n, c)
  BY <1>3 DEF QInv
<1>5. PICK c \in [0 .. n -> Node] : Queue(n, c)
  BY <1>4
<1> DEFINE e == With(n, c, x)
<1>6. e \in [0 .. n + 1 -> Node] /\ \A i \in 0 .. n + 1 : e[i] = IF i = n + 1 THEN x ELSE c[i]
  BY <1>2 DEF With
<1>6a. e = With(n, c, x)
  OBVIOUS
<1> HIDE DEF e
<1>7. /\ tail = c[n] /\ header = c[0] /\ len = n /\ IsChain(next, prev, n, c)
      /\ \A i \in 0 .. n : c[i] \in used \ held
      /\ \A y \in used \ held : \E i \in 0 .. n : y = c[i]
  BY <1>5 DEF Queue
<1>8. \A i \in 0 .. n : c[i] # x
  BY <1>7
<1>9. /\ next' = [next EXCEPT ![c[n]] = x, ![x] = Null]
      /\ prev' = [prev EXCEPT ![x] = c[n]]
      /\ tail' = x /\ len' = n + 1 /\ held' = held \ {x}
      /\ header' = c[0] /\ used' = used
      /\ asked' = asked /\ out' = out /\ aborted' = aborted
  BY <1>7 DEF Enqueue
<1>10. next \in [Node -> Node \cup {Null}] /\ prev \in [Node -> Node \cup {Null}]
  BY <1>1 DEF Typed
<1>11. IsChain(next', prev', n + 1, e) /\ Row(n + 1, e) = Append(Row(n, c), x)
  <2>1. Linked(next, prev, n, c)
    BY <1>7, <1>10 DEF Linked
  <2>2. Apart(n, c, x)
    BY <1>2, <1>8 DEF Apart
  <2>3. Grown(next, prev, n, c, x, next', prev', e)
    BY <1>6a, <1>9 DEF Grown
  <2>4. IsChain(next', prev', n + 1, e)
    BY ONLY <2>1, <2>2, <2>3, ChainGrows, Zenon
  <2>5. Row(n + 1, e) = Append(Row(n, c), x)
    BY ONLY <2>1, <2>2, <2>3, ChainGrows, SMT
  <2>6. QED
    BY <2>4, <2>5
<1>12. Typed'
  BY <1>1, <1>2, <1>9 DEF Typed
<1>13. Queue(n + 1, e)'
  <2>1. e[0] = c[0] /\ e[n + 1] = x
    BY <1>6
  <2>2. \A i \in 0 .. n + 1 : e[i] \in used' \ held'
    BY <1>2, <1>6, <1>7, <1>9
  <2>3. ASSUME NEW y \in used' \ held' PROVE \E i \in 0 .. n + 1 : y = e[i]
    <3>1. CASE y = x
      BY <2>1, <3>1
    <3>2. CASE y # x
      <4>1. PICK i \in 0 .. n : y = c[i]
        BY <1>7, <1>9, <3>2
      <4>2. i \in 0 .. n + 1 /\ y = e[i]
        BY <1>6, <4>1
      <4>3. QED
        BY <4>2
    <3>3. QED
      BY <3>1, <3>2
  <2>4. QED
    BY <1>9, <1>11, <2>1, <2>2, <2>3 DEF Queue, IsChain
<1>14. /\ Items = Row(n, c) /\ Len(Items) = n
       /\ \A i \in 1 .. n : Items[i] = c[i]
  BY <1>1, <1>5, Shown
<1>15. Items' = Append(Items, x)
  <2>1. n + 1 \in Nat /\ e \in [0 .. n + 1 -> Node]
    BY <1>6
  <2>2. Items' = Row(n + 1, e)
    BY ONLY <1>12, <1>13, <2>1, ShownNext
  <2>3. QED
    BY <1>11, <1>14, <2>2
<1>16. x \notin ToSet(Items)
  BY <1>8, <1>14 DEF ToSet
<1>17. QInv'
  <2>1. n + 1 \in Nat
    OBVIOUS
  <2>2. QED
    BY <1>6, <1>12, <1>13, <2>1 DEF QInv
<1>18. Q!Put(x)
  BY <1>9, <1>15, <1>16 DEF Q!Put
<1>19. QED
  BY <1>2, <1>17, <1>18 DEF Shows, Q!Next

-----------------------------------------------------------------------------
(* The j-th node leaves the queue for its caller's hands.                  *)
Leaves(n, c, j) ==
    /\ next' = [next EXCEPT ![c[j - 1]] = next[c[j]]]
    /\ prev' = IF j = n THEN prev ELSE [prev EXCEPT ![c[j + 1]] = c[j - 1]]
    /\ tail' = IF j = n THEN c[n - 1] ELSE tail
    /\ len' = n - 1
    /\ held' = held \cup {c[j]}
    /\ out' = c[j]
    /\ header' = header /\ used' = used /\ aborted' = aborted

LEMMA LeavesStep ==
    ASSUME Typed, NEW n \in Nat, NEW c \in [0 .. n -> Node], Queue(n, c),
           NEW j \in 1 .. n, Leaves(n, c, j),
           asked' \in Node \cup {Null, "first", "second"}
    PROVE  /\ QInv' /\ j \in DOMAIN Items /\ Items[j] = c[j]
           /\ Items' = RemoveAt(Items, j) /\ out' = Items[j]
<1> DEFINE e == Without(n, c, j)
<1>1. next \in [Node -> Node \cup {Null}] /\ prev \in [Node -> Node \cup {Null}]
  BY DEF Typed
<1>2. /\ header = c[0] /\ tail = c[n] /\ len = n /\ IsChain(next, prev, n, c)
      /\ \A i \in 0 .. n : c[i] \in used \ held
      /\ \A y \in used \ held : \E i \in 0 .. n : y = c[i]
  BY DEF Queue
<1>3. \A i, k \in 0 .. n : c[i] = c[k] => i = k
  BY <1>2 DEF IsChain
<1> HIDE DEF e
<1>4. /\ n - 1 \in Nat /\ e \in [0 .. n - 1 -> Node]
      /\ IsChain(next', prev', n - 1, e)
      /\ Row(n - 1, e) = RemoveAt(Row(n, c), j)
  <2>1. e = Without(n, c, j)
    BY DEF e
  <2>2. Linked(next, prev, n, c)
    BY <1>1, <1>2 DEF Linked
  <2>3. /\ next' = [next EXCEPT ![c[j - 1]] = next[c[j]]]
        /\ prev' = IF j = n THEN prev ELSE [prev EXCEPT ![c[j + 1]] = c[j - 1]]
    BY DEF Leaves
  <2>4. IsChain(next', prev', n - 1, e) /\ Shrunk(n - 1, e, RemoveAt(Row(n, c), j))
    BY ONLY <2>1, <2>2, <2>3, ChainShrinks, j \in 1 .. n, Zenon
  <2>5. QED
    BY <2>4 DEF Shrunk
<1>5. \A i \in 0 .. n - 1 : e[i] = IF i < j THEN c[i] ELSE c[i + 1]
  BY DEF e, Without
<1>6. Typed'
  <2>1. c[j] \in Node /\ c[j - 1] \in Node /\ c[j] \in used /\ (j # n => c[j + 1] \in Node)
    BY <1>2
  <2>2. next[c[j]] \in Node \cup {Null}
    BY <1>1, <2>1
  <2>3. next' \in [Node -> Node \cup {Null}]
    BY <1>1, <2>2 DEF Leaves
  <2>4. prev' \in [Node -> Node \cup {Null}]
    BY <1>1, <2>1 DEF Leaves
  <2>5. QED
    BY <2>1, <2>3, <2>4 DEF Leaves, Typed
<1>7. Queue(n - 1, e)'
  <2>1. header' = e[0] /\ tail' = e[n - 1] /\ len' = n - 1
    <3>1. e[0] = c[0]
      BY <1>5
    <3>2. e[n - 1] = IF j = n THEN c[n - 1] ELSE c[n]
      BY <1>4, <1>5
    <3>3. QED
      BY <1>2, <3>1, <3>2 DEF Leaves
  <2>2. ASSUME NEW i \in 0 .. n - 1 PROVE e[i] \in used' \ held'
    <3>1. PICK k \in 0 .. n : e[i] = c[k] /\ k # j
      <4>1. CASE i < j
        BY <1>5, <4>1
      <4>2. CASE ~(i < j)
        <5>1. i + 1 \in 0 .. n /\ i + 1 # j /\ e[i] = c[i + 1]
          BY <1>5, <4>2
        <5>2. QED
          BY <5>1
      <4>3. QED
        BY <4>1, <4>2
    <3>2. c[k] # c[j] /\ c[k] \in used \ held
      BY <1>2, <1>3, <3>1
    <3>3. QED
      BY <3>1, <3>2 DEF Leaves
  <2>3. ASSUME NEW y \in used' \ held' PROVE \E i \in 0 .. n - 1 : y = e[i]
    <3>1. y \in used \ held /\ y # c[j]
      BY DEF Leaves
    <3>2. PICK k \in 0 .. n : y = c[k]
      BY <1>2, <3>1
    <3>3. k # j
      BY <3>1, <3>2
    <3>4. CASE k < j
      <4>1. k \in 0 .. n - 1 /\ e[k] = c[k]
        BY <1>5, <3>4
      <4>2. QED
        BY <3>2, <4>1
    <3>5. CASE k > j
      <4>1. k - 1 \in 0 .. n - 1 /\ ~(k - 1 < j) /\ (k - 1) + 1 = k
        BY <3>5
      <4>2. e[k - 1] = c[k]
        BY <1>5, <4>1
      <4>3. QED
        BY <3>2, <4>1, <4>2
    <3>6. QED
      BY <3>3, <3>4, <3>5
  <2>4. QED
    BY <1>4, <2>1, <2>2, <2>3 DEF Queue, IsChain
<1>8. Items = Row(n, c) /\ Row(n, c) \in Seq(Node) /\ Len(Row(n, c)) = n /\ Row(n, c)[j] = c[j]
  BY Shown
<1>9. Items' = Row(n - 1, e)
  BY <1>4, <1>6, <1>7, ShownNext
<1>10. QInv'
  BY <1>4, <1>6, <1>7 DEF QInv
<1>11. j \in DOMAIN Items
  BY <1>8
<1>12. out' = c[j]
  BY DEF Leaves
<1>13. QED
  BY <1>4, <1>8, <1>9, <1>10, <1>11, <1>12

(* A queue that is not empty has a first node.                             *)
LEMMA NotEmpty ==
    ASSUME QInv, ~Empty
    PROVE  \E n \in Nat \ {0} : \E c \in [0 .. n -> Node] :
              /\ Queue(n, c) /\ next[header] = c[1]
              /\ next[c[1]] = IF n = 1 THEN Null ELSE c[2]
<1>1. ~NoQueue
  BY DEF Empty, NoQueue
<1>2. PICK n \in Nat : \E c \in [0 .. n -> Node] : Queue(n, c)
  BY <1>1 DEF QInv
<1>3. PICK c \in [0 .. n -> Node] : Queue(n, c)
  BY <1>2
<1>4. n # 0
  BY <1>3 DEF Queue, Empty
<1>5. next[c[0]] = c[1] /\ header = c[0] /\ next[c[1]] = IF n = 1 THEN Null ELSE c[2]
  BY <1>3, <1>4 DEF Queue, IsChain
<1>6. QED
  BY <1>3, <1>4, <1>5

(* Dequeue takes the first node.                                           *)
LEMMA DequeueLeaves ==
    ASSUME NEW n \in Nat \ {0}, NEW c \in [0 .. n -> Node], Queue(n, c),
           next[header] = c[1], next[c[1]] = IF n = 1 THEN Null ELSE c[2], Dequeue
    PROVE  Leaves(n, c, 1)
<1>1. header = c[0] /\ len = n /\ n > 0
  BY DEF Queue
<1>2. n # 1 => c[2] # Null
  BY QueueAssumption
<1>3. /\ next' = [next EXCEPT ![c[0]] = next[c[1]]]
      /\ prev' = IF next[c[1]] = Null THEN prev ELSE [prev EXCEPT ![next[c[1]]] = c[0]]
      /\ tail' = IF next[c[1]] = Null THEN c[0] ELSE tail
      /\ len' = n - 1
      /\ out' = c[1] /\ held' = held \cup {c[1]}
      /\ header' = header /\ used' = used /\ aborted' = aborted
  BY <1>1 DEF Dequeue, Unlink, Returned, Shortened
<1>4. /\ 1 - 1 = 0 /\ 1 + 1 = 2 /\ (1 = n => n - 1 = 0)
      /\ next[c[1]] = Null <=> 1 = n
  BY <1>2
<1>5. prev' = IF 1 = n THEN prev ELSE [prev EXCEPT ![c[2]] = c[0]]
  BY <1>3, <1>4
<1>6. tail' = IF 1 = n THEN c[n - 1] ELSE tail
  BY <1>3, <1>4
<1>7. QED
  BY <1>3, <1>4, <1>5, <1>6 DEF Leaves

LEMMA DequeueFirstStep ==
    ASSUME QInv, DequeueFirst
    PROVE  QInv' /\ Shows
<1>1. PICK n \in Nat \ {0} : \E c \in [0 .. n -> Node] :
              /\ Queue(n, c) /\ next[header] = c[1]
              /\ next[c[1]] = IF n = 1 THEN Null ELSE c[2]
  BY NotEmpty DEF DequeueFirst, Dequeue
<1>2. PICK c \in [0 .. n -> Node] : /\ Queue(n, c) /\ next[header] = c[1]
                                    /\ next[c[1]] = IF n = 1 THEN Null ELSE c[2]
  BY <1>1
<1>3. Leaves(n, c, 1) /\ asked' = "first"
  BY <1>2, DequeueLeaves DEF DequeueFirst
<1>4. 1 \in 1 .. n
  OBVIOUS
<1>5. QInv' /\ 1 \in DOMAIN Items /\ Items' = RemoveAt(Items, 1) /\ out' = Items[1]
  BY <1>2, <1>3, <1>4, LeavesStep DEF QInv
<1>6. Q!Take(1, "first")
  BY <1>3, <1>5, SameRemoval DEF Q!Take
<1>7. QED
  BY <1>5, <1>6 DEF Shows, Q!Next

LEMMA DequeueSubStep ==
    ASSUME QInv, DequeueSub
    PROVE  QInv' /\ Shows
<1>1. PICK n \in Nat \ {0} : \E c \in [0 .. n -> Node] :
              /\ Queue(n, c) /\ next[header] = c[1]
              /\ next[c[1]] = IF n = 1 THEN Null ELSE c[2]
  BY NotEmpty DEF DequeueSub
<1>2. PICK c \in [0 .. n -> Node] : /\ Queue(n, c) /\ next[header] = c[1]
                                    /\ next[c[1]] = IF n = 1 THEN Null ELSE c[2]
  BY <1>1
<1>3. n # 1 /\ 2 \in 1 .. n /\ next[c[1]] = c[2]
  BY <1>2 DEF DequeueSub
<1>4. /\ len = n /\ next[c[2]] = IF n = 2 THEN Null ELSE c[3]
      /\ (n # 2 => c[3] # Null)
  BY <1>2, <1>3, QueueAssumption DEF Queue, IsChain
<1>5. /\ next' = [next EXCEPT ![c[1]] = next[c[2]]]
      /\ prev' = IF next[c[2]] = Null THEN prev ELSE [prev EXCEPT ![next[c[2]]] = c[1]]
      /\ tail' = IF next[c[2]] = Null THEN c[1] ELSE tail
      /\ len' = n - 1
      /\ out' = c[2] /\ held' = held \cup {c[2]}
      /\ header' = header /\ used' = used /\ aborted' = aborted
  <2>1. BeforeSecond = c[1] /\ next[BeforeSecond] = c[2]
    BY <1>2, <1>3 DEF BeforeSecond
  <2>2. Unlink(c[1]) /\ Returned(c[2])
    BY <2>1 DEF DequeueSub
  <2>3. len' = n - 1
    BY <1>4 DEF DequeueSub, LenSub, Shortened
  <2>4. /\ next' = [next EXCEPT ![c[1]] = next[c[2]]]
        /\ prev' = IF next[c[2]] = Null THEN prev ELSE [prev EXCEPT ![next[c[2]]] = c[1]]
        /\ tail' = IF next[c[2]] = Null THEN c[1] ELSE tail
    BY <1>3, <2>2 DEF Unlink
  <2>5. QED
    BY <2>2, <2>3, <2>4 DEF Returned
<1>6. /\ 2 - 1 = 1 /\ 2 + 1 = 3 /\ (2 = n => n - 1 = 1)
      /\ next[c[2]] = Null <=> 2 = n
  BY <1>4
<1>7. Leaves(n, c, 2)
  <2>1. prev' = IF 2 = n THEN prev ELSE [prev EXCEPT ![c[3]] = c[1]]
    BY <1>4, <1>5, <1>6
  <2>2. tail' = IF 2 = n THEN c[n - 1] ELSE tail
    BY <1>5, <1>6
  <2>3. QED
    BY <1>5, <1>6, <2>1, <2>2 DEF Leaves
<1>8. asked' = "second"
  BY DEF DequeueSub
<1>9. QInv' /\ 2 \in DOMAIN Items /\ Items' = RemoveAt(Items, 2) /\ out' = Items[2]
  BY <1>2, <1>3, <1>7, <1>8, LeavesStep DEF QInv
<1>10. Q!Take(2, "second")
  BY <1>8, <1>9, SameRemoval DEF Q!Take
<1>11. QED
  BY <1>9, <1>10 DEF Shows, Q!Next

LEMMA DequeueAtStep ==
    ASSUME Careful, QInv, NEW pos \in ToSet(Items), DequeueAt(pos)
    PROVE  QInv' /\ Shows
<1>1. PICK n \in Nat \ {0} : \E c \in [0 .. n -> Node] :
              /\ Queue(n, c) /\ next[header] = c[1]
              /\ next[c[1]] = IF n = 1 THEN Null ELSE c[2]
  BY NotEmpty DEF DequeueAt
<1>2. PICK c \in [0 .. n -> Node] : /\ Queue(n, c) /\ next[header] = c[1]
                                    /\ next[c[1]] = IF n = 1 THEN Null ELSE c[2]
  BY <1>1
<1>3. Items = Row(n, c) /\ Len(Row(n, c)) = n /\ \A i \in 1 .. n : Row(n, c)[i] = c[i]
  BY <1>2, Shown DEF QInv
<1>4. PICK j \in 1 .. n : pos = c[j]
  <2>1. ToSet(Items) = {Items[i] : i \in DOMAIN Items}
    BY DEF ToSet
  <2>2. DOMAIN Items = 1 .. n
    BY <1>3 DEF Row
  <2>3. QED
    BY <1>3, <2>1, <2>2
<1>5. /\ len = n /\ tail = c[n] /\ c[j] \in Node /\ n > 0
      /\ next[c[j]] = (IF j = n THEN Null ELSE c[j + 1])
      /\ prev[c[j]] = c[j - 1] /\ (j # n => c[j + 1] # Null)
  <2>1. len = n /\ tail = c[n] /\ IsChain(next, prev, n, c)
    BY <1>2 DEF Queue
  <2>2. j \in 0 .. n /\ j # 0 /\ n > 0
    OBVIOUS
  <2>3. next[c[j]] = (IF j = n THEN Null ELSE c[j + 1]) /\ prev[c[j]] = c[j - 1]
    BY <2>1, <2>2 DEF IsChain
  <2>4. c[j] \in Node
    BY <2>2
  <2>5. j # n => c[j + 1] # Null
    <3>1. j # n => j + 1 \in 0 .. n
      OBVIOUS
    <3>2. QED
      BY <3>1, QueueAssumption DEF QueueAssumption
  <2>6. QED
    BY <2>1, <2>2, <2>3, <2>4, <2>5
<1>6. asked' = c[j]
  BY <1>4 DEF DequeueAt
<1>7. Leaves(n, c, j)
  <2>1. CASE next[pos] # Null /\ next' = [next EXCEPT ![prev[pos]] = next[pos]]
             /\ prev' = [prev EXCEPT ![next[pos]] = prev[pos]]
             /\ len' = LenAt /\ Returned(pos) /\ UNCHANGED tail
    <3>1. j # n
      BY <1>4, <1>5, <2>1
    <3>2. next' = [next EXCEPT ![c[j - 1]] = next[c[j]]]
      BY <1>4, <1>5, <2>1
    <3>3. prev' = [prev EXCEPT ![c[j + 1]] = c[j - 1]]
      BY <1>4, <1>5, <2>1, <3>1
    <3>4. len' = n - 1
      BY <1>5, <2>1 DEF LenAt, Shortened
    <3>5. QED
      BY <1>4, <2>1, <3>1, <3>2, <3>3, <3>4 DEF Leaves, Returned
  <2>2. CASE next[pos] = Null /\ Dequeue
    <3>1. j = n /\ c[j] = c[1]
      BY <1>2, <1>4, <1>5, <2>2 DEF DequeueAt
    <3>2. j = 1
      BY <1>2, <3>1 DEF Queue, IsChain
    <3>3. QED
      BY <1>2, <2>2, <3>2, DequeueLeaves
  <2>3. QED
    BY <2>1, <2>2 DEF DequeueAt
<1>8. /\ QInv' /\ j \in DOMAIN Items /\ Items[j] = c[j]
      /\ Items' = RemoveAt(Items, j) /\ out' = Items[j]
  BY <1>2, <1>5, <1>6, <1>7, LeavesStep DEF QInv
<1>9. Q!Take(j, Items[j])
  BY <1>6, <1>8, SameRemoval DEF Q!Take
<1>10. Q!TakeGiven
  BY <1>8, <1>9 DEF Q!TakeGiven
<1>11. QED
  BY <1>8, <1>10 DEF Shows, Q!Next

LEMMA FreeStep ==
    ASSUME Careful, QInv, FreeQueue
    PROVE  QInv' /\ Shows
<1>1. Empty
  BY DEF FreeQueue
<1>2. Items = <<>> /\ len = 0 /\ held = used \ {header} /\ header \in used
  BY <1>1, EmptyShown DEF FreeQueue, GivenBack
<1>3. /\ used' = used \ {header} /\ header' = Null /\ tail' = Null
      /\ UNCHANGED <<next, prev, len, held, asked, out, aborted>>
  BY <1>1 DEF FreeQueue, links
<1>4. NoQueue'
  BY <1>2, <1>3 DEF NoQueue
<1>5. Typed'
  BY <1>2, <1>3 DEF QInv, Typed
<1>6. QED
  BY <1>2, <1>3, <1>4, <1>5, NothingShown DEF QInv, Shows

-----------------------------------------------------------------------------
LEMMA QInit == Init => QInv /\ Q!Init
<1> SUFFICES ASSUME Init PROVE QInv /\ Q!Init
  OBVIOUS
<1>1. NoQueue
  BY DEF Init, NoQueue
<1>2. Typed
  BY DEF Init, Typed
<1>3. Items = <<>>
  BY <1>1, NothingShown
<1>4. QED
  BY <1>1, <1>2, <1>3 DEF QInv, Q!Init, Init

LEMMA QStep ==
    ASSUME Careful, QInv, [Next]_vars
    PROVE  QInv' /\ Shows
<1>1. CASE InitQueue
  BY <1>1, InitQueueStep
<1>2. ASSUME NEW n \in Node, MakeQNode(n) PROVE QInv' /\ Shows
  BY <1>2, MakeStep
<1>3. ASSUME NEW n \in held, DeleteQNode(n) PROVE QInv' /\ Shows
  BY <1>3, DeleteStep
<1>4. ASSUME NEW n \in held, Enqueue(n) PROVE QInv' /\ Shows
  BY <1>4, EnqueueStep
<1>5. CASE DequeueFirst
  BY <1>5, DequeueFirstStep
<1>6. CASE DequeueSub
  BY <1>6, DequeueSubStep
<1>7. ASSUME NEW n \in ToSet(Items), DequeueAt(n) PROVE QInv' /\ Shows
  BY <1>7, DequeueAtStep
<1>8. CASE FreeQueue
  BY <1>8, FreeStep
<1>9. CASE UNCHANGED vars
  <2>1. UNCHANGED <<next, prev, header, tail, len, used, held, asked, out, aborted>>
    BY <1>9 DEF vars, links
  <2>2. Typed' /\ (NoQueue => used' = held')
    BY <2>1 DEF QInv, Typed, NoQueue
  <2>3. QED
    BY <2>1, <2>2, ElsewhereStep
<1>10. QED
  BY <1>1, <1>2, <1>3, <1>4, <1>5, <1>6, <1>7, <1>8, <1>9 DEF Next

(* The queue is one chain in both directions, and the pool's nodes that no *)
(* caller holds are those on it (every operation of dbqueue.c), as long as *)
(* its callers are careful.                                                *)
THEOREM QInvariance == ASSUME Careful PROVE Spec => []QInv
<1>1. Init => QInv
  BY QInit
<1>2. QInv /\ [Next]_vars => QInv'
  BY QStep
<1>3. QED
  BY <1>1, <1>2, PTL DEF Spec

(* Walking back from the tail meets the nodes of the queue in reverse and  *)
(* m_length counts them (lookBackward, dequeue_first, dequeue_sub and      *)
(* dequeue_sppos keep prev, tail and length right).                        *)
THEOREM LinksSafety == ASSUME Careful PROVE Spec => []LinksAgree
<1>1. QInv => LinksAgree
  <2> SUFFICES ASSUME QInv PROVE LinksAgree
    OBVIOUS
  <2>1. CASE NoQueue
    BY <2>1, NodesFinite DEF QInv, NoQueue, Typed, LinksAgree, TypeOK, BackwardMirrors, LengthTells
  <2>2. ASSUME NEW n \in Nat, NEW c \in [0 .. n -> Node], Queue(n, c)
        PROVE  LinksAgree
    <3>1. /\ Items = Row(n, c) /\ n < Cardinality(Node) /\ Len(Items) = n
      BY <2>2, Shown DEF QInv
    <3>2. len = n /\ header = c[0] /\ tail = c[n] /\ IsChain(next, prev, n, c)
      BY <2>2 DEF Queue
    <3>3. Walk(prev, tail) = Reverse(<<header>> \o Items)
      BY <3>1, <3>2, BackwardOfChain DEF QInv, Typed
    <3>4. TypeOK
      BY <3>1, <3>2, NodesFinite DEF QInv, Typed, TypeOK
    <3>5. QED
      BY <3>1, <3>2, <3>3, <3>4 DEF LinksAgree, BackwardMirrors, LengthTells
  <2>3. QED
    BY <2>1, <2>2 DEF QInv
<1>2. QED
  BY <1>1, QInvariance, PTL

(* No node of the pool is lost, in two places at once, or used after it    *)
(* was given back (initQueue, dequeue and deleteQNode).                    *)
THEOREM NodesSafety == ASSUME Careful PROVE Spec => []NodesAccounted
<1>1. QInv => NodesAccounted
  <2> SUFFICES ASSUME QInv PROVE NodesAccounted
    OBVIOUS
  <2>0. /\ used \subseteq Node /\ held \subseteq used
        /\ IsFiniteSet(used) /\ IsFiniteSet(held) /\ Cardinality(held) \in Nat
    <3>1. used \subseteq Node /\ held \subseteq used
      BY DEF QInv, Typed
    <3>2. IsFiniteSet(used) /\ IsFiniteSet(held)
      BY <3>1, NodesFinite, FS_Subset
    <3>3. QED
      BY <3>1, <3>2, FS_CardinalityType
  <2>1. CASE NoQueue
    <3>1. Items = <<>> /\ used = held /\ header = Null
      BY <2>1, NothingShown DEF NoQueue
    <3>2. ToSet(Items) = {} /\ Len(Items) = 0
      BY <3>1 DEF ToSet
    <3>3. Cardinality({}) = 0
      BY FS_EmptySet
    <3>4. QED
      BY <2>0, <3>1, <3>2, <3>3 DEF NodesAccounted
  <2>2. ASSUME NEW n \in Nat, NEW c \in [0 .. n -> Node], Queue(n, c)
        PROVE  NodesAccounted
    <3>1. /\ Items = Row(n, c) /\ Len(Items) = n
          /\ \A i \in 1 .. n : Items[i] = c[i]
      BY <2>2, Shown DEF QInv
    <3>2. /\ header = c[0] /\ header # Null
          /\ \A i, j \in 0 .. n : c[i] = c[j] => i = j
          /\ \A i \in 0 .. n : c[i] \in used \ held
          /\ \A x \in used \ held : \E i \in 0 .. n : x = c[i]
      BY <2>2, QueueAssumption DEF Queue, IsChain
    <3>3. \A x : x \in used \ held <=> \E i \in 0 .. n : x = c[i]
      BY <3>2
    <3>4. IsFiniteSet(used \ held) /\ Cardinality(used \ held) = n + 1
      <4> DEFINE T == used \ held
      <4> HIDE DEF T
      <4>1. \A x : x \in T <=> \E i \in 0 .. n : x = c[i]
        BY <3>3 DEF T
      <4>2. IsFiniteSet(T) /\ Cardinality(T) = n + 1
        BY ONLY <3>2, <4>1, Counted, n \in Nat, c \in [0 .. n -> Node], Zenon
      <4>3. QED
        BY <4>2 DEF T
    <3>5. Cardinality(used) = n + 1 + Cardinality(held)
      <4>1. used = (used \ held) \cup held /\ (used \ held) \cap held = {}
        BY <2>0
      <4>2. Cardinality((used \ held) \cup held)
              = Cardinality(used \ held) + Cardinality(held) - Cardinality((used \ held) \cap held)
        BY <2>0, <3>4, FS_Union
      <4>3. Cardinality((used \ held) \cap held) = 0
        BY <4>1, FS_EmptySet
      <4>4. Cardinality(used) = Cardinality((used \ held) \cup held)
        BY <4>1, Zenon
      <4>5. Cardinality(used) = (n + 1) + Cardinality(held) - 0
        BY <3>4, <4>2, <4>3, <4>4, Zenon
      <4>6. QED
        BY <2>0, <4>5
    <3>6. ToSet(Items) = {c[i] : i \in 1 .. n}
      <4>1. DOMAIN Items = 1 .. n
        BY <3>1 DEF Row
      <4>2. QED
        BY <3>1, <4>1 DEF ToSet
    <3>7. used = {header} \cup ToSet(Items) \cup held
      <4>1. ASSUME NEW x \in used PROVE x \in {header} \cup ToSet(Items) \cup held
        <5>1. CASE x \in held
          BY <5>1
        <5>2. CASE x \notin held
          <6>1. PICK i \in 0 .. n : x = c[i]
            BY <3>2, <5>2
          <6>2. i = 0 \/ i \in 1 .. n
            OBVIOUS
          <6>3. QED
            BY <3>2, <3>6, <6>1, <6>2
        <5>3. QED
          BY <5>1, <5>2
      <4>2. {header} \cup ToSet(Items) \cup held \subseteq used
        BY <2>0, <3>2, <3>6
      <4>3. QED
        BY <4>1, <4>2
    <3>8. Cardinality({header}) = 1
      BY FS_Singleton
    <3>9. QED
      BY <2>0, <3>1, <3>2, <3>5, <3>7, <3>8 DEF NodesAccounted
  <2>3. QED
    BY <2>1, <2>2 DEF QInv
<1>2. QED
  BY <1>1, QInvariance, PTL

(* The linked queue implements the sequence of NodeQueue: enqueue appends, *)
(* dequeue_first, dequeue_sub and dequeue_sppos take the first, the second *)
(* and the given node, and nothing else changes the sequence.              *)
THEOREM QueueImplements == ASSUME Careful PROVE Spec => ImplementsSequence
<1>1. Init => Q!Init
  BY QInit
<1>2. QInv /\ [Next]_vars => [Q!Next]_<<Items, asked, out>>
  BY QStep DEF Shows
<1>3. QED
  BY <1>1, <1>2, QInvariance, PTL DEF Spec, ImplementsSequence, Q!Spec
=============================================================================
