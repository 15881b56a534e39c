-------------------------- MODULE MHTBuildExProofs --------------------------
(***************************************************************************)
(* Proofs about MHTBuildEx and MHTFixedLeaves, for inputs and data sets of *)
(* every length: the interior blocks of the file join their children at    *)
(* distances computed from levels alone, the queue holds one node of a     *)
(* level at most, the search by hash finds a node's own block, a data set  *)
(* is never padded twice, and every tree in the directory is complete and  *)
(* has the name of its root.                                               *)
(***************************************************************************)
EXTENDS MHTFixedLeaves, MHTNodeProofs, WellFoundedInduction

-----------------------------------------------------------------------------
(* Induction and recursion over the natural numbers, stated with sets and  *)
(* functions.                                                              *)
LEMMA LeastNat ==
    ASSUME NEW T, T \subseteq Nat, T # {}
    PROVE  \E m \in T : \A k \in T : m <= k
<1> DEFINE R == OpToRel(<, Nat)
<1>1. IsWellFoundedOn(R, Nat)
  BY NatLessThanWellFounded
<1>2. \A x, y \in Nat : <<y, x>> \in R <=> y < x
  BY DEF OpToRel
<1> HIDE DEF R
<1>3. PICK m \in T : \A y \in T : ~(<<y, m>> \in R)
  BY <1>1, WFMin
<1>4. m \in Nat /\ \A k \in T : k \in Nat
  OBVIOUS
<1>5. ASSUME NEW k \in T PROVE m <= k
  <2>1. ~(<<k, m>> \in R) /\ k \in Nat
    BY <1>3, <1>4
  <2>2. ~(k < m)
    BY <1>2, <1>4, <2>1
  <2>3. QED
    BY <1>4, <2>1, <2>2
<1>6. QED
  BY <1>5

LEMMA NatInduct ==
    ASSUME NEW S, 0 \in S, \A n \in Nat : n \in S => n + 1 \in S
    PROVE  Nat \subseteq S
<1> DEFINE D == Nat \ S
<1>1. SUFFICES ASSUME D # {} PROVE FALSE
  OBVIOUS
<1>2. D \subseteq Nat
  OBVIOUS
<1> HIDE DEF D
<1>3. PICK m \in D : \A k \in D : m <= k
  BY <1>1, <1>2, LeastNat
<1>4. m \in Nat /\ m \notin S /\ m # 0
  BY <1>3 DEF D
<1>5. m - 1 \in Nat /\ m - 1 \notin D
  BY <1>2, <1>3, <1>4
<1>6. (m - 1) + 1 \in S
  BY <1>5 DEF D
<1>7. QED
  BY <1>4, <1>6

(* F can be iterated from x0: the least set of pairs that holds <<0, x0>>  *)
(* and is closed under F is a function.                                    *)
Iterates(f, V, x0, F) ==
    /\ f \in [Nat -> V] /\ f[0] = x0
    /\ \A k \in Nat : f[k + 1] = F[f[k]]

LEMMA Iteration ==
    ASSUME NEW V, NEW x0, NEW F, x0 \in V, \A x \in V : F[x] \in V
    PROVE  \E f : Iterates(f, V, x0, F)
<1> DEFINE Shut(T) == /\ <<0, x0>> \in T
                      /\ \A k \in Nat, x \in V : <<k, x>> \in T => <<k + 1, F[x]>> \in T
           R == {p \in Nat \X V : \A T \in SUBSET (Nat \X V) : Shut(T) => p \in T}
<1>1. R \in SUBSET (Nat \X V) /\ Shut(R)
  <2>1. <<0, x0>> \in R
    OBVIOUS
  <2>2. ASSUME NEW k \in Nat, NEW x \in V, <<k, x>> \in R PROVE <<k + 1, F[x]>> \in R
    <3>1. <<k + 1, F[x]>> \in Nat \X V
      OBVIOUS
    <3>2. ASSUME NEW T \in SUBSET (Nat \X V), Shut(T) PROVE <<k + 1, F[x]>> \in T
      BY <2>2, <3>2
    <3>3. QED
      BY <3>1, <3>2
  <2>3. QED
    BY <2>1, <2>2
<1>2. \A T \in SUBSET (Nat \X V) : Shut(T) => R \subseteq T
  OBVIOUS
<1> HIDE DEF R
<1> DEFINE One(k) == \E x \in V : <<k, x>> \in R /\ \A y \in V : <<k, y>> \in R => y = x
           S == {k \in Nat : One(k)}
<1>3. 0 \in S
  <2>1. ASSUME NEW y \in V, <<0, y>> \in R, y # x0 PROVE FALSE
    <3> DEFINE T == R \ {<<0, y>>}
    <3>1. T \in SUBSET (Nat \X V)
      BY <1>1
    <3>2. Shut(T)
      BY <1>1, <2>1
    <3>3. R \subseteq T
      BY <1>2, <3>1, <3>2
    <3>4. QED
      BY <2>1, <3>3
  <2>2. QED
    BY <1>1, <2>1
<1>4. ASSUME NEW k \in Nat, k \in S PROVE k + 1 \in S
  <2>1. PICK x \in V : <<k, x>> \in R /\ \A y \in V : <<k, y>> \in R => y = x
    BY <1>4
  <2>2. F[x] \in V /\ <<k + 1, F[x]>> \in R
    BY <1>1, <2>1
  <2>3. ASSUME NEW y \in V, <<k + 1, y>> \in R, y # F[x] PROVE FALSE
    <3> DEFINE T == R \ {<<k + 1, y>>}
    <3>1. T \in SUBSET (Nat \X V)
      BY <1>1
    <3>2. <<0, x0>> \in T
      BY <1>1
    <3>3. ASSUME NEW j \in Nat, NEW u \in V, <<j, u>> \in T PROVE <<j + 1, F[u]>> \in T
      <4>1. <<j, u>> \in R /\ <<j + 1, F[u]>> \in R
        BY <1>1, <3>3
      <4>2. j = k => u = x
        BY <2>1, <4>1
      <4>3. QED
        BY <2>3, <4>1, <4>2
    <3>4. R \subseteq T
      BY <1>2, <3>1, <3>2, <3>3
    <3>5. QED
      BY <2>3, <3>4
  <2>4. QED
    BY <2>2, <2>3
<1> HIDE DEF S
<1>5. Nat \subseteq S
  BY <1>3, <1>4, NatInduct
<1>6. \A k \in Nat : One(k)
  BY <1>5 DEF S
<1> DEFINE f == [k \in Nat |-> CHOOSE x \in V : <<k, x>> \in R]
<1>7. \A k \in Nat : f[k] \in V /\ <<k, f[k]>> \in R
  BY <1>6
<1> HIDE DEF f
<1>8. f[0] = x0
  BY <1>1, <1>6, <1>7
<1>9. ASSUME NEW k \in Nat PROVE f[k + 1] = F[f[k]]
  <2>1. <<k + 1, F[f[k]]>> \in R /\ F[f[k]] \in V
    BY <1>1, <1>7
  <2>2. <<k + 1, f[k + 1]>> \in R /\ f[k + 1] \in V
    BY <1>7
  <2>3. One(k + 1)
    BY <1>6
  <2>4. PICK x \in V : \A y \in V : <<k + 1, y>> \in R => y = x
    BY <2>3
  <2>5. QED
    BY <2>1, <2>2, <2>4
<1>10. f \in [Nat -> V]
  BY <1>7 DEF f
<1>11. Iterates(f, V, x0, F)
  BY <1>8, <1>9, <1>10 DEF Iterates
<1>12. QED
  BY <1>11

-----------------------------------------------------------------------------
(* Powers of two.                                                          *)
LEMMA Pow2Unfolds ==
    /\ Pow2[0] = 1
    /\ \A k \in Nat : Pow2[k] \in Nat \ {0} /\ Pow2[k + 1] = 2 * Pow2[k]
<1> DEFINE Eq(g) == g = [n \in Nat |-> IF n = 0 THEN 1 ELSE 2 * g[n - 1]]
           V == Nat \ {0}
           F == [x \in V |-> 2 * x]
<1>1. \A x \in V : F[x] \in V /\ F[x] = 2 * x
  OBVIOUS
<1>2. 1 \in V
  OBVIOUS
<1> HIDE DEF F, V
<1>3. PICK g : Iterates(g, V, 1, F)
  BY <1>1, <1>2, Iteration, Zenon
<1>4. g \in [Nat -> V] /\ g[0] = 1 /\ \A k \in Nat : g[k + 1] = F[g[k]]
  BY <1>3 DEF Iterates
<1>5. ASSUME NEW n \in Nat PROVE g[n] = IF n = 0 THEN 1 ELSE 2 * g[n - 1]
  <2>1. CASE n = 0
    BY <1>4, <2>1
  <2>2. CASE n # 0
    <3>1. n - 1 \in Nat /\ (n - 1) + 1 = n
      BY <2>2
    <3>2. g[n] = F[g[n - 1]] /\ g[n - 1] \in V
      BY <1>4, <3>1
    <3>3. QED
      BY <1>1, <2>2, <3>2
  <2>3. QED
    BY <2>1, <2>2
<1>6. Eq(g)
  BY <1>4, <1>5
<1>7. PICK u : u = Pow2 /\ Eq(u)
  <2>1. Pow2 = CHOOSE w : Eq(w)
    BY DEF Pow2
  <2>2. Eq(CHOOSE w : Eq(w))
    BY <1>6, Zenon
  <2>3. QED
    BY <2>1, <2>2
<1>8. \A n \in Nat : u[n] = IF n = 0 THEN 1 ELSE 2 * u[n - 1]
  BY <1>7
<1>9. u[0] = 1 /\ \A k \in Nat : u[k + 1] = 2 * u[k]
  <2>1. ASSUME NEW k \in Nat PROVE u[k + 1] = 2 * u[k]
    <3>1. k + 1 \in Nat /\ k + 1 # 0 /\ (k + 1) - 1 = k
      OBVIOUS
    <3>2. u[k + 1] = IF k + 1 = 0 THEN 1 ELSE 2 * u[(k + 1) - 1]
      BY <1>8, <3>1
    <3>3. QED
      BY <3>1, <3>2
  <2>2. QED
    BY <1>8, <2>1
<1> DEFINE S == {k \in Nat : u[k] \in Nat \ {0}}
<1>10. 0 \in S
  BY <1>9
<1>11. \A k \in Nat : k \in S => k + 1 \in S
  BY <1>9
<1> HIDE DEF S
<1>12. Nat \subseteq S
  BY <1>10, <1>11, NatInduct
<1>13. QED
  BY <1>7, <1>9, <1>12 DEF S

(* The size of a complete tree.                                            *)
LEMMA TreeSizes ==
    /\ TreeSize(0) = 1
    /\ \A k \in Nat : /\ TreeSize(k) \in Nat \ {0}
                      /\ TreeSize(k + 1) = 2 * TreeSize(k) + 1
                      /\ LeftDistance(k) = TreeSize(k) + 1
BY Pow2Unfolds DEF TreeSize, LeftDistance

-----------------------------------------------------------------------------
(* The node constructors stay within their types.                          *)
LEMMA LeafFacts ==
    ASSUME NEW kind, NEW e \in Elem
    PROVE  LeafOf(kind, e) \in XNode /\ LeafOf(kind, e).lvl = 0 /\ ~LeafOf(kind, e).m_is_written
<1>1. e.pn \in Nat /\ e.pn \in 0 .. NoPage /\ e.h \in Hash /\ IndexHash(e.pn) \in Hash
  BY DiskAssumption, BuildExAssumption DEF Elem
<1>2. (e.pn >= NoPage) \in BOOLEAN
  OBVIOUS
<1>3. CASE kind = "array"
  BY <1>1, <1>2, <1>3, DiskAssumption DEF LeafOf, ArrayLeaf, AsX, MakeQNode, XNode
<1>4. CASE kind # "array"
  BY <1>1, <1>2, <1>4, DiskAssumption DEF LeafOf, BlockLeaf, AsX, MakeQNode, XNode
<1>5. QED
  BY <1>3, <1>4

LEMMA NodeTypes ==
    ASSUME NEW n \in XNode
    PROVE  /\ n.pn \in Nat /\ n.lvl \in Nat /\ n.h \in Hash /\ n.isn \in BOOLEAN
           /\ n.izn \in BOOLEAN /\ n.lcpn \in Nat /\ n.lcos \in Int /\ n.rcpn \in Nat
           /\ n.rcos \in Int /\ n.ppn \in Nat /\ n.pos \in Int /\ n.rm \in Nat
           /\ n.m_is_written \in BOOLEAN
BY DEF XNode

LEMMA BlockTypes ==
    ASSUME NEW b \in Block
    PROVE  /\ b.pn \in Nat /\ b.lvl \in Nat /\ b.h \in Hash /\ b.isn \in BOOLEAN
           /\ b.izn \in BOOLEAN /\ b.lcpn \in Nat /\ b.lcos \in Int /\ b.rcpn \in Nat
           /\ b.rcos \in Int /\ b.ppn \in Nat /\ b.pos \in Int /\ b.rsvd \in Mark
BY DEF Block

LEMMA JoinedFacts ==
    ASSUME NEW l \in XNode, NEW r \in XNode
    PROVE  LET p == Joined(l, r) IN
           /\ p \in XNode /\ p.lvl = l.lvl + 1 /\ ~p.m_is_written
           /\ p.h = Combine(l.h, r.h) /\ p.lcos = -LeftDistance(l.lvl) /\ p.rcos = -1
<1>1. RightmostPage(l) \in Nat /\ RightmostPage(r) \in Nat
  BY NodeTypes DEF RightmostPage
<1>2. Combine(l.h, r.h) \in Hash
  BY NodeTypes, CombineType
<1>3. /\ l.lvl \in Nat /\ l.lvl + 1 \in Nat /\ LeftDistance(l.lvl) \in Int
      /\ l.pn \in Nat /\ r.pn \in Nat
  BY NodeTypes, TreeSizes
<1>4. PICK p : p = Joined(l, r)
  OBVIOUS
<1>5. p = [pn |-> RightmostPage(l), lvl |-> l.lvl + 1, h |-> Combine(l.h, r.h),
           isn |-> TRUE, izn |-> FALSE,
           lcpn |-> l.pn, lcos |-> -LeftDistance(l.lvl), rcpn |-> r.pn, rcos |-> -1,
           ppn |-> NoPage, pos |-> 0, rm |-> RightmostPage(r), m_is_written |-> FALSE]
  BY <1>4 DEF Joined, AsX, Combined
<1>6. p.lvl = l.lvl + 1 /\ ~p.m_is_written /\ p.h = Combine(l.h, r.h)
      /\ p.lcos = -LeftDistance(l.lvl) /\ p.rcos = -1
  BY <1>5
<1>7. p \in XNode
  <2>1. -LeftDistance(l.lvl) \in Int /\ NoPage \in Nat
    BY <1>3, DiskAssumption
  <2>2. QED
    BY <1>1, <1>2, <1>3, <1>5, <2>1 DEF XNode
<1>8. QED
  BY <1>4, <1>6, <1>7

Alike(m, n) == m.lvl = n.lvl /\ m.h = n.h /\ m.m_is_written = n.m_is_written

LEMMA LinkedFacts ==
    ASSUME NEW c \in XNode, NEW p \in XNode, NEW d \in Int
    PROVE  Linked(c, p, d) \in XNode /\ Alike(Linked(c, p, d), c)
<1>1. p.ppn \in Nat /\ p.pn \in Nat
  BY NodeTypes
<1>2. QED
  BY <1>1 DEF Linked, XNode, Alike

LEMMA ToBlockFacts ==
    ASSUME NEW n \in XNode
    PROVE  LET b == ToBlock(n, "R") IN
           b \in Block /\ b.lvl = n.lvl /\ b.h = n.h /\ b.lcos = n.lcos /\ b.rcos = n.rcos
<1>1. "R" \in Mark
  BY DEF Mark
<1>2. QED
  BY <1>1, NodeTypes DEF ToBlock, Block

-----------------------------------------------------------------------------
(* Sequences: node i is taken out, two nodes are replaced by three.        *)
TakenOut(s, n, m, t) ==
    /\ t \in Seq(XNode) /\ Len(t) = n - 1
    /\ \A j \in 1 .. m - 1 : t[j] = s[j]
    /\ \A j \in m .. n - 1 : t[j] = s[j + 1]

LEMMA TakenOutFacts ==
    ASSUME NEW s \in Seq(XNode), NEW n \in Nat, n = Len(s), NEW m \in 1 .. n,
           NEW t, t = SubSeq(s, 1, m - 1) \o SubSeq(s, m + 1, Len(s))
    PROVE  TakenOut(s, n, m, t)
<1> DEFINE a == SubSeq(s, 1, m - 1)
           b == SubSeq(s, m + 1, n)
<1>1. /\ a \in Seq(XNode) /\ Len(a) = m - 1
      /\ \A j \in 1 .. m - 1 : a[j] = s[j]
  OBVIOUS
<1>2. /\ b \in Seq(XNode) /\ Len(b) = n - m
      /\ \A j \in 1 .. n - m : b[j] = s[j + m]
  <2>1. /\ SubSeq(s, m + 1, n) \in Seq(XNode)
        /\ Len(SubSeq(s, m + 1, n)) = n - m
    OBVIOUS
  <2>2. ASSUME NEW j \in 1 .. n - m PROVE SubSeq(s, m + 1, n)[j] = s[j + m]
    <3>1. SubSeq(s, m + 1, n)[j] = s[(m + 1 + j) - 1] /\ (m + 1 + j) - 1 = j + m
      OBVIOUS
    <3>2. QED
      BY <3>1
  <2>3. QED
    BY <2>1, <2>2
<1>3. t = a \o b
  OBVIOUS
<1> HIDE DEF a, b
<1>4. /\ a \o b \in Seq(XNode) /\ Len(a \o b) = Len(a) + Len(b)
      /\ \A j \in 1 .. Len(a) + Len(b) :
            (a \o b)[j] = IF j <= Len(a) THEN a[j] ELSE b[j - Len(a)]
  <2>1. a \in Seq(XNode)
    BY <1>1
  <2>2. b \in Seq(XNode)
    BY <1>2
  <2>3. QED
    BY ONLY <2>1, <2>2, ConcatProperties
<1>5. Len(a) = m - 1 /\ Len(a) + Len(b) = n - 1
  <2>1. Len(a) = m - 1 /\ Len(b) = n - m /\ m \in 1 .. n /\ n \in Nat
    BY <1>1, <1>2
  <2>2. QED
    BY ONLY <2>1
<1>6. ASSUME NEW j \in 1 .. m - 1 PROVE t[j] = s[j]
  <2>1. j \in 1 .. n - 1 /\ j <= m - 1
    OBVIOUS
  <2>2. t[j] = a[j]
    BY <1>3, <1>4, <1>5, <2>1
  <2>3. QED
    BY <1>1, <2>2
<1>7. ASSUME NEW j \in m .. n - 1 PROVE t[j] = s[j + 1]
  <2>1. j - (m - 1) \in 1 .. n - m /\ ~(j <= m - 1) /\ j \in 1 .. n - 1
    OBVIOUS
  <2>2. t[j] = b[j - (m - 1)]
    BY <1>3, <1>4, <1>5, <2>1
  <2>3. b[j - (m - 1)] = s[(j - (m - 1)) + m]
    BY <1>2, <2>1
  <2>4. (j - (m - 1)) + m = j + 1
    OBVIOUS
  <2>5. QED
    BY <2>2, <2>3, <2>4
<1>8. QED
  BY <1>3, <1>4, <1>5, <1>6, <1>7 DEF TakenOut

TwoReplaced(s, n, x, y, z) == SubSeq(s, 1, n - 2) \o <<x, y>> \o <<z>>

TwoToThree(s, n, x, y, z, t) ==
    /\ t \in Seq(XNode) /\ Len(t) = n + 1
    /\ \A j \in 1 .. n - 2 : t[j] = s[j]
    /\ t[n - 1] = x /\ t[n] = y /\ t[n + 1] = z

LEMMA TwoToThreeFacts ==
    ASSUME NEW s \in Seq(XNode), NEW n \in Nat, n = Len(s), n >= 2,
           NEW x \in XNode, NEW y \in XNode, NEW z \in XNode
    PROVE  TwoToThree(s, n, x, y, z, TwoReplaced(s, n, x, y, z))
<1> DEFINE a == SubSeq(s, 1, n - 2)
           b == <<x, y>>
           c == <<z>>
           t == TwoReplaced(s, n, x, y, z)
<1>1. a \in Seq(XNode) /\ Len(a) = n - 2 /\ \A j \in 1 .. n - 2 : a[j] = s[j]
  OBVIOUS
<1>2. b \in Seq(XNode) /\ Len(b) = 2 /\ b[1] = x /\ b[2] = y
  OBVIOUS
<1>3. c \in Seq(XNode) /\ Len(c) = 1 /\ c[1] = z
  OBVIOUS
<1>4. t = (a \o b) \o c
  BY DEF TwoReplaced
<1> HIDE DEF a, b, c, t
<1> DEFINE d == a \o b
<1>5. /\ d \in Seq(XNode) /\ Len(d) = Len(a) + Len(b)
      /\ \A j \in 1 .. Len(a) + Len(b) : d[j] = IF j <= Len(a) THEN a[j] ELSE b[j - Len(a)]
  <2>1. a \in Seq(XNode)
    BY <1>1
  <2>2. b \in Seq(XNode)
    BY <1>2
  <2>3. QED
    BY ONLY <2>1, <2>2, ConcatProperties
<1>6. t = d \o c
  BY <1>4
<1> HIDE DEF d
<1>7. Len(d) = n /\ (\A j \in 1 .. n - 2 : d[j] = s[j]) /\ d[n - 1] = x /\ d[n] = y
  <2>1. Len(a) = n - 2 /\ Len(b) = 2 /\ Len(d) = n /\ Len(a) + Len(b) = n
    BY <1>1, <1>2, <1>5
  <2>2. \A j \in 1 .. n : d[j] = IF j <= n - 2 THEN a[j] ELSE b[j - (n - 2)]
    BY <1>5, <2>1
  <2>3. ASSUME NEW j \in 1 .. n - 2 PROVE d[j] = s[j]
    <3>1. j \in 1 .. n /\ j <= n - 2
      OBVIOUS
    <3>2. QED
      BY <1>1, <2>2, <3>1
  <2>4. /\ n - 1 \in 1 .. n /\ ~(n - 1 <= n - 2) /\ (n - 1) - (n - 2) = 1
        /\ n \in 1 .. n /\ ~(n <= n - 2) /\ n - (n - 2) = 2
    OBVIOUS
  <2>5. d[n - 1] = b[(n - 1) - (n - 2)] /\ d[n] = b[n - (n - 2)]
    BY <2>2, <2>4
  <2>6. d[n - 1] = x /\ d[n] = y
    BY ONLY <1>2, <2>4, <2>5
  <2>7. QED
    BY <2>1, <2>3, <2>6
<1>8. /\ d \o c \in Seq(XNode) /\ Len(d \o c) = Len(d) + Len(c)
      /\ \A j \in 1 .. Len(d) + Len(c) : (d \o c)[j] = IF j <= Len(d) THEN d[j] ELSE c[j - Len(d)]
  <2>1. d \in Seq(XNode)
    BY <1>5
  <2>2. c \in Seq(XNode)
    BY <1>3
  <2>3. QED
    BY ONLY <2>1, <2>2, ConcatProperties
<1>9. t \in Seq(XNode) /\ Len(t) = n + 1
  BY <1>3, <1>7, <1>6, <1>8
<1>10. \A j \in 1 .. n + 1 : t[j] = IF j <= n THEN d[j] ELSE c[j - n]
  BY <1>3, <1>7, <1>6, <1>8
<1>11. ASSUME NEW j \in 1 .. n - 2 PROVE t[j] = s[j]
  <2>1. j \in 1 .. n + 1 /\ j <= n
    OBVIOUS
  <2>2. QED
    BY <1>7, <1>10, <2>1
<1>12. t[n - 1] = x /\ t[n] = y
  <2>1. n - 1 \in 1 .. n + 1 /\ n \in 1 .. n + 1 /\ n - 1 <= n
    OBVIOUS
  <2>2. t[n - 1] = d[n - 1] /\ t[n] = d[n]
    BY ONLY <1>10, <2>1
  <2>3. QED
    BY ONLY <1>7, <2>2
<1>13. t[n + 1] = z
  <2>1. n + 1 \in 1 .. n + 1 /\ ~(n + 1 <= n) /\ (n + 1) - n = 1
    OBVIOUS
  <2>2. t[n + 1] = c[(n + 1) - n]
    BY <1>10, <2>1
  <2>3. QED
    BY <1>3, <2>1, <2>2
<1>14. QED
  BY <1>9, <1>11, <1>12, <1>13 DEF t, TwoToThree

-----------------------------------------------------------------------------
(* The invariant.  The block at x, before the file pointer w, is node n's. *)
Fits(f, w, x, n) == x \in 1 .. w - 1 /\ f[x].lvl = n.lvl /\ f[x].h = n.h

(* The trees of the first m queued nodes follow each other in the file:    *)
(* the tree of node k ends with the block e[k], which is the node's own.   *)
NodeAt(f, s, w, e, k) ==
    /\ e[k] \in Nat /\ e[k] = e[k - 1] + TreeSize(s[k].lvl)
    /\ s[k].lvl > 0 /\ s[k].m_is_written /\ Fits(f, w, e[k], s[k])

Falling(s, m) == \A j, k \in 1 .. m : j < k => s[j].lvl > s[k].lvl

Base(f, s, w, e, m) ==
    /\ e[0] = 0
    /\ \A k \in 1 .. m : NodeAt(f, s, w, e, k)
    /\ Falling(s, m)

Over(s, m, level) == \A k \in 1 .. m : s[k].lvl > level

Fresh(n) == n.lvl = 0 /\ ~n.m_is_written

(* What stage "read", and "root", finds: a leaf may be left over.          *)
ReadAt(f, s, w, e, n) ==
    \/ Base(f, s, w, e, n) /\ e[n] = w - 1
    \/ n >= 1 /\ Fresh(s[n]) /\ Base(f, s, w, e, n - 1) /\ e[n - 1] = w - 1

(* The last node may have the level of the one before.                     *)
CombineAt(f, s, w, e, n) ==
    \/ n >= 1 /\ Fresh(s[n]) /\ Base(f, s, w, e, n - 1) /\ e[n - 1] = w - 1
    \/ /\ n >= 2 /\ Fresh(s[n]) /\ Fresh(s[n - 1])
       /\ Base(f, s, w, e, n - 2) /\ e[n - 2] = w - 1
    \/ /\ n >= 1 /\ Base(f, s, w, e, n - 1) /\ s[n].lvl > 0 /\ s[n].m_is_written
       /\ Over(s, n - 1, s[n].lvl - 1)
       /\ e[n - 1] + TreeSize(s[n].lvl) = w - 1 /\ Fits(f, w, w - 1, s[n])

(* A parent of two nodes of the level below.                               *)
ParentOver(p, level, lh, rh) ==
    /\ p.lvl = level + 1 /\ p.h = Combine(lh, rh)
    /\ p.lcos = -LeftDistance(level) /\ p.rcos = -1

(* Node r, whose level is k, lies behind x, or is not in the file yet.     *)
Behind(f, w, x, r, k) ==
    \/ k = 0 /\ ~r.m_is_written /\ x = w - 1
    \/ k > 0 /\ r.m_is_written /\ x + TreeSize(k) = w - 1 /\ Fits(f, w, w - 1, r)

LeftAt(f, s, w, e, n) ==
    LET l == s[n - 2]
        r == s[n - 1]
        k == l.lvl
        x == e[n - 3] + TreeSize(k)
    IN  /\ n >= 3 /\ Base(f, s, w, e, n - 3) /\ Over(s, n - 3, k)
        /\ r.lvl = k /\ ParentOver(s[n], k, l.h, r.h)
        /\ \/ k = 0 /\ ~l.m_is_written /\ ~r.m_is_written /\ e[n - 3] = w - 1
           \/ k > 0 /\ l.m_is_written /\ Fits(f, w, x, l) /\ Behind(f, w, x, r, k)

RightAt(f, s, w, e, n) ==
    LET r == s[n - 1]
        k == r.lvl
        x == e[n - 2] + TreeSize(k)
    IN  /\ n >= 2 /\ Base(f, s, w, e, n - 2) /\ Over(s, n - 2, k)
        /\ x \in 1 .. w - 1 /\ f[x].lvl = k
        /\ ParentOver(s[n], k, f[x].h, r.h) /\ Behind(f, w, x, r, k)

ParentAt(f, s, w, e, n) ==
    LET k == s[n].lvl - 1
        x == e[n - 1] + TreeSize(k)
    IN  /\ n >= 1 /\ k >= 0 /\ Base(f, s, w, e, n - 1) /\ Over(s, n - 1, k)
        /\ x \in 1 .. w - 1 /\ x + TreeSize(k) = w - 1
        /\ f[x].lvl = k /\ f[w - 1].lvl = k
        /\ ParentOver(s[n], k, f[x].h, f[w - 1].h)

JoinsAt(f, p) ==
    f[p].lvl > 0 =>
        LET l == p + f[p].lcos
            r == p + f[p].rcos
        IN  /\ l \in 1 .. p - 1 /\ r \in 1 .. p - 1 /\ l # r
            /\ f[l].lvl = f[p].lvl - 1 /\ f[r].lvl = f[p].lvl - 1
            /\ f[p].h = Combine(f[l].h, f[r].h)

Joins == \A p \in 1 .. wpos - 1 : JoinsAt(file, p)

StageInv ==
    /\ stage \in {"read", "root"} => \E e : ReadAt(file, q, wpos, e, Len(q))
    /\ stage = "combine" => \E e : CombineAt(file, q, wpos, e, Len(q))
    /\ stage = "left" => \E e : LeftAt(file, q, wpos, e, Len(q))
    /\ stage = "right" => \E e : RightAt(file, q, wpos, e, Len(q))
    /\ stage = "parent" => \E e : ParentAt(file, q, wpos, e, Len(q))

(* How far the input was read; the tree of two leaves or more has a root.  *)
Alone == Len(todo) + 1 = Len(job.elems)

RootInv ==
    /\ stage \notin {"idle", "header"} => job # NoJob
    /\ stage = "read" => \/ q = <<>> /\ todo = job.elems
                         \/ q # <<>> /\ todo # <<>> /\ (q[1].lvl = 0 => Alone)
    /\ stage = "combine" => q # <<>> /\ (q[1].lvl = 0 => MustCombine \/ Alone)
    /\ stage = "root" => q # <<>> /\ todo = <<>> /\ (q[1].lvl = 0 => Alone)
    /\ stage = "header" /\ Len(job.elems) > 1 => glob.rno \in 1 .. wpos - 1
    /\ stage = "idle" /\ Len(job.elems) > 1 => hdr.rno = glob.rno /\ glob.rno \in 1 .. wpos - 1

ExInv == TypeOK /\ job.elems \in Seq(Elem) /\ StageInv /\ Joins /\ RootInv

-----------------------------------------------------------------------------
(* What is written or patched leaves of the blocks before it what counts.  *)
Keeps(f, g, w) ==
    \A x \in 1 .. w - 1 : /\ g[x].lvl = f[x].lvl /\ g[x].h = f[x].h
                          /\ g[x].lcos = f[x].lcos /\ g[x].rcos = f[x].rcos

LEMMA EndType ==
    ASSUME NEW f, NEW s, NEW w, NEW e, NEW m \in Nat, Base(f, s, w, e, m), NEW k \in 0 .. m
    PROVE  e[k] \in Nat
<1>1. CASE k = 0
  BY <1>1 DEF Base
<1>2. CASE k # 0
  BY <1>2 DEF Base, NodeAt
<1>3. QED
  BY <1>1, <1>2

LEMMA BaseShort ==
    ASSUME NEW f, NEW s, NEW w, NEW e, NEW m \in Nat, Base(f, s, w, e, m), NEW k \in 0 .. m
    PROVE  Base(f, s, w, e, k)
BY DEF Base, Falling

LEMMA FitsKept ==
    ASSUME NEW f, NEW g, NEW w \in Nat, NEW v \in Nat, w <= v, Keeps(f, g, w),
           NEW x, NEW n, Fits(f, w, x, n)
    PROVE  Fits(g, v, x, n)
BY DEF Fits, Keeps

LEMMA BaseKept ==
    ASSUME NEW f, NEW g, NEW w \in Nat, NEW v \in Nat, w <= v, Keeps(f, g, w),
           NEW s, NEW t, NEW e, NEW m \in Nat, Base(f, s, w, e, m),
           \A k \in 1 .. m : t[k] = s[k]
    PROVE  Base(g, t, v, e, m)
<1>1. ASSUME NEW k \in 1 .. m PROVE NodeAt(g, t, v, e, k)
  <2>1. NodeAt(f, s, w, e, k) /\ t[k] = s[k]
    BY DEF Base
  <2>2. Fits(f, w, e[k], s[k])
    BY <2>1 DEF NodeAt
  <2>3. Fits(g, v, e[k], s[k])
    BY <2>2, FitsKept
  <2>4. QED
    BY <2>1, <2>3 DEF NodeAt
<1>2. Falling(t, m)
  BY DEF Base, Falling
<1>3. QED
  BY <1>1, <1>2 DEF Base

LEMMA BaseSame ==
    ASSUME NEW f, NEW w \in Nat, NEW s, NEW t, NEW e, NEW m \in Nat, Base(f, s, w, e, m),
           \A k \in 1 .. m : t[k] = s[k]
    PROVE  Base(f, t, w, e, m)
<1>1. w <= w /\ Keeps(f, f, w)
  BY DEF Keeps
<1>2. QED
  BY <1>1, BaseKept

LEMMA BaseGrown ==
    ASSUME NEW f, NEW w \in Nat, NEW s, NEW e, NEW m \in Nat, Base(f, s, w, e, m),
           s[m + 1].lvl \in Nat, s[m + 1].lvl > 0, s[m + 1].m_is_written,
           \A k \in 1 .. m : s[k].lvl > s[m + 1].lvl,
           e[m] + TreeSize(s[m + 1].lvl) = w - 1, Fits(f, w, w - 1, s[m + 1])
    PROVE  \E d : Base(f, s, w, d, m + 1) /\ d[m + 1] = w - 1
<1> DEFINE d == [k \in 0 .. m + 1 |-> IF k = m + 1 THEN w - 1 ELSE e[k]]
<1>1. d[m + 1] = w - 1 /\ \A k \in 0 .. m : d[k] = e[k]
  OBVIOUS
<1> HIDE DEF d
<1>2. d[0] = 0
  BY <1>1 DEF Base
<1>3. ASSUME NEW k \in 1 .. m + 1 PROVE NodeAt(f, s, w, d, k)
  <2>1. CASE k = m + 1
    <3>1. (m + 1) - 1 = m /\ m \in 0 .. m
      OBVIOUS
    <3>2. d[m + 1] = d[(m + 1) - 1] + TreeSize(s[m + 1].lvl)
      BY <1>1, <3>1
    <3>3. w - 1 \in Nat
      BY DEF Fits
    <3>4. QED
      BY <1>1, <2>1, <3>2, <3>3 DEF NodeAt
  <2>2. CASE k # m + 1
    <3>1. k \in 1 .. m /\ k \in 0 .. m /\ k - 1 \in 0 .. m
      BY <2>2
    <3>2. d[k] = e[k] /\ d[k - 1] = e[k - 1] /\ NodeAt(f, s, w, e, k)
      BY <1>1, <3>1 DEF Base
    <3>3. QED
      BY <3>2 DEF NodeAt
  <2>3. QED
    BY <2>1, <2>2
<1>4. Falling(s, m + 1)
  <2> SUFFICES ASSUME NEW j \in 1 .. m + 1, NEW k \in 1 .. m + 1, j < k
               PROVE  s[j].lvl > s[k].lvl
    BY DEF Falling
  <2>1. CASE k = m + 1
    <3>1. j \in 1 .. m
      BY <2>1
    <3>2. QED
      BY <2>1, <3>1
  <2>2. CASE k # m + 1
    <3>1. j \in 1 .. m /\ k \in 1 .. m
      BY <2>2
    <3>2. QED
      BY <3>1 DEF Base, Falling
  <2>3. QED
    BY <2>1, <2>2
<1>5. QED
  BY <1>1, <1>2, <1>3, <1>4 DEF Base

LEMMA JoinsKept ==
    ASSUME NEW f, NEW g, NEW w \in Nat, Keeps(f, g, w),
           \A p \in 1 .. w - 1 : f[p].lcos \in Int /\ f[p].rcos \in Int,
           \A p \in 1 .. w - 1 : JoinsAt(f, p)
    PROVE  \A p \in 1 .. w - 1 : JoinsAt(g, p)
<1> SUFFICES ASSUME NEW p \in 1 .. w - 1 PROVE JoinsAt(g, p)
  OBVIOUS
<1>1. JoinsAt(f, p) /\ g[p].lvl = f[p].lvl /\ g[p].h = f[p].h /\ g[p].lcos = f[p].lcos
      /\ g[p].rcos = f[p].rcos
  BY DEF Keeps
<1>2. SUFFICES ASSUME g[p].lvl > 0
               PROVE  LET l == p + g[p].lcos
                          r == p + g[p].rcos
                      IN  /\ l \in 1 .. p - 1 /\ r \in 1 .. p - 1 /\ l # r
                          /\ g[l].lvl = g[p].lvl - 1 /\ g[r].lvl = g[p].lvl - 1
                          /\ g[p].h = Combine(g[l].h, g[r].h)
  BY DEF JoinsAt
<1> DEFINE l == p + f[p].lcos
           r == p + f[p].rcos
<1>3. /\ l \in 1 .. p - 1 /\ r \in 1 .. p - 1 /\ l # r
      /\ f[l].lvl = f[p].lvl - 1 /\ f[r].lvl = f[p].lvl - 1
      /\ f[p].h = Combine(f[l].h, f[r].h)
  BY <1>1, <1>2 DEF JoinsAt
<1>4. l = p + g[p].lcos /\ r = p + g[p].rcos
  BY <1>1
<1> HIDE DEF l, r
<1>5. l \in 1 .. w - 1 /\ r \in 1 .. w - 1
  BY <1>3
<1>6. g[l].lvl = f[l].lvl /\ g[l].h = f[l].h /\ g[r].lvl = f[r].lvl /\ g[r].h = f[r].h
  BY <1>5 DEF Keeps
<1>7. QED
  BY <1>1, <1>3, <1>4, <1>6

-----------------------------------------------------------------------------
(* What the type invariant says in the places that need it.                *)
LEMMA Facts ==
    ASSUME TypeOK
    PROVE  /\ wpos \in Nat /\ wpos >= 1 /\ wpos - 1 \in Nat
           /\ file \in [Pos -> Block] /\ hdr \in Header /\ glob \in Globals
           /\ \A p \in 1 .. wpos - 1 : p \in Pos /\ file[p] \in Block
           /\ \A p \in 1 .. wpos - 1 : file[p].lcos \in Int /\ file[p].rcos \in Int
           /\ q \in Seq(XNode) /\ Len(q) \in Nat /\ \A k \in 1 .. Len(q) : q[k] \in XNode
           /\ todo \in Seq(Elem)
<1>1. MaxPos \in Nat /\ wpos \in 1 .. MaxPos + 1 /\ file \in [Pos -> Block]
  BY DiskAssumption DEF TypeOK, DiskTypeOK
<1>2. \A p \in 1 .. wpos - 1 : p \in Pos /\ file[p] \in Block
  BY <1>1 DEF Pos
<1>3. \A p \in 1 .. wpos - 1 : file[p].lcos \in Int /\ file[p].rcos \in Int
  BY <1>2, BlockTypes
<1>4. QED
  BY <1>1, <1>2, <1>3 DEF TypeOK, DiskTypeOK


LEMMA ZeroType == ZeroBlock \in Block
<1>1. NullHash \in Hash
  BY DEF NullHash, Hash, Byte
<1>2. QED
  BY <1>1 DEF ZeroBlock, Block, Mark

LEMMA EmptyDiskType == [p \in Pos |-> ZeroBlock] \in [Pos -> Block]
                       /\ [rno |-> NoPos, fslo |-> NoPos] \in Header
                       /\ NoGlobals \in Globals
<1>1. MaxPos \in Nat
  BY DiskAssumption
<1>2. QED
  BY <1>1, ZeroType DEF Header, NoPos, NoGlobals, Globals

-----------------------------------------------------------------------------
(* The initial state, and the start of a build.                            *)
LEMMA InitEx == ASSUME Init PROVE ExInv
<1>1. TypeOK
  <2>1. wpos = 1 /\ wpos \in 1 .. MaxPos + 1
    BY DiskAssumption DEF Init
  <2>2. q \in Seq(XNode) /\ todo \in Seq(Elem)
    BY DEF Init
  <2>3. QED
    BY <2>1, <2>2, EmptyDiskType DEF Init, TypeOK, DiskTypeOK, NoJob
<1>2. job.elems \in Seq(Elem) /\ Len(job.elems) = 0
  BY DEF Init, NoJob
<1>3. Joins
  BY DEF Init, Joins
<1>4. StageInv
  BY DEF Init, StageInv
<1>5. RootInv
  BY <1>2 DEF Init, RootInv
<1>6. QED
  BY <1>1, <1>2, <1>3, <1>4, <1>5 DEF ExInv

GoodInput(in) == in.kind \in Kinds /\ in.elems \in Seq(Elem) /\ in.elems # <<>>

LEMMA StartEx == ASSUME NEW in, GoodInput(in), StartBuild(in) PROVE ExInv'
<1>1. TypeOK'
  <2>1. wpos' = 1 /\ wpos' \in 1 .. MaxPos + 1
    BY DiskAssumption DEF StartBuild
  <2>2. q' \in Seq(XNode) /\ todo' \in Seq(Elem)
    BY DEF StartBuild, GoodInput
  <2>3. QED
    BY <2>1, <2>2, EmptyDiskType DEF StartBuild, TypeOK, DiskTypeOK, GoodInput
<1>2. job'.elems \in Seq(Elem) /\ job' # NoJob /\ todo' = job'.elems
  BY DEF StartBuild, GoodInput, NoJob
<1>3. Joins'
  BY DEF StartBuild, Joins
<1>4. StageInv'
  <2> DEFINE e == [k \in {0} |-> 0]
  <2>1. e[0] = 0
    OBVIOUS
  <2> HIDE DEF e
  <2>2. Len(q') = 0 /\ wpos' = 1
    BY DEF StartBuild
  <2>3. Base(file', q', 1, e, 0)
    BY <2>1 DEF Base, Falling
  <2>4. ReadAt(file', q', wpos', e, Len(q'))
    BY <2>1, <2>2, <2>3 DEF ReadAt
  <2>5. QED
    BY <2>4 DEF StageInv, StartBuild
<1>5. RootInv'
  BY <1>2 DEF StartBuild, RootInv
<1>6. QED
  BY <1>1, <1>2, <1>3, <1>4, <1>5 DEF ExInv

(* The leaf that is read becomes the tail of the queue.                    *)
LEMMA Appended ==
    ASSUME NEW s \in Seq(XNode), NEW x \in XNode, NEW n \in Nat, n = Len(s)
    PROVE  /\ Append(s, x) \in Seq(XNode) /\ Len(Append(s, x)) = n + 1
           /\ \A k \in 1 .. n : Append(s, x)[k] = s[k]
           /\ Append(s, x)[n + 1] = x
OBVIOUS

LEMMA ReadKept ==
    ASSUME NEW f, NEW w \in Nat, NEW n \in Nat, NEW s, NEW t, NEW e, ReadAt(f, s, w, e, n),
           Fresh(t[n + 1]), \A k \in 1 .. n : t[k] = s[k]
    PROVE  CombineAt(f, t, w, e, n + 1)
<1>1. (n + 1) - 1 = n /\ (n + 1) - 2 = n - 1 /\ n + 1 >= 1
  OBVIOUS
<1>2. CASE Base(f, s, w, e, n) /\ e[n] = w - 1
  <2>1. Base(f, t, w, e, n)
    BY <1>2, BaseSame
  <2>2. QED
    BY <1>1, <1>2, <2>1 DEF CombineAt
<1>3. CASE n >= 1 /\ Fresh(s[n]) /\ Base(f, s, w, e, n - 1) /\ e[n - 1] = w - 1
  <2>1. n - 1 \in Nat /\ \A k \in 1 .. n - 1 : t[k] = s[k]
    BY <1>3
  <2>2. Base(f, t, w, e, n - 1)
    BY <1>3, <2>1, BaseSame
  <2>3. n + 1 >= 2 /\ t[n] = s[n]
    BY <1>3
  <2>4. QED
    BY <1>1, <1>3, <2>2, <2>3 DEF CombineAt
<1>4. QED
  BY <1>2, <1>3 DEF ReadAt

LEMMA ReadElemEx == ASSUME ExInv, ReadElem PROVE ExInv'
<1> DEFINE x == LeafOf(job.kind, Head(todo))
<1>1. TypeOK /\ stage = "read" /\ todo # <<>> /\ todo \in Seq(Elem)
  BY Facts DEF ExInv, ReadElem
<1>2. job # NoJob /\ job.elems \in Seq(Elem)
  BY <1>1 DEF ExInv, RootInv
<1>3. x \in XNode /\ Fresh(x)
  <2>1. Head(todo) \in Elem
    BY <1>1
  <2>2. x \in XNode /\ x.lvl = 0 /\ ~x.m_is_written
    BY <2>1, LeafFacts
  <2>3. QED
    BY <2>2 DEF Fresh
<1> HIDE DEF x
<1>4. q' = Append(q, x) /\ UNCHANGED <<file, hdr, wpos, glob, job>> /\ todo' = Tail(todo)
      /\ stage' = "combine"
  BY DEF ReadElem, x
<1>5. PICK n \in Nat : n = Len(q)
  BY <1>1, Facts
<1>6. PICK t : t = q'
  OBVIOUS
<1>7. q \in Seq(XNode)
  BY <1>1, Facts
<1>8. t \in Seq(XNode) /\ Len(t) = n + 1 /\ t[n + 1] = x /\ \A k \in 1 .. n : t[k] = q[k]
  BY <1>3, <1>4, <1>5, <1>6, <1>7, Appended
<1>9. PICK e : ReadAt(file, q, wpos, e, n)
  BY <1>1, <1>5 DEF ExInv, StageInv
<1>10. TypeOK'
  <2>1. Tail(todo) \in Seq(Elem)
    BY <1>1
  <2>2. QED
    BY <1>1, <1>4, <1>6, <1>8, <2>1 DEF TypeOK, DiskTypeOK
<1>11. StageInv'
  <2>1. wpos \in Nat
    BY <1>1, Facts
  <2>2. CombineAt(file, t, wpos, e, n + 1)
    BY <1>3, <1>8, <1>9, <2>1, ReadKept
  <2>3. CombineAt(file', q', wpos', e, Len(q'))
    BY <1>4, <1>6, <1>8, <2>2
  <2>4. QED
    BY <1>4, <2>3 DEF StageInv
<1>12. Joins'
  BY <1>4 DEF ExInv, Joins
<1>13. RootInv'
  <2>1. q' # <<>> /\ t[n + 1] = x /\ x.lvl = 0
    BY <1>3, <1>6, <1>8 DEF Fresh
  <2>2. ASSUME q'[1].lvl = 0 PROVE MustCombine' \/ Alone'
    <3>1. CASE q = <<>>
      <4>1. todo = job.elems
        BY <1>1, <3>1 DEF ExInv, RootInv
      <4>2. Len(todo') = Len(todo) - 1
        BY <1>1, <1>4
      <4>3. QED
        BY <1>4, <4>1, <4>2 DEF Alone
    <3>2. CASE q # <<>>
      <4>1. n >= 1 /\ 1 \in 1 .. n /\ q[1].lvl = 0
        BY <1>5, <1>6, <1>7, <1>8, <2>2, <3>2
      <4>2. ASSUME NEW m \in Nat, m >= 1, Base(file, q, wpos, e, m) PROVE FALSE
        <5>1. NodeAt(file, q, wpos, e, 1)
          BY <4>2 DEF Base
        <5>2. QED
          BY <4>1, <5>1 DEF NodeAt
      <4>3. Base(file, q, wpos, e, n - 1)
        BY <1>9, <4>1, <4>2 DEF ReadAt
      <4>4. n = 1
        BY <4>1, <4>2, <4>3
      <4>5. q' = t /\ Len(t) = 2 /\ t[2].lvl = 0 /\ t[2 - 1].lvl = 0
        BY <1>6, <1>8, <2>1, <4>1, <4>4
      <4>6. MustCombine'
        BY <4>5 DEF MustCombine
      <4>7. QED
        BY <4>6
    <3>3. QED
      BY <3>1, <3>2
  <2>3. QED
    BY <1>2, <1>4, <2>1, <2>2 DEF RootInv
<1>14. QED
  BY <1>2, <1>4, <1>10, <1>11, <1>12, <1>13 DEF ExInv

-----------------------------------------------------------------------------
(* The last two nodes are combined.                                        *)
LEMMA PairKept ==
    ASSUME NEW f, NEW w \in Nat, NEW n \in Nat, NEW s, NEW t, NEW e, NEW k \in Nat,
           CombineAt(f, s, w, e, n), n > 1, s[n].lvl = k, s[n - 1].lvl = k,
           \A j \in 1 .. n - 2 : t[j] = s[j],
           Alike(t[n - 1], s[n - 1]), Alike(t[n], s[n]),
           ParentOver(t[n + 1], k, s[n - 1].h, s[n].h)
    PROVE  LeftAt(f, t, w, e, n + 1)
<1>1. (n + 1) - 1 = n /\ (n + 1) - 2 = n - 1 /\ (n + 1) - 3 = n - 2 /\ n + 1 >= 3
      /\ n - 2 \in Nat /\ n - 1 \in Nat /\ n - 1 \in 1 .. n - 1 /\ (n - 1) - 1 = n - 2
  OBVIOUS
<1>2. /\ t[n - 1].lvl = k /\ t[n - 1].h = s[n - 1].h
      /\ t[n - 1].m_is_written = s[n - 1].m_is_written
      /\ t[n].lvl = k /\ t[n].h = s[n].h /\ t[n].m_is_written = s[n].m_is_written
  BY DEF Alike
<1>3. ParentOver(t[n + 1], k, t[n - 1].h, t[n].h)
  BY <1>2
<1>4. CASE n >= 1 /\ Fresh(s[n]) /\ Base(f, s, w, e, n - 1) /\ e[n - 1] = w - 1
  <2>1. NodeAt(f, s, w, e, n - 1)
    BY <1>1, <1>4 DEF Base
  <2>2. QED
    BY <1>4, <2>1 DEF NodeAt, Fresh
<1>5. CASE /\ n >= 2 /\ Fresh(s[n]) /\ Fresh(s[n - 1])
           /\ Base(f, s, w, e, n - 2) /\ e[n - 2] = w - 1
  <2>1. Base(f, t, w, e, n - 2)
    BY <1>1, <1>5, BaseSame
  <2>2. k = 0
    BY <1>5 DEF Fresh
  <2>3. Over(t, n - 2, k)
    BY <2>1, <2>2 DEF Over, Base, NodeAt
  <2>4. ~t[n - 1].m_is_written /\ ~t[n].m_is_written
    BY <1>2, <1>5 DEF Fresh
  <2>5. QED
    BY <1>1, <1>2, <1>3, <1>5, <2>1, <2>2, <2>3, <2>4 DEF LeftAt
<1>6. CASE /\ n >= 1 /\ Base(f, s, w, e, n - 1) /\ s[n].lvl > 0 /\ s[n].m_is_written
           /\ Over(s, n - 1, s[n].lvl - 1)
           /\ e[n - 1] + TreeSize(s[n].lvl) = w - 1 /\ Fits(f, w, w - 1, s[n])
  <2>1. Base(f, s, w, e, n - 2)
    <3>1. n - 2 \in 0 .. n - 1
      BY <1>1
    <3>2. QED
      BY <1>1, <1>6, <3>1, BaseShort
  <2>2. Base(f, t, w, e, n - 2)
    BY <1>1, <2>1, BaseSame
  <2>3. NodeAt(f, s, w, e, n - 1)
    BY <1>1, <1>6 DEF Base
  <2>4. /\ e[n - 1] = e[n - 2] + TreeSize(k) /\ k > 0 /\ s[n - 1].m_is_written
        /\ Fits(f, w, e[n - 1], s[n - 1])
    BY <1>1, <2>3 DEF NodeAt
  <2>5. Over(t, n - 2, k)
    <3>1. ASSUME NEW j \in 1 .. n - 2 PROVE t[j].lvl > k
      <4>1. Falling(s, n - 1) /\ j \in 1 .. n - 1 /\ j < n - 1
        BY <1>1, <1>6 DEF Base
      <4>2. s[j].lvl > s[n - 1].lvl
        BY <1>1, <4>1 DEF Falling
      <4>3. QED
        BY <4>2
    <3>2. QED
      BY <3>1 DEF Over
  <2>6. Fits(f, w, e[n - 2] + TreeSize(k), t[n - 1])
    BY <1>2, <2>4 DEF Fits
  <2>7. Behind(f, w, e[n - 2] + TreeSize(k), t[n], k)
    BY <1>2, <1>6, <2>4 DEF Behind, Fits
  <2>8. t[n - 1].m_is_written
    BY <1>2, <2>4
  <2>9. QED
    BY <1>1, <1>2, <1>3, <2>2, <2>4, <2>5, <2>6, <2>7, <2>8 DEF LeftAt
<1>7. QED
  BY <1>4, <1>5, <1>6 DEF CombineAt

LEMMA PairEx == ASSUME ExInv, Pair PROVE ExInv'
<1>1. TypeOK /\ stage = "combine" /\ MustCombine
  BY DEF ExInv, Pair
<1>2. PICK n \in Nat : n = Len(q)
  BY <1>1, Facts
<1>3. n > 1 /\ q[n].lvl = q[n - 1].lvl
  BY <1>1, <1>2 DEF MustCombine
<1>4. q \in Seq(XNode) /\ q[n] \in XNode /\ q[n - 1] \in XNode /\ wpos \in Nat
  <2>1. n \in 1 .. n /\ n - 1 \in 1 .. n
    BY <1>3
  <2>2. QED
    BY <1>1, <1>2, <2>1, Facts
<1>5. PICK k \in Nat : k = q[n].lvl
  BY <1>4, NodeTypes
<1>6. PICK p : p = Joined(q[n - 1], q[n])
  OBVIOUS
<1>7. p \in XNode /\ ParentOver(p, k, q[n - 1].h, q[n].h)
  BY <1>3, <1>4, <1>5, <1>6, JoinedFacts DEF ParentOver
<1>8. PICK x : x = Linked(q[n - 1], p, LeftDistance(k))
  OBVIOUS
<1>9. PICK y : y = Linked(q[n], p, 1)
  OBVIOUS
<1>10. x \in XNode /\ y \in XNode /\ Alike(x, q[n - 1]) /\ Alike(y, q[n])
  <2>1. LeftDistance(k) \in Int
    BY TreeSizes
  <2>2. PICK l \in XNode : l = q[n - 1]
    BY <1>4
  <2>3. PICK r \in XNode : r = q[n]
    BY <1>4
  <2>4. Linked(l, p, LeftDistance(k)) \in XNode /\ Alike(Linked(l, p, LeftDistance(k)), l)
    BY ONLY <1>7, <2>1, LinkedFacts
  <2>5. 1 \in Int
    OBVIOUS
  <2>6. Linked(r, p, 1) \in XNode /\ Alike(Linked(r, p, 1), r)
    BY ONLY <1>7, <2>5, LinkedFacts
  <2>7. QED
    BY <1>8, <1>9, <2>2, <2>3, <2>4, <2>6
<1>11. PICK t : t = q'
  OBVIOUS
<1>12. t = SubSeq(q, 1, n - 2) \o <<x, y>> \o <<p>>
  BY <1>2, <1>3, <1>5, <1>6, <1>8, <1>9, <1>11 DEF Pair, LinkedTo
<1>13. UNCHANGED <<file, hdr, wpos, glob, job, todo>> /\ stage' = "left"
  BY DEF Pair
<1>14. /\ t \in Seq(XNode) /\ Len(t) = n + 1 /\ \A j \in 1 .. n - 2 : t[j] = q[j]
       /\ t[n - 1] = x /\ t[n] = y /\ t[n + 1] = p
  <2>1. PICK s \in Seq(XNode) : s = q
    BY <1>4
  <2>2. n = Len(s) /\ n >= 2
    BY <1>2, <1>3, <2>1
  <2>3. t = TwoReplaced(s, n, x, y, p)
    BY <1>12, <2>1 DEF TwoReplaced
  <2>4. TwoToThree(s, n, x, y, p, t)
    BY ONLY <1>7, <1>10, <2>2, <2>3, TwoToThreeFacts
  <2>5. QED
    BY <2>1, <2>4 DEF TwoToThree
<1>15. TypeOK'
  BY <1>1, <1>11, <1>13, <1>14 DEF TypeOK, DiskTypeOK
<1>16. StageInv'
  <2>1. PICK e : CombineAt(file, q, wpos, e, n)
    BY <1>1, <1>2 DEF ExInv, StageInv
  <2>2. LeftAt(file, t, wpos, e, n + 1)
    BY <1>3, <1>4, <1>5, <1>7, <1>10, <1>14, <2>1, PairKept
  <2>3. LeftAt(file', q', wpos', e, Len(q'))
    BY <1>11, <1>13, <1>14, <2>2
  <2>4. QED
    BY <1>13, <2>3 DEF StageInv
<1>17. Joins'
  BY <1>13 DEF ExInv, Joins
<1>18. RootInv'
  BY <1>1, <1>13 DEF ExInv, RootInv
<1>19. QED
  BY <1>13, <1>15, <1>16, <1>17, <1>18 DEF ExInv

-----------------------------------------------------------------------------
(* A child is taken out and its block written or patched.                  *)
LEMMA PatchedFacts ==
    ASSUME NEW n \in XNode, TypeOK
    PROVE  Patched(n) \in [Pos -> Block] /\ Keeps(file, Patched(n), wpos)
<1>1. PICK p : p = FoundFor(n)
  OBVIOUS
<1>2. PICK g : g = Patched(n)
  OBVIOUS
<1>3. file \in [Pos -> Block] /\ \A y \in 1 .. wpos - 1 : y \in Pos
  BY Facts
<1>4. CASE p = NoPos
  BY <1>1, <1>2, <1>3, <1>4 DEF Patched, Keeps
<1>5. CASE p # NoPos
  <2>1. g = [file EXCEPT ![p] = [file[p] EXCEPT !.pn = n.pn, !.lcpn = n.lcpn,
                                                !.rcpn = n.rcpn, !.ppn = n.ppn]]
    BY <1>1, <1>2, <1>5 DEF Patched
  <2>2. g \in [Pos -> Block]
    <3>1. p \in Pos => [file[p] EXCEPT !.pn = n.pn, !.lcpn = n.lcpn,
                                       !.rcpn = n.rcpn, !.ppn = n.ppn] \in Block
      BY <1>3, NodeTypes DEF Block
    <3>2. QED
      BY <1>3, <2>1, <3>1
  <2>3. ASSUME NEW y \in Pos
        PROVE  /\ g[y].lvl = file[y].lvl /\ g[y].h = file[y].h
               /\ g[y].lcos = file[y].lcos /\ g[y].rcos = file[y].rcos
    <3>1. file[y] \in Block
      BY <1>3
    <3>2. CASE y = p
      BY <1>3, <2>1, <3>1, <3>2 DEF Block
    <3>3. CASE y # p
      BY <1>3, <2>1, <3>3
    <3>4. QED
      BY <3>2, <3>3
  <2>4. QED
    BY <1>2, <1>3, <2>2, <2>3 DEF Keeps
<1>6. QED
  BY <1>4, <1>5

(* A block is written behind the last.                                     *)
LEMMA WrittenFacts ==
    ASSUME TypeOK, NEW b \in Block, wpos \in Pos,
           NEW g, g = [file EXCEPT ![wpos] = b]
    PROVE  /\ g \in [Pos -> Block] /\ Keeps(file, g, wpos) /\ g[wpos] = b
           /\ wpos + 1 \in 1 .. MaxPos + 1
<1>1. file \in [Pos -> Block] /\ wpos \in Nat /\ \A y \in 1 .. wpos - 1 : y \in Pos
  BY Facts
<1>2. g \in [Pos -> Block] /\ g[wpos] = b
  BY <1>1
<1>3. \A y \in 1 .. wpos - 1 : g[y] = file[y]
  BY <1>1
<1>4. wpos + 1 \in 1 .. MaxPos + 1
  BY DiskAssumption DEF Pos
<1>5. QED
  BY <1>2, <1>3, <1>4 DEF Keeps

(* What a step of the builder does with a queued node n: it leaves its     *)
(* block where it is, or writes it behind the last.                        *)
Stays(f, g, w, v, n) ==
    /\ w <= v /\ Keeps(f, g, w)
    /\ \/ n.m_is_written /\ v = w
       \/ ~n.m_is_written /\ v = w + 1 /\ g[w].lvl = n.lvl /\ g[w].h = n.h

LEMMA TakeFacts ==
    ASSUME TypeOK, NEW m \in 1 .. Len(q), NEW next, Take(m, next)
    PROVE  /\ file' \in [Pos -> Block] /\ wpos' \in 1 .. MaxPos + 1 /\ glob' \in Globals
           /\ Stays(file, file', wpos, wpos', q[m])
<1>1. PICK n \in XNode : n = q[m]
  BY Facts
<1>2. file \in [Pos -> Block] /\ glob \in Globals /\ wpos \in Nat /\ wpos \in 1 .. MaxPos + 1
  BY Facts DEF TypeOK
<1>3. CASE n.m_is_written
  <2>1. wpos' = wpos /\ glob' = glob /\ file' = IF n.lvl > 0 THEN Patched(n) ELSE file
    BY <1>1, <1>3 DEF Take
  <2>2. file' \in [Pos -> Block] /\ Keeps(file, file', wpos)
    <3>1. CASE n.lvl > 0
      BY <2>1, <3>1, PatchedFacts
    <3>2. CASE ~(n.lvl > 0)
      BY <1>2, <2>1, <3>2 DEF Keeps
    <3>3. QED
      BY <3>1, <3>2
  <2>3. QED
    BY <1>1, <1>2, <1>3, <2>1, <2>2 DEF Stays
<1>4. CASE ~n.m_is_written
  <2>1. /\ wpos \in Pos /\ file' = [file EXCEPT ![wpos] = ToBlock(n, "R")]
        /\ wpos' = wpos + 1
        /\ glob' = IF FirstPad(n) THEN [glob EXCEPT !.fslo = wpos, !.enc = TRUE] ELSE glob
    BY <1>1, <1>4 DEF Take
  <2>2. PICK b \in Block : b = ToBlock(n, "R") /\ b.lvl = n.lvl /\ b.h = n.h
    BY ToBlockFacts
  <2>3. PICK g : g = file'
    OBVIOUS
  <2>4. /\ g \in [Pos -> Block] /\ Keeps(file, g, wpos) /\ g[wpos] = b
        /\ wpos + 1 \in 1 .. MaxPos + 1
    BY <2>1, <2>2, <2>3, WrittenFacts
  <2>5. glob' \in Globals
    <3>1. wpos \in 0 .. MaxPos
      BY <2>1, DiskAssumption DEF Pos
    <3>2. QED
      BY <1>2, <2>1, <3>1 DEF Globals
  <2>6. QED
    BY <1>1, <1>2, <1>4, <2>1, <2>2, <2>3, <2>4, <2>5 DEF Stays
<1>5. QED
  BY <1>3, <1>4

LEMMA LeftKept ==
    ASSUME NEW f, NEW g, NEW w \in Nat, w >= 1, NEW v \in Nat, NEW n \in Nat, NEW s, NEW t,
           NEW e, NEW k \in Nat, LeftAt(f, s, w, e, n), s[n - 2].lvl = k,
           Stays(f, g, w, v, s[n - 2]),
           \A j \in 1 .. n - 3 : t[j] = s[j], t[n - 2] = s[n - 1], t[n - 1] = s[n]
    PROVE  RightAt(g, t, v, e, n - 1)
<1> DEFINE x == e[n - 3] + TreeSize(k)
<1>1. /\ n >= 3 /\ Base(f, s, w, e, n - 3) /\ Over(s, n - 3, k)
      /\ s[n - 1].lvl = k /\ ParentOver(s[n], k, s[n - 2].h, s[n - 1].h)
      /\ \/ k = 0 /\ ~s[n - 2].m_is_written /\ ~s[n - 1].m_is_written /\ e[n - 3] = w - 1
         \/ k > 0 /\ s[n - 2].m_is_written /\ Fits(f, w, x, s[n - 2])
                  /\ Behind(f, w, x, s[n - 1], k)
  BY DEF LeftAt
<1>2. (n - 1) - 1 = n - 2 /\ (n - 1) - 2 = n - 3 /\ n - 3 \in Nat /\ n - 1 >= 2
  BY <1>1
<1>3. w <= v /\ Keeps(f, g, w)
  BY DEF Stays
<1>4. Base(g, t, v, e, n - 3)
  BY <1>1, <1>2, <1>3, BaseKept
<1>5. Over(t, n - 3, k)
  BY <1>1 DEF Over
<1>6. e[n - 3] \in Nat
  <2>1. n - 3 \in 0 .. n - 3
    BY <1>2
  <2>2. QED
    BY <1>1, <1>2, <2>1, EndType
<1>7. /\ x \in 1 .. v - 1 /\ g[x].lvl = k /\ g[x].h = s[n - 2].h
      /\ Behind(g, v, x, s[n - 1], k)
  <2>1. CASE k = 0 /\ ~s[n - 2].m_is_written /\ ~s[n - 1].m_is_written /\ e[n - 3] = w - 1
    <3>1. v = w + 1 /\ g[w].lvl = k /\ g[w].h = s[n - 2].h
      BY <2>1 DEF Stays
    <3>2. x = w /\ w = v - 1
      BY <2>1, <3>1, TreeSizes
    <3>3. x \in 1 .. v - 1
      BY <3>1, <3>2
    <3>4. Behind(g, v, x, s[n - 1], k)
      BY <2>1, <3>2 DEF Behind
    <3>5. QED
      BY <3>1, <3>2, <3>3, <3>4
  <2>2. CASE k > 0 /\ s[n - 2].m_is_written /\ Fits(f, w, x, s[n - 2])
                   /\ Behind(f, w, x, s[n - 1], k)
    <3>1. v = w
      BY <2>2 DEF Stays
    <3>2. Fits(g, v, x, s[n - 2])
      BY <1>3, <2>2, FitsKept
    <3>3. x + TreeSize(k) = w - 1 /\ s[n - 1].m_is_written /\ Fits(f, w, w - 1, s[n - 1])
      BY <2>2 DEF Behind
    <3>4. Fits(g, v, w - 1, s[n - 1])
      BY <1>3, <3>3, FitsKept
    <3>5. Behind(g, v, x, s[n - 1], k)
      BY <2>2, <3>1, <3>3, <3>4 DEF Behind
    <3>6. QED
      BY <3>2, <3>5 DEF Fits
  <2>3. QED
    BY <1>1, <2>1, <2>2
<1>8. ParentOver(t[n - 1], k, g[x].h, t[n - 2].h)
  BY <1>1, <1>7
<1>9. t[n - 2].lvl = k /\ Behind(g, v, x, t[n - 2], k)
  BY <1>1, <1>7
<1>10. QED
  BY <1>2, <1>4, <1>5, <1>7, <1>8, <1>9 DEF RightAt

LEMMA RightKept ==
    ASSUME NEW f, NEW g, NEW w \in Nat, w >= 1, NEW v \in Nat, NEW n \in Nat, NEW s, NEW t,
           NEW e, NEW k \in Nat, RightAt(f, s, w, e, n), s[n - 1].lvl = k,
           Stays(f, g, w, v, s[n - 1]),
           \A j \in 1 .. n - 2 : t[j] = s[j], t[n - 1] = s[n]
    PROVE  ParentAt(g, t, v, e, n - 1)
<1> DEFINE x == e[n - 2] + TreeSize(k)
<1>1. /\ n >= 2 /\ Base(f, s, w, e, n - 2) /\ Over(s, n - 2, k)
      /\ x \in 1 .. w - 1 /\ f[x].lvl = k
      /\ ParentOver(s[n], k, f[x].h, s[n - 1].h) /\ Behind(f, w, x, s[n - 1], k)
  BY DEF RightAt
<1>2. (n - 1) - 1 = n - 2 /\ n - 2 \in Nat /\ n - 1 >= 1
  BY <1>1
<1>3. w <= v /\ Keeps(f, g, w)
  BY DEF Stays
<1>4. Base(g, t, v, e, n - 2)
  BY <1>1, <1>2, <1>3, BaseKept
<1>5. Over(t, n - 2, k)
  BY <1>1 DEF Over
<1>6. g[x].lvl = k /\ g[x].h = f[x].h /\ x \in 1 .. v - 1
  BY <1>1, <1>3 DEF Keeps
<1>7. x + TreeSize(k) = v - 1 /\ g[v - 1].lvl = k /\ g[v - 1].h = s[n - 1].h
  <2>1. CASE k = 0 /\ ~s[n - 1].m_is_written /\ x = w - 1
    <3>1. v = w + 1 /\ g[w].lvl = k /\ g[w].h = s[n - 1].h
      BY <2>1 DEF Stays
    <3>2. v - 1 = w /\ x + TreeSize(k) = v - 1
      BY <2>1, <3>1, TreeSizes
    <3>3. QED
      BY <3>1, <3>2
  <2>2. CASE k > 0 /\ s[n - 1].m_is_written /\ x + TreeSize(k) = w - 1
                   /\ Fits(f, w, w - 1, s[n - 1])
    <3>1. v = w
      BY <2>2 DEF Stays
    <3>2. Fits(g, v, w - 1, s[n - 1])
      BY <1>3, <2>2, FitsKept
    <3>3. QED
      BY <2>2, <3>1, <3>2 DEF Fits
  <2>3. QED
    BY <1>1, <2>1, <2>2 DEF Behind
<1>8. ParentOver(t[n - 1], k, g[x].h, g[v - 1].h)
  BY <1>1, <1>6, <1>7
<1>9. t[n - 1].lvl - 1 = k
  BY <1>8 DEF ParentOver
<1>10. QED
  BY <1>2, <1>4, <1>5, <1>6, <1>7, <1>8, <1>9 DEF ParentAt

(* A leaf that is written joins nothing.                                   *)
LEMMA JoinsStay ==
    ASSUME TypeOK, Joins, NEW g, NEW v \in Nat, NEW n, Stays(file, g, wpos, v, n),
           n.m_is_written \/ n.lvl = 0
    PROVE  \A p \in 1 .. v - 1 : JoinsAt(g, p)
<1>1. wpos \in Nat /\ \A p \in 1 .. wpos - 1 : file[p].lcos \in Int /\ file[p].rcos \in Int
  BY Facts
<1>2. \A p \in 1 .. wpos - 1 : JoinsAt(g, p)
  <2>1. PICK f : f = file
    OBVIOUS
  <2>2. PICK w \in Nat : w = wpos
    BY <1>1
  <2>3. Keeps(f, g, w)
    BY <2>1, <2>2 DEF Stays
  <2>4. \A p \in 1 .. w - 1 : f[p].lcos \in Int /\ f[p].rcos \in Int
    BY <1>1, <2>1, <2>2
  <2>5. \A p \in 1 .. w - 1 : JoinsAt(f, p)
    BY <2>1, <2>2 DEF Joins
  <2>6. \A p \in 1 .. w - 1 : JoinsAt(g, p)
    BY ONLY <2>3, <2>4, <2>5, JoinsKept
  <2>7. QED
    BY <2>2, <2>6
<1>3. ASSUME NEW p \in 1 .. v - 1, ~(p \in 1 .. wpos - 1) PROVE JoinsAt(g, p)
  <2>1. p = wpos /\ g[wpos].lvl = n.lvl /\ n.lvl = 0
    BY <1>1, <1>3 DEF Stays
  <2>2. QED
    BY <2>1 DEF JoinsAt
<1>4. QED
  BY <1>2, <1>3

LEMMA TakeLeftEx == ASSUME ExInv, TakeLeft PROVE ExInv'
<1>1. TypeOK /\ stage = "left" /\ Take(Len(q) - 2, "right") /\ job # NoJob
      /\ job.elems \in Seq(Elem)
  BY DEF ExInv, TakeLeft, RootInv
<1>2. PICK n \in Nat : n = Len(q)
  BY <1>1, Facts
<1>3. PICK e : LeftAt(file, q, wpos, e, n)
  BY <1>1, <1>2 DEF ExInv, StageInv
<1>4. PICK s \in Seq(XNode) : s = q
  BY <1>1, Facts
<1>5. n >= 3 /\ n - 2 \in 1 .. n /\ s[n - 2] \in XNode
  BY <1>2, <1>3, <1>4 DEF LeftAt
<1>6. PICK k \in Nat : k = s[n - 2].lvl
  BY <1>5, NodeTypes
<1>7. PICK w \in Nat : w = wpos /\ w >= 1
  BY <1>1, Facts
<1>8. /\ file' \in [Pos -> Block] /\ wpos' \in 1 .. MaxPos + 1 /\ glob' \in Globals
      /\ Stays(file, file', wpos, wpos', q[n - 2])
  <2>1. n - 2 \in 1 .. Len(q) /\ Take(n - 2, "right")
    BY <1>1, <1>2, <1>5
  <2>2. QED
    BY <1>1, <2>1, TakeFacts
<1>9. PICK v \in Nat : v = wpos'
  BY <1>8, DiskAssumption
<1>10. PICK t : t = q'
  OBVIOUS
<1>11. TakenOut(s, n, n - 2, t)
  <2>1. t = SubSeq(s, 1, (n - 2) - 1) \o SubSeq(s, (n - 2) + 1, Len(s)) /\ n = Len(s)
    BY <1>1, <1>2, <1>4, <1>10 DEF Take, Without
  <2>2. QED
    BY ONLY <1>5, <2>1, TakenOutFacts
<1>12. /\ t \in Seq(XNode) /\ Len(t) = n - 1
       /\ \A j \in 1 .. n - 3 : t[j] = s[j]
       /\ t[n - 2] = s[n - 1] /\ t[n - 1] = s[n]
  <2>1. (n - 2) - 1 = n - 3 /\ n - 2 \in (n - 2) .. n - 1 /\ n - 1 \in (n - 2) .. n - 1
        /\ (n - 2) + 1 = n - 1 /\ (n - 1) + 1 = n
    BY <1>5
  <2>2. t[n - 2] = s[(n - 2) + 1] /\ t[n - 1] = s[(n - 1) + 1]
    BY <1>11, <2>1 DEF TakenOut
  <2>3. QED
    BY <1>11, <2>1, <2>2 DEF TakenOut
<1>13. UNCHANGED <<hdr, job, todo>> /\ stage' = "right"
  BY <1>1 DEF Take
<1>14. TypeOK'
  BY <1>1, <1>8, <1>10, <1>12, <1>13 DEF TypeOK, DiskTypeOK
<1>15. StageInv'
  <2>1. PICK f : f = file
    OBVIOUS
  <2>2. PICK g : g = file'
    OBVIOUS
  <2>3. Stays(f, g, w, v, s[n - 2]) /\ LeftAt(f, s, w, e, n)
    BY <1>3, <1>4, <1>7, <1>8, <1>9, <2>1, <2>2
  <2>4. RightAt(g, t, v, e, n - 1)
    BY ONLY <1>6, <1>7, <1>12, <2>3, LeftKept
  <2>5. RightAt(file', q', wpos', e, Len(q'))
    BY <1>9, <1>10, <1>12, <2>2, <2>4
  <2>6. QED
    BY <1>13, <2>5 DEF StageInv
<1>16. Joins'
  <2>1. q[n - 2].m_is_written \/ q[n - 2].lvl = 0
    BY <1>3 DEF LeftAt
  <2>2. PICK g : g = file'
    OBVIOUS
  <2>3. Stays(file, g, wpos, v, q[n - 2]) /\ Joins
    BY <1>8, <1>9, <2>2 DEF ExInv
  <2>4. \A p \in 1 .. v - 1 : JoinsAt(g, p)
    BY <1>1, <2>1, <2>3, JoinsStay
  <2>5. QED
    BY <1>9, <2>2, <2>4 DEF Joins
<1>17. RootInv'
  BY <1>1, <1>13 DEF RootInv
<1>18. QED
  BY <1>1, <1>13, <1>14, <1>15, <1>16, <1>17 DEF ExInv

LEMMA TakeRightEx == ASSUME ExInv, TakeRight PROVE ExInv'
<1>1. TypeOK /\ stage = "right" /\ Take(Len(q) - 1, "parent") /\ job # NoJob
      /\ job.elems \in Seq(Elem)
  BY DEF ExInv, TakeRight, RootInv
<1>2. PICK n \in Nat : n = Len(q)
  BY <1>1, Facts
<1>3. PICK e : RightAt(file, q, wpos, e, n)
  BY <1>1, <1>2 DEF ExInv, StageInv
<1>4. PICK s \in Seq(XNode) : s = q
  BY <1>1, Facts
<1>5. n >= 2 /\ n - 1 \in 1 .. n /\ s[n - 1] \in XNode
  BY <1>2, <1>3, <1>4 DEF RightAt
<1>6. PICK k \in Nat : k = s[n - 1].lvl
  BY <1>5, NodeTypes
<1>7. PICK w \in Nat : w = wpos /\ w >= 1
  BY <1>1, Facts
<1>8. /\ file' \in [Pos -> Block] /\ wpos' \in 1 .. MaxPos + 1 /\ glob' \in Globals
      /\ Stays(file, file', wpos, wpos', q[n - 1])
  <2>1. n - 1 \in 1 .. Len(q) /\ Take(n - 1, "parent")
    BY <1>1, <1>2, <1>5
  <2>2. QED
    BY <1>1, <2>1, TakeFacts
<1>9. PICK v \in Nat : v = wpos'
  BY <1>8, DiskAssumption
<1>10. PICK t : t = q'
  OBVIOUS
<1>11. TakenOut(s, n, n - 1, t)
  <2>1. t = SubSeq(s, 1, (n - 1) - 1) \o SubSeq(s, (n - 1) + 1, Len(s)) /\ n = Len(s)
    BY <1>1, <1>2, <1>4, <1>10 DEF Take, Without
  <2>2. QED
    BY ONLY <1>5, <2>1, TakenOutFacts
<1>12. /\ t \in Seq(XNode) /\ Len(t) = n - 1
       /\ \A j \in 1 .. n - 2 : t[j] = s[j]
       /\ t[n - 1] = s[n]
  <2>1. (n - 1) - 1 = n - 2 /\ n - 1 \in (n - 1) .. n - 1 /\ (n - 1) + 1 = n
    BY <1>5
  <2>2. t[n - 1] = s[(n - 1) + 1]
    BY <1>11, <2>1 DEF TakenOut
  <2>3. QED
    BY <1>11, <2>1, <2>2 DEF TakenOut
<1>13. UNCHANGED <<hdr, job, todo>> /\ stage' = "parent"
  BY <1>1 DEF Take
<1>14. TypeOK'
  BY <1>1, <1>8, <1>10, <1>12, <1>13 DEF TypeOK, DiskTypeOK
<1>15. StageInv'
  <2>1. PICK f : f = file
    OBVIOUS
  <2>2. PICK g : g = file'
    OBVIOUS
  <2>3. Stays(f, g, w, v, s[n - 1]) /\ RightAt(f, s, w, e, n)
    BY <1>3, <1>4, <1>7, <1>8, <1>9, <2>1, <2>2
  <2>4. ParentAt(g, t, v, e, n - 1)
    BY ONLY <1>6, <1>7, <1>12, <2>3, RightKept
  <2>5. ParentAt(file', q', wpos', e, Len(q'))
    BY <1>9, <1>10, <1>12, <2>2, <2>4
  <2>6. QED
    BY <1>13, <2>5 DEF StageInv
<1>16. Joins'
  <2>1. q[n - 1].m_is_written \/ q[n - 1].lvl = 0
    BY <1>3 DEF RightAt, Behind
  <2>2. PICK g : g = file'
    OBVIOUS
  <2>3. Stays(file, g, wpos, v, q[n - 1]) /\ Joins
    BY <1>8, <1>9, <2>2 DEF ExInv
  <2>4. \A p \in 1 .. v - 1 : JoinsAt(g, p)
    BY <1>1, <2>1, <2>3, JoinsStay
  <2>5. QED
    BY <1>9, <2>2, <2>4 DEF Joins
<1>17. RootInv'
  BY <1>1, <1>13 DEF RootInv
<1>18. QED
  BY <1>1, <1>13, <1>14, <1>15, <1>16, <1>17 DEF ExInv

-----------------------------------------------------------------------------
(* The parent is written behind its two children.                          *)
LEMMA ParentKept ==
    ASSUME NEW f, NEW g, NEW w \in Nat, w >= 1, NEW n \in Nat, NEW s, NEW t, NEW e,
           NEW k \in Nat, ParentAt(f, s, w, e, n), s[n].lvl = k + 1, Keeps(f, g, w),
           g[w].lvl = s[n].lvl, g[w].h = s[n].h,
           \A j \in 1 .. n - 1 : t[j] = s[j],
           t[n].lvl = s[n].lvl, t[n].h = s[n].h, t[n].m_is_written
    PROVE  CombineAt(g, t, w + 1, e, n) /\ n >= 1 /\ t[1].lvl > 0
<1>1. (k + 1) - 1 = k /\ (w + 1) - 1 = w /\ w + 1 \in Nat /\ w <= w + 1
  OBVIOUS
<1>2. n >= 1 /\ Base(f, s, w, e, n - 1) /\ Over(s, n - 1, k)
      /\ (e[n - 1] + TreeSize(k)) + TreeSize(k) = w - 1
  BY <1>1 DEF ParentAt
<1>3. n - 1 \in Nat /\ n - 1 \in 0 .. n - 1
  BY <1>2
<1>4. Base(g, t, w + 1, e, n - 1)
  BY <1>1, <1>2, <1>3, BaseKept
<1>5. Over(t, n - 1, k)
  BY <1>2 DEF Over
<1>6. e[n - 1] + TreeSize(k + 1) = w
  <2>1. e[n - 1] \in Nat /\ TreeSize(k) \in Nat /\ TreeSize(k + 1) = 2 * TreeSize(k) + 1
    BY <1>2, <1>3, EndType, TreeSizes
  <2>2. QED
    BY <1>2, <2>1
<1>7. Fits(g, w + 1, w, t[n])
  BY <1>1 DEF Fits
<1>8. CombineAt(g, t, w + 1, e, n)
  BY <1>1, <1>2, <1>4, <1>5, <1>6, <1>7 DEF CombineAt
<1>9. t[1].lvl > 0
  <2>1. CASE n = 1
    BY <2>1
  <2>2. CASE n # 1
    <3>1. 1 \in 1 .. n - 1
      BY <1>2, <2>2
    <3>2. QED
      BY <1>4, <3>1 DEF Base, NodeAt
  <2>3. QED
    BY <2>1, <2>2
<1>10. QED
  BY <1>2, <1>8, <1>9

LEMMA ParentJoins ==
    ASSUME NEW f, NEW g, NEW w \in Nat, w >= 1, NEW n \in Nat, NEW s, NEW e,
           NEW k \in Nat, ParentAt(f, s, w, e, n), s[n].lvl = k + 1, Keeps(f, g, w),
           g[w].lvl = s[n].lvl, g[w].h = s[n].h, g[w].lcos = s[n].lcos, g[w].rcos = s[n].rcos
    PROVE  JoinsAt(g, w)
<1> DEFINE x == e[n - 1] + TreeSize(k)
<1>1. (k + 1) - 1 = k
  OBVIOUS
<1>2. /\ x \in 1 .. w - 1 /\ x + TreeSize(k) = w - 1
      /\ f[x].lvl = k /\ f[w - 1].lvl = k /\ ParentOver(s[n], k, f[x].h, f[w - 1].h)
  BY <1>1 DEF ParentAt
<1> HIDE DEF x
<1>3. g[w].lvl = k + 1 /\ g[w].h = Combine(f[x].h, f[w - 1].h)
      /\ g[w].lcos = -LeftDistance(k) /\ g[w].rcos = -1
  BY <1>2 DEF ParentOver
<1>4. TreeSize(k) \in Nat /\ TreeSize(k) > 0 /\ LeftDistance(k) = TreeSize(k) + 1
  BY TreeSizes
<1>5. w + g[w].lcos = x /\ w + g[w].rcos = w - 1
  BY <1>2, <1>3, <1>4
<1>6. x \in 1 .. w - 1 /\ w - 1 \in 1 .. w - 1 /\ x # w - 1
  BY <1>2, <1>4
<1>7. g[x].lvl = k /\ g[x].h = f[x].h /\ g[w - 1].lvl = k /\ g[w - 1].h = f[w - 1].h
  BY <1>2, <1>6 DEF Keeps
<1>8. g[w].lvl - 1 = k
  BY <1>3
<1>9. QED
  BY <1>3, <1>5, <1>6, <1>7, <1>8 DEF JoinsAt

LEMMA WriteParentEx == ASSUME ExInv, WriteParent PROVE ExInv'
<1>1. TypeOK /\ stage = "parent" /\ job # NoJob /\ job.elems \in Seq(Elem) /\ wpos \in Pos
  BY DEF ExInv, WriteParent, RootInv
<1>2. PICK n \in Nat : n = Len(q)
  BY <1>1, Facts
<1>3. PICK e : ParentAt(file, q, wpos, e, n)
  BY <1>1, <1>2 DEF ExInv, StageInv
<1>4. PICK s \in Seq(XNode) : s = q
  BY <1>1, Facts
<1>5. n >= 1 /\ n \in 1 .. n /\ s[n] \in XNode /\ s[n].lvl - 1 >= 0
  BY <1>2, <1>3, <1>4 DEF ParentAt
<1>6. PICK k \in Nat : s[n].lvl = k + 1
  <2>1. s[n].lvl \in Nat /\ s[n].lvl - 1 >= 0
    BY <1>5, NodeTypes
  <2>2. s[n].lvl - 1 \in Nat /\ s[n].lvl = (s[n].lvl - 1) + 1
    BY <2>1
  <2>3. QED
    BY <2>2
<1>7. PICK w \in Nat : w = wpos /\ w >= 1
  BY <1>1, Facts
<1>8. PICK f : f = file
  OBVIOUS
<1>9. PICK g : g = file'
  OBVIOUS
<1>10. PICK b \in Block : b = ToBlock(s[n], "R")
  BY <1>5, ToBlockFacts
<1>11. b.lvl = s[n].lvl /\ b.h = s[n].h /\ b.lcos = s[n].lcos /\ b.rcos = s[n].rcos
  BY <1>5, <1>10, ToBlockFacts
<1>12. g \in [Pos -> Block] /\ Keeps(f, g, w) /\ g[w] = b /\ w + 1 \in 1 .. MaxPos + 1
  <2>1. g = [file EXCEPT ![wpos] = b]
    BY <1>2, <1>4, <1>9, <1>10 DEF WriteParent
  <2>2. QED
    BY <1>1, <1>7, <1>8, <2>1, WrittenFacts
<1>13. PICK t : t = q'
  OBVIOUS
<1>14. /\ t \in Seq(XNode) /\ Len(t) = n /\ \A j \in 1 .. n - 1 : t[j] = s[j]
       /\ t[n].lvl = s[n].lvl /\ t[n].h = s[n].h /\ t[n].m_is_written
  <2>1. PICK y : y = [s[n] EXCEPT !.m_is_written = TRUE]
    OBVIOUS
  <2>2. y \in XNode /\ y.lvl = s[n].lvl /\ y.h = s[n].h /\ y.m_is_written
    BY <1>5, <2>1 DEF XNode
  <2>3. t = [s EXCEPT ![n] = y]
    BY <1>2, <1>4, <1>13, <2>1 DEF WriteParent
  <2>4. n = Len(s)
    BY <1>2, <1>4
  <2>5. t \in Seq(XNode) /\ Len(t) = n /\ t[n] = y /\ \A j \in 1 .. n - 1 : t[j] = s[j]
    BY <1>5, <2>2, <2>3, <2>4
  <2>6. QED
    BY <2>2, <2>5
<1>15. UNCHANGED <<hdr, glob, job, todo>> /\ stage' = "combine" /\ wpos' = w + 1
  BY <1>7 DEF WriteParent
<1>16. TypeOK'
  BY <1>1, <1>9, <1>12, <1>13, <1>14, <1>15 DEF TypeOK, DiskTypeOK
<1>17. ParentAt(f, s, w, e, n)
  BY <1>3, <1>4, <1>7, <1>8
<1>18. g[w].lvl = s[n].lvl /\ g[w].h = s[n].h /\ g[w].lcos = s[n].lcos
       /\ g[w].rcos = s[n].rcos
  BY <1>11, <1>12
<1>19. CombineAt(g, t, w + 1, e, n) /\ n >= 1 /\ t[1].lvl > 0
  BY ONLY <1>6, <1>7, <1>12, <1>14, <1>17, <1>18, ParentKept
<1>20. StageInv'
  <2>1. CombineAt(file', q', wpos', e, Len(q'))
    BY <1>9, <1>13, <1>14, <1>15, <1>19
  <2>2. QED
    BY <1>15, <2>1 DEF StageInv
<1>21. Joins'
  <2>1. JoinsAt(g, w)
    BY ONLY <1>6, <1>7, <1>12, <1>17, <1>18, ParentJoins
  <2>2. \A p \in 1 .. w - 1 : f[p].lcos \in Int /\ f[p].rcos \in Int
    BY <1>1, <1>7, <1>8, Facts
  <2>3. \A p \in 1 .. w - 1 : JoinsAt(f, p)
    BY <1>7, <1>8 DEF ExInv, Joins
  <2>4. \A p \in 1 .. w - 1 : JoinsAt(g, p)
    BY ONLY <1>7, <1>12, <2>2, <2>3, JoinsKept
  <2>5. \A p \in 1 .. (w + 1) - 1 : JoinsAt(g, p)
    <3>1. ASSUME NEW p \in 1 .. (w + 1) - 1 PROVE p = w \/ p \in 1 .. w - 1
      OBVIOUS
    <3>2. QED
      BY <2>1, <2>4, <3>1
  <2>6. QED
    BY <1>9, <1>15, <2>5 DEF Joins
<1>22. RootInv'
  <2>1. q' # <<>> /\ ~(q'[1].lvl = 0)
    <3>1. t[1] \in XNode
      BY <1>5, <1>14
    <3>2. t[1].lvl \in Nat /\ t[1].lvl > 0
      BY <1>19, <3>1, NodeTypes
    <3>3. QED
      BY <1>5, <1>13, <1>14, <3>2
  <2>2. QED
    BY <1>1, <1>15, <2>1 DEF RootInv
<1>23. QED
  BY <1>1, <1>15, <1>16, <1>20, <1>21, <1>22 DEF ExInv

-----------------------------------------------------------------------------
(* Nothing is left to combine; the root is taken; the header is written.   *)
LEMMA EndsKept ==
    ASSUME NEW f, NEW w \in Nat, NEW n \in Nat, NEW s, NEW e, CombineAt(f, s, w, e, n),
           \A j \in 1 .. n : s[j].lvl \in Nat, ~(n > 1 /\ s[n].lvl = s[n - 1].lvl)
    PROVE  \E d : ReadAt(f, s, w, d, n)
<1>1. CASE n >= 1 /\ Fresh(s[n]) /\ Base(f, s, w, e, n - 1) /\ e[n - 1] = w - 1
  BY <1>1 DEF ReadAt
<1>2. CASE /\ n >= 2 /\ Fresh(s[n]) /\ Fresh(s[n - 1])
           /\ Base(f, s, w, e, n - 2) /\ e[n - 2] = w - 1
  BY <1>2 DEF Fresh
<1>3. CASE /\ n >= 1 /\ Base(f, s, w, e, n - 1) /\ s[n].lvl > 0 /\ s[n].m_is_written
           /\ Over(s, n - 1, s[n].lvl - 1)
           /\ e[n - 1] + TreeSize(s[n].lvl) = w - 1 /\ Fits(f, w, w - 1, s[n])
  <2>1. PICK m \in Nat : n = m + 1 /\ m = n - 1
    BY <1>3
  <2>2. s[m + 1].lvl \in Nat
    BY <2>1
  <2>3. ASSUME NEW j \in 1 .. m PROVE s[j].lvl > s[m + 1].lvl
    <3>1. m \in 1 .. m /\ m \in 1 .. n /\ j \in 1 .. n
      BY <2>1
    <3>2. s[m].lvl > s[m + 1].lvl - 1 /\ s[m].lvl # s[m + 1].lvl
      BY <1>3, <2>1, <3>1 DEF Over
    <3>3. s[m].lvl \in Nat /\ s[j].lvl \in Nat
      BY <3>1
    <3>4. j = m \/ s[j].lvl > s[m].lvl
      BY <1>3, <2>1, <3>1 DEF Base, Falling
    <3>5. QED
      BY <2>2, <3>2, <3>3, <3>4
  <2>4. /\ Base(f, s, w, e, m) /\ s[m + 1].lvl > 0 /\ s[m + 1].m_is_written
        /\ e[m] + TreeSize(s[m + 1].lvl) = w - 1 /\ Fits(f, w, w - 1, s[m + 1])
    BY <1>3, <2>1
  <2>5. PICK d : Base(f, s, w, d, m + 1) /\ d[m + 1] = w - 1
    BY <2>2, <2>3, <2>4, BaseGrown
  <2>6. ReadAt(f, s, w, d, n)
    BY <2>1, <2>5 DEF ReadAt
  <2>7. QED
    BY <2>6
<1>4. QED
  BY <1>1, <1>2, <1>3 DEF CombineAt

LEMMA CombineEndsEx == ASSUME ExInv, CombineEnds PROVE ExInv'
<1>1. TypeOK /\ stage = "combine" /\ job # NoJob /\ ~MustCombine
  BY DEF ExInv, CombineEnds, RootInv
<1>2. PICK n \in Nat : n = Len(q)
  BY <1>1, Facts
<1>3. PICK e : CombineAt(file, q, wpos, e, n)
  BY <1>1, <1>2 DEF ExInv, StageInv
<1>4. UNCHANGED <<file, hdr, q, wpos, glob, job, todo>>
      /\ stage' = IF todo # <<>> THEN "read" ELSE "root"
  BY DEF CombineEnds
<1>5. \A j \in 1 .. n : q[j].lvl \in Nat
  BY <1>1, <1>2, Facts, NodeTypes
<1>6. ~(n > 1 /\ q[n].lvl = q[n - 1].lvl)
  BY <1>1, <1>2 DEF MustCombine
<1>7. PICK d : ReadAt(file, q, wpos, d, n)
  <2>1. wpos \in Nat
    BY <1>1, Facts
  <2>2. QED
    BY <1>3, <1>5, <1>6, <2>1, EndsKept
<1>8. TypeOK'
  BY <1>1, <1>4 DEF TypeOK, DiskTypeOK
<1>9. StageInv'
  <2>1. ReadAt(file', q', wpos', d, Len(q'))
    BY <1>2, <1>4, <1>7
  <2>2. stage' \in {"read", "root"}
    BY <1>4
  <2>3. QED
    BY <2>1, <2>2 DEF StageInv
<1>10. Joins'
  BY <1>4 DEF ExInv, Joins
<1>11. RootInv'
  <2>1. q # <<>> /\ (q[1].lvl = 0 => Alone)
    BY <1>1 DEF ExInv, RootInv
  <2>2. q' # <<>> /\ (q'[1].lvl = 0 => Alone')
    BY <1>4, <2>1 DEF Alone
  <2>3. CASE todo # <<>>
    BY <1>1, <1>4, <2>2, <2>3 DEF RootInv
  <2>4. CASE todo = <<>>
    BY <1>1, <1>4, <2>2, <2>4 DEF RootInv
  <2>5. QED
    BY <2>3, <2>4
<1>12. QED
  BY <1>4, <1>8, <1>9, <1>10, <1>11 DEF ExInv

(* The head of the queue is in the file unless it is the only leaf.        *)
LEMMA HeadWritten ==
    ASSUME NEW f, NEW w \in Nat, NEW n \in Nat, n >= 1, NEW s, NEW e, ReadAt(f, s, w, e, n),
           ~(s[1].lvl = 0)
    PROVE  s[1].m_is_written /\ s[1].lvl > 0 /\ w - 1 >= 1
<1>1. NodeAt(f, s, w, e, 1)
  <2>1. 1 \in 1 .. n
    OBVIOUS
  <2>2. CASE Base(f, s, w, e, n)
    BY <2>1, <2>2 DEF Base
  <2>3. CASE Fresh(s[n]) /\ Base(f, s, w, e, n - 1)
    <3>1. n # 1
      BY <2>3 DEF Fresh
    <3>2. 1 \in 1 .. n - 1
      BY <3>1
    <3>3. QED
      BY <2>3, <3>2 DEF Base
  <2>4. QED
    BY <2>2, <2>3 DEF ReadAt
<1>2. QED
  BY <1>1 DEF NodeAt, Fits

LEMMA PopRootEx == ASSUME ExInv, PopRoot PROVE ExInv'
<1>1. TypeOK /\ stage = "root" /\ job # NoJob /\ q # <<>> /\ todo = <<>>
      /\ (q[1].lvl = 0 => Alone) /\ job.elems \in Seq(Elem)
  BY DEF ExInv, PopRoot, RootInv
<1>2. UNCHANGED <<file, hdr, wpos, job, todo>> /\ stage' = "header" /\ q' = Tail(q)
      /\ glob' = IF RootHead THEN [glob EXCEPT !.rno = wpos - 1] ELSE glob
  BY DEF PopRoot
<1>3. PICK n \in Nat : n = Len(q)
  BY <1>1, Facts
<1>4. PICK e : ReadAt(file, q, wpos, e, n)
  BY <1>1, <1>3 DEF ExInv, StageInv
<1>5. n >= 1 /\ q \in Seq(XNode) /\ wpos \in Nat /\ glob \in Globals
  BY <1>1, <1>3, Facts
<1>6. wpos - 1 \in 0 .. MaxPos /\ MaxPos \in Nat
  BY <1>1, DiskAssumption DEF TypeOK
<1>7. TypeOK'
  <2>1. Tail(q) \in Seq(XNode)
    BY <1>1, <1>5
  <2>2. glob' \in Globals
    BY <1>2, <1>5, <1>6 DEF Globals
  <2>3. QED
    BY <1>1, <1>2, <2>1, <2>2 DEF TypeOK, DiskTypeOK
<1>8. StageInv'
  BY <1>2 DEF StageInv
<1>9. Joins'
  BY <1>2 DEF ExInv, Joins
<1>10. RootInv'
  <2>1. ASSUME Len(job.elems) > 1 PROVE glob'.rno = wpos - 1 /\ wpos - 1 >= 1
    <3>1. Len(todo) = 0 /\ Len(job.elems) \in Nat
      BY <1>1
    <3>2. ~(q[1].lvl = 0)
      <4>1. ~Alone
        <5>1. SUFFICES ASSUME Alone PROVE FALSE
          OBVIOUS
        <5>2. 0 + 1 = Len(job.elems)
          BY <3>1, <5>1 DEF Alone
        <5>3. 1 = Len(job.elems)
          BY <5>2
        <5>4. 1 > 1
          BY <2>1, <5>3
        <5>5. QED
          BY <5>4
      <4>2. QED
        BY <1>1, <4>1
    <3>3. q[1].m_is_written /\ q[1].lvl > 0 /\ wpos - 1 >= 1
      <4>1. PICK s : s = q
        OBVIOUS
      <4>2. PICK w \in Nat : w = wpos
        BY <1>5
      <4>3. n >= 1 /\ ReadAt(file, s, w, e, n) /\ ~(s[1].lvl = 0)
        BY <1>4, <1>5, <3>2, <4>1, <4>2
      <4>4. s[1].m_is_written /\ s[1].lvl > 0 /\ w - 1 >= 1
        BY ONLY <4>3, HeadWritten
      <4>5. QED
        BY <4>1, <4>2, <4>4
    <3>4. QED
      BY <1>2, <1>5, <3>3 DEF RootHead, Globals
  <2>2. QED
    BY <1>2, <1>5, <2>1 DEF RootInv
<1>11. QED
  BY <1>1, <1>2, <1>7, <1>8, <1>9, <1>10 DEF ExInv

LEMMA WriteHeaderEx == ASSUME ExInv, WriteHeader PROVE ExInv'
<1>1. TypeOK /\ stage = "header" /\ job.elems \in Seq(Elem) /\ glob \in Globals
      /\ (Len(job.elems) > 1 => glob.rno \in 1 .. wpos - 1)
  BY Facts DEF ExInv, WriteHeader, RootInv
<1>2. UNCHANGED <<file, wpos, glob, job, todo>> /\ stage' = "idle" /\ q' = <<>>
      /\ hdr' = [rno |-> glob.rno, fslo |-> glob.fslo]
  BY DEF WriteHeader
<1>3. TypeOK'
  <2>1. hdr' \in Header /\ q' \in Seq(XNode)
    BY <1>1, <1>2 DEF Globals, Header
  <2>2. QED
    BY <1>1, <1>2, <2>1 DEF TypeOK, DiskTypeOK
<1>4. hdr'.rno = glob'.rno
  BY <1>2
<1>5. StageInv' /\ Joins' /\ RootInv'
  BY <1>1, <1>2, <1>4 DEF StageInv, ExInv, Joins, RootInv
<1>6. QED
  BY <1>1, <1>2, <1>3, <1>5 DEF ExInv

LEMMA CrashEx == ASSUME ExInv, Crash PROVE ExInv'
<1>1. TypeOK
  BY DEF ExInv
<1>2. UNCHANGED <<file, hdr>> /\ stage' = "idle" /\ q' = <<>> /\ wpos' = 1
      /\ glob' = NoGlobals /\ job' = NoJob /\ todo' = <<>>
  BY DEF Crash
<1>3. job'.elems = <<>> /\ job'.kind = "none" /\ Len(job'.elems) = 0
      /\ job'.elems \in Seq(Elem)
  BY <1>2 DEF NoJob
<1>4. TypeOK'
  <2>1. wpos' \in 1 .. MaxPos + 1 /\ q' \in Seq(XNode) /\ todo' \in Seq(Elem)
    BY <1>2, DiskAssumption
  <2>2. QED
    BY <1>1, <1>2, <1>3, <2>1, EmptyDiskType DEF TypeOK, DiskTypeOK
<1>5. StageInv' /\ Joins' /\ RootInv'
  BY <1>2, <1>3 DEF StageInv, Joins, RootInv
<1>6. QED
  BY <1>3, <1>4, <1>5 DEF ExInv

LEMMA StepEx == ASSUME ExInv, Step PROVE ExInv'
BY ReadElemEx, PairEx, TakeLeftEx, TakeRightEx, WriteParentEx, CombineEndsEx, PopRootEx,
   WriteHeaderEx DEF Step, CombineTurn

LEMMA StutterEx == ASSUME ExInv, UNCHANGED vars PROVE ExInv'
<1>1. UNCHANGED <<file, hdr, stage, q, wpos, glob, job, todo>>
  BY DEF vars
<1>2. TypeOK' /\ job'.elems \in Seq(Elem)
  BY <1>1 DEF ExInv, TypeOK, DiskTypeOK
<1>3. StageInv'
  BY <1>1 DEF ExInv, StageInv
<1>4. Joins' /\ RootInv'
  BY <1>1 DEF ExInv, Joins, RootInv, Alone, MustCombine
<1>5. QED
  BY <1>2, <1>3, <1>4 DEF ExInv

-----------------------------------------------------------------------------
(* What the invariant says in the words of MHTBuildEx.                     *)
LEMMA ExJoins == ASSUME ExInv PROVE BlocksJoinChildren
<1>1. \A p \in 1 .. wpos - 1 : JoinsAt(file, p)
  BY DEF ExInv, Joins
<1>2. QED
  BY <1>1 DEF JoinsAt, BlocksJoinChildren

LEMMA ReadShort ==
    ASSUME NEW f, NEW w, NEW n \in Nat, NEW s, NEW e, ReadAt(f, s, w, e, n),
           \A j \in 1 .. n : s[j].m_is_written \in BOOLEAN
    PROVE  /\ \A j \in 1 .. n - 1 : s[j].lvl > s[j + 1].lvl
           /\ \A j \in 1 .. n : s[j].m_is_written <=> s[j].lvl > 0
<1>1. ASSUME NEW m \in Nat, Base(f, s, w, e, m)
      PROVE  /\ \A j \in 1 .. m - 1 : s[j].lvl > s[j + 1].lvl
             /\ \A j \in 1 .. m : s[j].m_is_written /\ s[j].lvl > 0
  <2>1. ASSUME NEW j \in 1 .. m - 1 PROVE s[j].lvl > s[j + 1].lvl
    <3>1. j \in 1 .. m /\ j + 1 \in 1 .. m /\ j < j + 1
      OBVIOUS
    <3>2. QED
      BY <1>1, <3>1 DEF Base, Falling
  <2>2. QED
    BY <1>1, <2>1 DEF Base, NodeAt
<1>2. CASE Base(f, s, w, e, n)
  BY <1>1, <1>2
<1>3. CASE n >= 1 /\ Fresh(s[n]) /\ Base(f, s, w, e, n - 1)
  <2>1. n - 1 \in Nat /\ n \in 1 .. n
    BY <1>3
  <2>2. /\ \A j \in 1 .. (n - 1) - 1 : s[j].lvl > s[j + 1].lvl
        /\ \A j \in 1 .. n - 1 : s[j].m_is_written /\ s[j].lvl > 0
    BY <1>1, <1>3, <2>1
  <2>3. s[n].lvl = 0 /\ ~s[n].m_is_written
    BY <1>3 DEF Fresh
  <2>4. ASSUME NEW j \in 1 .. n - 1 PROVE s[j].lvl > s[j + 1].lvl
    <3>1. CASE j = n - 1
      <4>1. j + 1 = n /\ s[j].lvl > 0
        BY <2>2, <3>1
      <4>2. QED
        BY <2>3, <4>1
    <3>2. CASE j # n - 1
      BY <2>2, <3>2
    <3>3. QED
      BY <3>1, <3>2
  <2>5. ASSUME NEW j \in 1 .. n PROVE s[j].m_is_written <=> s[j].lvl > 0
    <3>1. CASE j = n
      BY <2>3, <3>1
    <3>2. CASE j # n
      <4>1. j \in 1 .. n - 1
        BY <3>2
      <4>2. QED
        BY <2>2, <4>1
    <3>3. QED
      BY <3>1, <3>2
  <2>6. QED
    BY <2>4, <2>5
<1>4. QED
  BY <1>2, <1>3 DEF ReadAt

LEMMA ExShort == ASSUME ExInv PROVE QueueStaysShort
<1>1. SUFFICES ASSUME stage \in {"read", "root"}
               PROVE  /\ \A j \in 1 .. Len(q) - 1 : q[j].lvl > q[j + 1].lvl
                      /\ \A j \in 1 .. Len(q) : q[j].m_is_written <=> q[j].lvl > 0
  BY DEF QueueStaysShort
<1>2. TypeOK
  BY DEF ExInv
<1>3. PICK n \in Nat : n = Len(q)
  BY <1>2, Facts
<1>4. PICK e : ReadAt(file, q, wpos, e, n)
  BY <1>1, <1>3 DEF ExInv, StageInv
<1>5. \A j \in 1 .. n : q[j].m_is_written \in BOOLEAN
  BY <1>2, <1>3, Facts, NodeTypes
<1>6. PICK s : s = q
  OBVIOUS
<1>7. ReadAt(file, s, wpos, e, n)
  BY <1>4, <1>6
<1>8. \A j \in 1 .. n : s[j].m_is_written \in BOOLEAN
  BY <1>5, <1>6
<1>9. /\ \A j \in 1 .. n - 1 : s[j].lvl > s[j + 1].lvl
      /\ \A j \in 1 .. n : s[j].m_is_written <=> s[j].lvl > 0
  BY ONLY <1>7, <1>8, ReadShort
<1>10. QED
  BY <1>3, <1>6, <1>9

LEMMA InputsGood == ASSUME NEW in \in Inputs PROVE GoodInput(in)
BY BuildExAssumption DEF GoodInput

LEMMA NextEx == ASSUME ExInv, [Next]_vars PROVE ExInv'
<1>1. CASE \E in \in Inputs : StartBuild(in)
  BY <1>1, InputsGood, StartEx
<1>2. CASE Step
  BY <1>2, StepEx
<1>3. CASE Crash
  BY <1>3, CrashEx
<1>4. CASE UNCHANGED vars
  BY <1>4, StutterEx
<1>5. QED
  BY <1>1, <1>2, <1>3, <1>4 DEF Next

(* For inputs of every length, cut by crashes at every point, every        *)
(* interior block finds its two children where the distances computed from *)
(* its level say, one level below, and combines their hashes.              *)
THEOREM BlocksJoin == Spec => []BlocksJoinChildren
<1>1. Init => ExInv
  BY InitEx
<1>2. ExInv /\ [Next]_vars => ExInv'
  BY NextEx
<1>3. ExInv => BlocksJoinChildren
  BY ExJoins
<1>4. QED
  BY <1>1, <1>2, <1>3, PTL DEF Spec

(* The promise of the library, less memory: when an element is read, the   *)
(* queue holds one node of a level at most, the levels fall towards the    *)
(* tail, and every node above the leaves is in the file.                   *)
THEOREM QueueShort == Spec => []QueueStaysShort
<1>1. Init => ExInv
  BY InitEx
<1>2. ExInv /\ [Next]_vars => ExInv'
  BY NextEx
<1>3. ExInv => QueueStaysShort
  BY ExShort
<1>4. QED
  BY <1>1, <1>2, <1>3, PTL DEF Spec

-----------------------------------------------------------------------------
(* Arithmetic of the parts of a data set.                                  *)
LEMMA Products ==
    ASSUME NEW a \in Nat, NEW b \in Nat, NEW n \in Nat
    PROVE  /\ a * n \in Nat /\ (a + 1) * n = a * n + n
           /\ a <= b => a * n <= b * n
<1>1. a * n \in Nat /\ b * n \in Nat /\ (a + 1) * n = a * n + n
  OBVIOUS
<1>2. ASSUME a <= b PROVE a * n <= b * n
  <2>1. PICK d \in Nat : d = b - a /\ b = a + d
    BY <1>2
  <2>2. b * n = a * n + d * n /\ d * n \in Nat
    BY <2>1
  <2>3. QED
    BY <1>1, <2>2
<1>3. QED
  BY <1>1, <1>2

LEMMA ProductLess ==
    ASSUME NEW a \in Nat, NEW b \in Nat, NEW n \in Nat, a * n < b * n
    PROVE  a < b
<1>1. ~(b <= a)
  <2>1. SUFFICES ASSUME b <= a PROVE FALSE
    OBVIOUS
  <2>2. b * n <= a * n /\ a * n \in Nat /\ b * n \in Nat
    BY <2>1, Products
  <2>3. QED
    BY <2>2
<1>2. QED
  BY <1>1

(* Missing, and the number of parts: the least multiple of n from a up.    *)
Lacking(a, n) == IF a % n = 0 THEN 0 ELSE n - (a % n)
PartCount(a, n) == (a \div n) + (IF Lacking(a, n) > 0 THEN 1 ELSE 0)
WholeParts(a, n, sh, pt) == pt \in Nat /\ sh \in 0 .. n - 1 /\ a + sh = pt * n

LEMMA Ceiling ==
    ASSUME NEW a \in Nat, NEW n \in Nat \ {0}
    PROVE  WholeParts(a, n, Lacking(a, n), PartCount(a, n))
<1> DEFINE sh == Lacking(a, n)
           pt == PartCount(a, n)
<1>1. PICK d \in Nat : d = a \div n
  OBVIOUS
<1>2. PICK r \in 0 .. n - 1 : r = a % n
  OBVIOUS
<1>3. a = n * d + r
  BY <1>1, <1>2
<1>4. a = d * n + r /\ d * n \in Nat /\ (d + 1) * n = d * n + n
  BY <1>3
<1>5. CASE r = 0
  <2>1. sh = 0 /\ pt = d
    BY <1>1, <1>2, <1>5 DEF Lacking, PartCount
  <2>2. QED
    BY <1>4, <1>5, <2>1 DEF WholeParts
<1>6. CASE r # 0
  <2>1. sh = n - r /\ sh > 0
    BY <1>2, <1>6 DEF Lacking
  <2>2. pt = d + 1
    BY <1>1, <2>1 DEF PartCount
  <2>3. QED
    BY <1>4, <1>6, <2>1, <2>2 DEF WholeParts
<1>7. QED
  BY <1>5, <1>6

LEMMA Remainder == ASSUME NEW p \in Nat, NEW n \in Nat \ {0} PROVE (p * n) % n = 0
<1>1. PICK a \in Nat : a = p * n
  BY Products
<1>2. PICK d \in Nat : d = a \div n
  OBVIOUS
<1>3. PICK r \in 0 .. n - 1 : r = a % n
  OBVIOUS
<1>4. p * n = d * n + r
  BY <1>1, <1>2, <1>3
<1>5. r = 0
  <2>1. d * n \in Nat /\ p * n \in Nat /\ (d + 1) * n = d * n + n
    BY Products
  <2>2. p * n < (d + 1) * n
    BY <1>4, <2>1
  <2>3. p < d + 1
    BY <2>2, ProductLess
  <2>4. p <= d
    BY <2>3
  <2>5. p * n <= d * n
    BY <2>4, Products
  <2>6. QED
    BY <1>4, <2>1, <2>5
<1>6. QED
  BY <1>1, <1>3, <1>5

(* Part number k of a row of p parts of n blocks.                          *)
LEMMA PartFacts ==
    ASSUME NEW s \in Seq(Elem), NEW n \in Nat \ {0}, NEW p \in Nat, NEW k \in Nat, k < p,
           Len(s) = p * n,
           NEW t, t = SubSeq(s, k * n + 1, (k + 1) * n)
    PROVE  t \in Seq(Elem) /\ Len(t) = n /\ t # <<>>
<1>1. k * n \in Nat /\ (k + 1) * n = k * n + n /\ (k + 1) * n <= p * n /\ p * n \in Nat
  <2>1. k + 1 <= p /\ k + 1 \in Nat
    OBVIOUS
  <2>2. QED
    BY <2>1, Products
<1>2. PICK a \in Nat : a = k * n
  BY <1>1
<1>3. PICK l \in Nat : l = p * n
  BY <1>1
<1>4. t = SubSeq(s, a + 1, a + n) /\ a + n <= l /\ Len(s) = l
  BY <1>1, <1>2, <1>3
<1>5. t \in Seq(Elem) /\ Len(t) = (a + n) - (a + 1) + 1
  BY ONLY <1>4, n \in Nat, a \in Nat, l \in Nat, s \in Seq(Elem), n # 0
<1>6. (a + n) - (a + 1) + 1 = n
  OBVIOUS
<1>7. QED
  BY <1>5, <1>6

(* The least power of two from n up.                                       *)
LEMMA Pow2Grows == \A n \in Nat : n <= Pow2[n]
<1> DEFINE S == {n \in Nat : n + 1 <= Pow2[n]}
<1>1. 0 \in S
  BY Pow2Unfolds
<1>2. ASSUME NEW n \in Nat, n \in S PROVE n + 1 \in S
  <2>1. Pow2[n + 1] = 2 * Pow2[n] /\ Pow2[n] \in Nat /\ n + 1 <= Pow2[n]
    BY <1>2, Pow2Unfolds
  <2>2. QED
    BY <2>1
<1> HIDE DEF S
<1>3. Nat \subseteq S
  BY <1>1, <1>2, NatInduct
<1>4. ASSUME NEW n \in Nat PROVE n <= Pow2[n]
  <2>1. n + 1 <= Pow2[n] /\ Pow2[n] \in Nat
    BY <1>3, Pow2Unfolds DEF S
  <2>2. QED
    BY <2>1
<1>5. QED
  BY <1>4

LEMMA RoundUpFacts ==
    ASSUME NEW n \in Nat \ {0}
    PROVE  RoundUp(n) \in Nat \ {0} /\ n <= RoundUp(n) /\ \E k \in Nat : RoundUp(n) = Pow2[k]
<1> DEFINE T == {p \in {Pow2[k] : k \in 0 .. n} : n <= p}
           Least(p) == n <= p /\ \A k \in 0 .. n : n <= Pow2[k] => p <= Pow2[k]
<1>1. T \subseteq Nat /\ T # {}
  <2>1. n \in 0 .. n /\ n <= Pow2[n]
    BY Pow2Grows
  <2>2. QED
    BY <2>1, Pow2Unfolds
<1>2. PICK m \in T : \A p \in T : m <= p
  BY <1>1, LeastNat
<1>3. m \in {Pow2[k] : k \in 0 .. n} /\ Least(m)
  BY <1>2
<1>4. RoundUp(n) = CHOOSE p \in {Pow2[k] : k \in 0 .. n} : Least(p)
  BY DEF RoundUp
<1>5. RoundUp(n) \in {Pow2[k] : k \in 0 .. n} /\ Least(RoundUp(n))
  BY <1>3, <1>4
<1>6. PICK k \in 0 .. n : RoundUp(n) = Pow2[k]
  BY <1>5
<1>7. k \in Nat /\ Pow2[k] \in Nat \ {0}
  BY <1>6, Pow2Unfolds
<1>8. QED
  BY <1>5, <1>6, <1>7

-----------------------------------------------------------------------------
(* The invariant of the call that builds many trees: the blocks the data   *)
(* set has and lacks make up whole parts, and the part at work has         *)
(* leaf_num of them.  A part of one block would have no root.              *)
PartsFork == \A n \in LeafNums : n > 1

FixedInv ==
    /\ ExInv /\ FixedTypeOK
    /\ phase # "none" => leaf_num # 0
    /\ phase # "extend" => short = 0
    /\ leaf_num # 0 => Len(ds) + short = parts * leaf_num
    /\ phase = "build" => i < parts /\ Len(job.elems) = leaf_num
    /\ PartsFork => NamedAfterRoot /\ (phase # "none" => leaf_num > 1)

LEMMA FixedFacts ==
    ASSUME FixedInv
    PROVE  /\ ds \in Seq(Elem) /\ Len(ds) \in Nat /\ leaf_num \in Nat /\ parts \in Nat
           /\ i \in Nat /\ i <= parts /\ short \in Nat /\ short <= leaf_num
BY DEF FixedInv, FixedTypeOK

LEMMA FixedInitInv == ASSUME FixedInit PROVE FixedInv
<1>1. ExInv
  BY InitEx DEF FixedInit
<1>2. ds \in Seq(Elem) /\ leaf_num = 0 /\ parts = 0 /\ i = 0 /\ short = 0 /\ phase = "none"
      /\ dir = <<>>
  BY FixedLeavesAssumption DEF FixedInit
<1>3. NamedAfterRoot
  <2>1. DOMAIN dir = {}
    BY <1>2
  <2>2. QED
    BY <2>1 DEF NamedAfterRoot
<1>4. FixedTypeOK
  BY <1>1, <1>2 DEF FixedTypeOK, ExInv
<1>5. QED
  BY <1>1, <1>2, <1>3, <1>4 DEF FixedInv

(* The steps of the call itself.                                           *)
LEMMA StartFixedInv ==
    ASSUME FixedInv, NEW n \in LeafNums, StartFixed(n)
    PROVE  FixedInv'
<1>1. PICK m \in Nat \ {0} : m = RoundUp(n) /\ n <= m
  <2>1. n \in Nat \ {0}
    BY FixedLeavesAssumption
  <2>2. QED
    BY <2>1, RoundUpFacts
<1>2. /\ leaf_num' = m /\ short' = Missing(m)
      /\ parts' = (Len(ds) \div m) + (IF short' > 0 THEN 1 ELSE 0)
      /\ i' = 0 /\ phase' = "extend" /\ UNCHANGED <<vars, ds, dir>>
  BY <1>1 DEF StartFixed
<1>3. PICK a \in Nat : a = Len(ds)
  BY FixedFacts
<1>4. PICK sh : sh = short'
  OBVIOUS
<1>5. PICK pt : pt = parts'
  OBVIOUS
<1>6. sh = Lacking(a, m) /\ pt = PartCount(a, m)
  BY <1>2, <1>3, <1>4, <1>5 DEF Missing, Lacking, PartCount
<1>7. pt \in Nat /\ sh \in 0 .. m - 1 /\ a + sh = pt * m
  BY <1>6, Ceiling DEF WholeParts
<1>8. ExInv'
  <2>1. UNCHANGED vars
    BY <1>2
  <2>2. QED
    BY <2>1, StutterEx DEF FixedInv
<1>9. ds' \in Seq(Elem) /\ Len(ds') = a
  BY <1>2, <1>3, FixedFacts
<1>10. FixedTypeOK'
  <2>1. i' \in 0 .. parts' /\ short' \in 0 .. leaf_num'
    BY <1>2, <1>4, <1>5, <1>7
  <2>2. QED
    BY <1>2, <1>5, <1>7, <1>8, <1>9, <2>1 DEF FixedTypeOK, ExInv
<1>11. PartsFork => NamedAfterRoot' /\ leaf_num' > 1
  <2>1. ASSUME PartsFork PROVE NamedAfterRoot'
    BY <1>2, <2>1 DEF FixedInv, NamedAfterRoot
  <2>2. ASSUME PartsFork PROVE leaf_num' > 1
    <3>1. n > 1 /\ n \in Nat
      BY <2>2, FixedLeavesAssumption DEF PartsFork
    <3>2. QED
      BY <1>1, <1>2, <3>1
  <2>3. QED
    BY <2>1, <2>2
<1>12. Len(ds') + short' = parts' * leaf_num'
  BY <1>2, <1>4, <1>5, <1>7, <1>9
<1>13. QED
  BY <1>1, <1>2, <1>8, <1>10, <1>11, <1>12 DEF FixedInv, PartsFork

LEMMA ExtendDataInv == ASSUME FixedInv, ExtendData PROVE FixedInv'
<1>1. phase = "extend" /\ UNCHANGED <<vars, leaf_num, parts, i, dir>>
  BY DEF ExtendData
<1>2. ExInv'
  <2>1. UNCHANGED vars
    BY <1>1
  <2>2. QED
    BY <2>1, StutterEx DEF FixedInv
<1>3. /\ ds \in Seq(Elem) /\ Len(ds) \in Nat /\ leaf_num \in Nat /\ parts \in Nat
      /\ i \in Nat /\ i <= parts /\ short \in Nat /\ short <= leaf_num
  BY FixedFacts
<1>4. NamedAfterRoot' <=> NamedAfterRoot
  BY <1>1 DEF NamedAfterRoot
<1>5. leaf_num # 0 /\ Len(ds) + short = parts * leaf_num
      /\ (PartsFork => NamedAfterRoot /\ leaf_num > 1)
  BY <1>1 DEF FixedInv
<1>6. CASE short > 0
  <2>1. ds' = Append(ds, [pn |-> NoPage, h |-> PadHash]) /\ short' = short - 1 /\ phase' = phase
    BY <1>6 DEF ExtendData
  <2>2. ds' \in Seq(Elem) /\ Len(ds') = Len(ds) + 1
    <3>1. [pn |-> NoPage, h |-> PadHash] \in Elem
      BY FixedLeavesAssumption, DiskAssumption DEF Elem
    <3>2. QED
      BY <1>3, <2>1, <3>1
  <2>3. short' \in Nat /\ short' <= leaf_num /\ Len(ds') + short' = Len(ds) + short
    BY <1>3, <1>6, <2>1, <2>2
  <2>4. FixedTypeOK'
    BY <1>1, <1>2, <1>3, <2>1, <2>2, <2>3 DEF FixedTypeOK, ExInv
  <2>5. QED
    BY <1>1, <1>2, <1>4, <1>5, <2>1, <2>3, <2>4 DEF FixedInv, PartsFork
<1>7. CASE ~(short > 0)
  <2>1. phase' = "split" /\ ds' = ds /\ short' = short
    BY <1>7 DEF ExtendData
  <2>2. short = 0
    BY <1>3, <1>7
  <2>3. FixedTypeOK'
    BY <1>1, <1>2, <1>3, <2>1 DEF FixedTypeOK, ExInv
  <2>4. QED
    BY <1>1, <1>2, <1>4, <1>5, <2>1, <2>2, <2>3 DEF FixedInv, PartsFork
<1>8. QED
  BY <1>6, <1>7

LEMMA BuildPartInv == ASSUME FixedInv, BuildPart PROVE FixedInv'
<1>1. /\ phase = "split" /\ i < parts /\ phase' = "build"
      /\ StartBuild([kind |-> "dataset", elems |-> Part(i)])
      /\ UNCHANGED <<ds, leaf_num, parts, i, short, dir>>
  BY DEF BuildPart
<1>2. /\ ds \in Seq(Elem) /\ Len(ds) \in Nat /\ leaf_num \in Nat /\ parts \in Nat
      /\ i \in Nat /\ i <= parts /\ short \in Nat /\ short <= leaf_num
  BY FixedFacts
<1>3. /\ short = 0 /\ leaf_num # 0 /\ Len(ds) + short = parts * leaf_num
      /\ (PartsFork => NamedAfterRoot /\ leaf_num > 1)
  BY <1>1 DEF FixedInv
<1>4. PICK t : t = Part(i)
  OBVIOUS
<1>5. t \in Seq(Elem) /\ Len(t) = leaf_num /\ t # <<>>
  <2>1. PICK s \in Seq(Elem) : s = ds
    BY <1>2
  <2>2. PICK n \in Nat \ {0} : n = leaf_num
    BY <1>2, <1>3
  <2>3. PICK p \in Nat : p = parts
    BY <1>2
  <2>4. PICK k \in Nat : k = i
    BY <1>2
  <2>5. Len(s) = p * n
    BY <1>2, <1>3, <2>1, <2>2, <2>3
  <2>6. k < p /\ t = SubSeq(s, k * n + 1, (k + 1) * n)
    BY <1>1, <1>4, <2>1, <2>2, <2>3, <2>4 DEF Part
  <2>7. t \in Seq(Elem) /\ Len(t) = n /\ t # <<>>
    BY ONLY <2>5, <2>6, PartFacts
  <2>8. QED
    BY <2>2, <2>7
<1>6. PICK in : in = [kind |-> "dataset", elems |-> t]
  OBVIOUS
<1>7. GoodInput(in) /\ StartBuild(in)
  BY <1>1, <1>4, <1>5, <1>6 DEF GoodInput, Kinds
<1>8. ExInv'
  BY <1>7, StartEx
<1>9. job' = in
  BY <1>7 DEF StartBuild
<1>10. FixedTypeOK'
  BY <1>1, <1>2, <1>8 DEF FixedTypeOK, ExInv
<1>11. NamedAfterRoot' <=> NamedAfterRoot
  BY <1>1 DEF NamedAfterRoot
<1>12. Len(job'.elems) = leaf_num
  BY <1>5, <1>6, <1>9
<1>13. QED
  BY <1>1, <1>3, <1>8, <1>10, <1>11, <1>12 DEF FixedInv, PartsFork

(* A step that leaves what the call keeps, and its input, as they are.     *)
LEMMA StepKeepsJob == ASSUME Step PROVE job' = job
BY DEF Step, CombineTurn, ReadElem, Pair, TakeLeft, TakeRight, Take, WriteParent,
       CombineEnds, PopRoot, WriteHeader

LEMMA FixedKept ==
    ASSUME FixedInv, ExInv', UNCHANGED fixedVars, phase = "build" => job' = job
    PROVE  FixedInv'
<1>1. UNCHANGED <<ds, phase, leaf_num, parts, i, short, dir>>
  BY DEF fixedVars
<1>2. FixedTypeOK'
  BY <1>1 DEF FixedInv, FixedTypeOK, ExInv
<1>3. NamedAfterRoot' <=> NamedAfterRoot
  BY <1>1 DEF NamedAfterRoot
<1>4. phase' = "build" => i' < parts' /\ Len(job'.elems) = leaf_num'
  BY <1>1 DEF FixedInv
<1>5. QED
  BY <1>1, <1>2, <1>3, <1>4 DEF FixedInv, PartsFork

LEMMA RenamePartInv == ASSUME FixedInv, RenamePart PROVE FixedInv'
<1>1. /\ phase = "build" /\ stage = "idle" /\ phase' = "split" /\ i' = i + 1
      /\ dir' = Renamed(RootName) /\ UNCHANGED <<vars, ds, leaf_num, parts, short>>
  BY DEF RenamePart
<1>2. ExInv'
  <2>1. UNCHANGED vars
    BY <1>1
  <2>2. QED
    BY <2>1, StutterEx DEF FixedInv
<1>3. /\ ds \in Seq(Elem) /\ leaf_num \in Nat /\ parts \in Nat
      /\ i \in Nat /\ i <= parts /\ short \in Nat /\ short <= leaf_num
  BY FixedFacts
<1>4. /\ short = 0 /\ leaf_num # 0 /\ Len(ds) + short = parts * leaf_num
      /\ i < parts /\ Len(job.elems) = leaf_num
      /\ (PartsFork => NamedAfterRoot /\ leaf_num > 1)
  BY <1>1 DEF FixedInv
<1>5. i' \in 0 .. parts
  BY <1>1, <1>3, <1>4
<1>6. FixedTypeOK'
  BY <1>1, <1>2, <1>3, <1>5 DEF FixedTypeOK, ExInv
<1>7. ASSUME PartsFork PROVE NamedAfterRoot'
  <2>1. hdr.rno = glob.rno /\ glob.rno \in 1 .. wpos - 1
    <3>1. Len(job.elems) > 1
      BY <1>4, <1>7
    <3>2. QED
      BY <1>1, <3>1 DEF FixedInv, ExInv, RootInv
  <2>2. hdr.rno # NoPos /\ RootName = file[hdr.rno].h
    BY <2>1 DEF RootName, NoPos
  <2>3. PICK name : name = RootName
    OBVIOUS
  <2>4. PICK new : new = [file |-> file, hdr |-> hdr]
    OBVIOUS
  <2>5. new.hdr.rno # NoPos /\ new.file[new.hdr.rno].h = name
    BY <2>2, <2>3, <2>4
  <2>6. dir' = [n \in DOMAIN dir \cup {name} |-> IF n = name THEN new ELSE dir[n]]
    BY <1>1, <2>3, <2>4 DEF Renamed
  <2>7. ASSUME NEW n \in DOMAIN dir'
        PROVE  dir'[n].hdr.rno # NoPos /\ dir'[n].file[dir'[n].hdr.rno].h = n
    <3>1. CASE n = name
      <4>1. dir'[n] = new
        BY <2>6, <3>1
      <4>2. QED
        BY <2>5, <3>1, <4>1
    <3>2. CASE n # name
      <4>1. n \in DOMAIN dir /\ dir'[n] = dir[n]
        BY <2>6, <2>7, <3>2
      <4>2. NamedAfterRoot
        BY <1>4, <1>7
      <4>3. QED
        BY <4>1, <4>2 DEF NamedAfterRoot
    <3>3. QED
      BY <3>1, <3>2
  <2>8. QED
    BY <2>7 DEF NamedAfterRoot
<1>8. QED
  BY <1>1, <1>2, <1>4, <1>6, <1>7 DEF FixedInv, PartsFork

LEMMA ReturnFixedInv == ASSUME FixedInv, ReturnFixed PROVE FixedInv'
<1>1. /\ phase = "split" /\ phase' = "none"
      /\ UNCHANGED <<vars, ds, leaf_num, parts, i, short, dir>>
  BY DEF ReturnFixed
<1>2. ExInv'
  <2>1. UNCHANGED vars
    BY <1>1
  <2>2. QED
    BY <2>1, StutterEx DEF FixedInv
<1>3. FixedTypeOK'
  BY <1>1, <1>2 DEF FixedInv, FixedTypeOK, ExInv
<1>4. NamedAfterRoot' <=> NamedAfterRoot
  BY <1>1 DEF NamedAfterRoot
<1>5. QED
  BY <1>1, <1>2, <1>3, <1>4 DEF FixedInv, PartsFork

LEMMA FixedCrashInv == ASSUME FixedInv, FixedCrash PROVE FixedInv'
<1>1. /\ phase' = "none" /\ leaf_num' = 0 /\ parts' = 0 /\ i' = 0 /\ short' = 0
      /\ UNCHANGED <<ds, dir>>
  BY DEF FixedCrash
<1>2. ExInv'
  <2>1. Crash \/ UNCHANGED vars
    BY DEF FixedCrash
  <2>2. QED
    BY <2>1, StutterEx, CrashEx DEF FixedInv
<1>3. FixedTypeOK'
  BY <1>1, <1>2, FixedFacts DEF FixedTypeOK, ExInv
<1>4. NamedAfterRoot' <=> NamedAfterRoot
  BY <1>1 DEF NamedAfterRoot
<1>5. QED
  BY <1>1, <1>2, <1>3, <1>4 DEF FixedInv, PartsFork

LEMMA FixedNextInv == ASSUME FixedInv, [FixedNext]_allVars PROVE FixedInv'
<1>1. CASE \E n \in LeafNums : StartFixed(n)
  BY <1>1, StartFixedInv
<1>2. CASE \E in \in Inputs : StartAlone(in)
  <2>1. PICK in \in Inputs : StartAlone(in)
    BY <1>2
  <2>2. phase = "none" /\ StartBuild(in) /\ UNCHANGED fixedVars
    BY <2>1 DEF StartAlone
  <2>3. ExInv'
    BY <2>2, InputsGood, StartEx
  <2>4. QED
    BY <2>2, <2>3, FixedKept
<1>3. CASE StepAlone \/ BuildStep
  <2>1. Step /\ UNCHANGED fixedVars
    BY <1>3 DEF StepAlone, BuildStep
  <2>2. ExInv' /\ job' = job
    BY <2>1, StepEx, StepKeepsJob DEF FixedInv
  <2>3. QED
    BY <2>1, <2>2, FixedKept
<1>4. CASE CrashAlone
  <2>1. phase = "none" /\ Crash /\ UNCHANGED fixedVars
    BY <1>4 DEF CrashAlone
  <2>2. ExInv'
    BY <2>1, CrashEx DEF FixedInv
  <2>3. QED
    BY <2>1, <2>2, FixedKept
<1>5. CASE UNCHANGED allVars
  <2>1. UNCHANGED vars /\ UNCHANGED fixedVars
    BY <1>5 DEF allVars
  <2>2. ExInv' /\ job' = job
    BY <2>1, StutterEx DEF FixedInv, vars
  <2>3. QED
    BY <2>1, <2>2, FixedKept
<1>6. CASE ExtendData \/ BuildPart \/ RenamePart \/ ReturnFixed \/ FixedCrash
  BY <1>6, ExtendDataInv, BuildPartInv, RenamePartInv, ReturnFixedInv, FixedCrashInv
<1>7. QED
  BY <1>1, <1>2, <1>3, <1>4, <1>5, <1>6 DEF FixedNext, FixedStep

(* Whatever happens, the state of the call and of the builder is one of    *)
(* those listed.                                                           *)
THEOREM FixedTypes == FixedSpec => []FixedTypeOK
<1>1. FixedInit => FixedInv
  BY FixedInitInv
<1>2. FixedInv /\ [FixedNext]_allVars => FixedInv'
  BY FixedNextInv
<1>3. FixedInv => FixedTypeOK
  BY DEF FixedInv
<1>4. QED
  BY <1>1, <1>2, <1>3, PTL DEF FixedSpec

(* A tree that has its final name is finished and is named after its root, *)
(* when no part is a single block, whose tree has no root.                 *)
THEOREM Directory == ASSUME PartsFork PROVE FixedSpec => []DirectoryComplete
<1>1. FixedInit => FixedInv
  BY FixedInitInv
<1>2. FixedInv /\ [FixedNext]_allVars => FixedInv'
  BY FixedNextInv
<1>3. FixedInv => DirectoryComplete
  BY DEF FixedInv, DirectoryComplete
<1>4. QED
  BY <1>1, <1>2, <1>3, PTL DEF FixedSpec

(* The two properties of the builder hold of its calls in the loop over    *)
(* the parts as well.                                                      *)
THEOREM FixedBuilder == FixedSpec => [](BlocksJoinChildren /\ QueueStaysShort)
<1>1. FixedInit => FixedInv
  BY FixedInitInv
<1>2. FixedInv /\ [FixedNext]_allVars => FixedInv'
  BY FixedNextInv
<1>3. FixedInv => BlocksJoinChildren /\ QueueStaysShort
  BY ExJoins, ExShort DEF FixedInv
<1>4. QED
  BY <1>1, <1>2, <1>3, PTL DEF FixedSpec

-----------------------------------------------------------------------------
(* Padding.  Of two powers of two one divides the other.                   *)
LEMMA Pow2Adds == \A a, j \in Nat : Pow2[a + j] = Pow2[j] * Pow2[a]
<1> SUFFICES ASSUME NEW a \in Nat PROVE \A j \in Nat : Pow2[a + j] = Pow2[j] * Pow2[a]
  OBVIOUS
<1> DEFINE S == {j \in Nat : Pow2[a + j] = Pow2[j] * Pow2[a]}
<1>1. 0 \in S
  <2>1. a + 0 = a /\ Pow2[0] = 1 /\ Pow2[a] \in Nat
    BY Pow2Unfolds
  <2>2. QED
    BY <2>1
<1>2. ASSUME NEW j \in Nat, j \in S PROVE j + 1 \in S
  <2>1. a + j \in Nat /\ a + (j + 1) = (a + j) + 1 /\ j + 1 \in Nat
    OBVIOUS
  <2>2. Pow2[(a + j) + 1] = 2 * Pow2[a + j] /\ Pow2[j + 1] = 2 * Pow2[j]
        /\ Pow2[a] \in Nat /\ Pow2[j] \in Nat
    BY <2>1, Pow2Unfolds
  <2>3. Pow2[a + j] = Pow2[j] * Pow2[a]
    BY <1>2
  <2>4. PICK u \in Nat : u = Pow2[a]
    BY <2>2
  <2>5. PICK v \in Nat : v = Pow2[j]
    BY <2>2
  <2>6. 2 * (v * u) = (2 * v) * u
    OBVIOUS
  <2>7. Pow2[a + (j + 1)] = Pow2[j + 1] * Pow2[a]
    BY <2>1, <2>2, <2>3, <2>4, <2>5, <2>6
  <2>8. QED
    BY <2>1, <2>7
<1> HIDE DEF S
<1>3. Nat \subseteq S
  BY <1>1, <1>2, NatInduct
<1>4. QED
  BY <1>3 DEF S

Divides(a, b) == \E c \in Nat : b = c * a

LEMMA Pow2Divides == \A a, b \in Nat : Divides(Pow2[a], Pow2[b]) \/ Divides(Pow2[b], Pow2[a])
<1>1. ASSUME NEW a \in Nat, NEW b \in Nat, a <= b PROVE Divides(Pow2[a], Pow2[b])
  <2>1. PICK j \in Nat : b = a + j
    <3>1. b - a \in Nat /\ b = a + (b - a)
      BY <1>1
    <3>2. QED
      BY <3>1
  <2>2. Pow2[j] \in Nat /\ Pow2[b] = Pow2[j] * Pow2[a]
    BY <2>1, Pow2Unfolds, Pow2Adds
  <2>3. QED
    BY <2>2 DEF Divides
<1>2. \A a, b \in Nat : a <= b \/ b <= a
  OBVIOUS
<1>3. QED
  BY <1>1, <1>2

(* From m blocks up to l there is room in a multiple of p that is less     *)
(* than p away from m.                                                     *)
RoomFor(m, l, p) == \E x \in Nat : l <= x * p /\ x * p < m + p

LEMMA RoomDivides ==
    ASSUME NEW m \in Nat, NEW l \in Nat, NEW p \in Nat \ {0}, NEW u \in Nat \ {0},
           RoomFor(m, l, p), Divides(u, p), NEW y \in Nat, y * u < l + u
    PROVE  RoomFor(m, y * u, p)
<1>1. PICK x \in Nat : l <= x * p /\ x * p < m + p
  BY DEF RoomFor
<1>2. PICK c \in Nat : p = c * u
  BY DEF Divides
<1>3. PICK z \in Nat : z = x * c
  BY Products
<1>4. x * p = z * u
  <2>1. x * (c * u) = (x * c) * u
    OBVIOUS
  <2>2. QED
    BY <1>2, <1>3, <2>1
<1>5. y * u \in Nat /\ z * u \in Nat /\ (z + 1) * u = z * u + u
  BY Products
<1>6. y * u < (z + 1) * u
  BY <1>1, <1>4, <1>5
<1>7. y < z + 1
  BY <1>6, ProductLess
<1>8. y * u <= z * u
  <2>1. y <= z
    BY <1>7
  <2>2. QED
    BY <2>1, Products
<1>9. y * u <= x * p
  BY <1>4, <1>8
<1>10. QED
  BY <1>1, <1>9 DEF RoomFor

LEMMA RoomGrows ==
    ASSUME NEW m \in Nat, NEW l \in Nat, NEW p \in Nat \ {0}, NEW u \in Nat \ {0},
           RoomFor(m, l, p), Divides(p, u), NEW y \in Nat, y * u < l + u
    PROVE  RoomFor(m, y * u, u)
<1>1. PICK z \in Nat : m <= z * u /\ z * u < m + u
  <2>1. PICK sh : sh = Lacking(m, u)
    OBVIOUS
  <2>2. PICK pt : pt = PartCount(m, u)
    OBVIOUS
  <2>3. pt \in Nat /\ sh \in 0 .. u - 1 /\ m + sh = pt * u
    BY <2>1, <2>2, Ceiling DEF WholeParts
  <2>4. m <= pt * u /\ pt * u < m + u
    BY <2>3
  <2>5. QED
    BY <2>3, <2>4
<1>2. Divides(u, u)
  <2>1. u = 1 * u
    OBVIOUS
  <2>2. QED
    BY <2>1 DEF Divides
<1>3. PICK x \in Nat : l <= x * p /\ x * p < m + p
  BY DEF RoomFor
<1>4. PICK c \in Nat : u = c * p
  BY DEF Divides
<1>5. PICK w \in Nat : w = z * c
  BY Products
<1>6. z * u = w * p
  <2>1. z * (c * p) = (z * c) * p
    OBVIOUS
  <2>2. QED
    BY <1>4, <1>5, <2>1
<1>7. x * p \in Nat /\ w * p \in Nat /\ (w + 1) * p = w * p + p
  BY Products
<1>8. x * p < (w + 1) * p
  BY <1>1, <1>3, <1>6, <1>7
<1>9. x < w + 1
  BY <1>8, ProductLess
<1>10. x * p <= w * p
  <2>1. x <= w
    BY <1>9
  <2>2. QED
    BY <2>1, Products
<1>11. l <= z * u
  BY <1>3, <1>6, <1>7, <1>10
<1>12. RoomFor(m, l, u)
  BY <1>1, <1>11 DEF RoomFor
<1>13. QED
  BY <1>2, <1>12, RoomDivides

-----------------------------------------------------------------------------
(* The data set is its first m blocks, none of them padding, and padding   *)
(* up to a multiple of one of the part sizes, which is the next above m.   *)
NoPadding == \A d \in InitData : \A k \in 1 .. Len(d) : d[k].pn # NoPage

Rows(s, m) ==
    /\ \A k \in 1 .. m : s[k].pn # NoPage
    /\ \A k \in m + 1 .. Len(s) : s[k].pn = NoPage

Roomy(m, l) == \E n \in LeafNums : RoomFor(m, l, RoundUp(n))

PadInv ==
    \E m \in 0 .. Len(ds) :
        /\ Rows(ds, m)
        /\ \/ Len(ds) = m /\ leaf_num = 0
           \/ Roomy(m, Len(ds) + short)

LEMMA PadInit == ASSUME NoPadding, FixedInit PROVE PadInv
<1>1. ds \in InitData /\ ds \in Seq(Elem) /\ Len(ds) \in Nat /\ leaf_num = 0
  BY FixedLeavesAssumption DEF FixedInit
<1>2. PICK m \in Nat : m = Len(ds)
  BY <1>1
<1>3. Rows(ds, m)
  BY <1>1, <1>2 DEF Rows, NoPadding
<1>4. QED
  BY <1>1, <1>2, <1>3 DEF PadInv

LEMMA RoundUpPositive == \A n \in LeafNums : RoundUp(n) \in Nat \ {0}
BY FixedLeavesAssumption, RoundUpFacts

LEMMA RoomNext ==
    ASSUME NEW m \in Nat, NEW l \in Nat, Roomy(m, l), NEW n \in LeafNums,
           NEW u, u = RoundUp(n), NEW y \in Nat, y * u < l + u
    PROVE  Roomy(m, y * u)
<1>1. PICK k \in LeafNums : RoomFor(m, l, RoundUp(k))
  BY DEF Roomy
<1>2. PICK p \in Nat \ {0} : p = RoundUp(k)
  BY RoundUpPositive
<1>3. u \in Nat \ {0}
  BY RoundUpPositive
<1>4. Divides(u, p) \/ Divides(p, u)
  <2>1. k \in Nat \ {0} /\ n \in Nat \ {0}
    BY FixedLeavesAssumption
  <2>2. PICK a \in Nat : p = Pow2[a]
    BY <1>2, <2>1, RoundUpFacts
  <2>3. PICK b \in Nat : u = Pow2[b]
    BY <2>1, RoundUpFacts
  <2>4. QED
    BY <2>2, <2>3, Pow2Divides
<1>5. RoomFor(m, l, p)
  BY <1>1, <1>2
<1>6. CASE Divides(u, p)
  <2>1. RoomFor(m, y * u, p)
    BY <1>3, <1>5, <1>6, RoomDivides
  <2>2. QED
    BY <1>2, <2>1 DEF Roomy
<1>7. CASE Divides(p, u)
  <2>1. RoomFor(m, y * u, u)
    BY <1>3, <1>5, <1>7, RoomGrows
  <2>2. QED
    BY <2>1 DEF Roomy
<1>8. QED
  BY <1>4, <1>6, <1>7

LEMMA PadStart ==
    ASSUME FixedInv, PadInv, NEW n \in LeafNums, StartFixed(n)
    PROVE  PadInv'
<1>1. PICK u \in Nat \ {0} : u = RoundUp(n)
  BY RoundUpPositive
<1>2. phase = "none" /\ leaf_num' = u /\ short' = Missing(u) /\ ds' = ds
  BY <1>1 DEF StartFixed
<1>3. PICK a \in Nat : a = Len(ds)
  BY FixedFacts
<1>4. PICK sh : sh = Lacking(a, u)
  OBVIOUS
<1>5. PICK y : y = PartCount(a, u)
  OBVIOUS
<1>6. y \in Nat /\ sh \in 0 .. u - 1 /\ a + sh = y * u
  BY <1>4, <1>5, Ceiling DEF WholeParts
<1>7. short' = sh
  BY <1>2, <1>3, <1>4 DEF Missing, Lacking
<1>8. PICK m \in 0 .. a : Rows(ds, m) /\ ((a = m /\ leaf_num = 0) \/ Roomy(m, a + short))
  BY <1>3 DEF PadInv
<1>9. m \in Nat /\ m <= a
  OBVIOUS
<1>10. y * u < a + u
  BY <1>6
<1>11. Roomy(m, y * u)
  <2>1. CASE a = m
    <3>1. RoomFor(m, y * u, u)
      BY <1>6, <1>10, <2>1 DEF RoomFor
    <3>2. QED
      BY <1>1, <3>1 DEF Roomy
  <2>2. CASE Roomy(m, a + short)
    <3>1. a + short = a
      BY <1>2 DEF FixedInv
    <3>2. Roomy(m, a)
      BY <2>2, <3>1
    <3>3. QED
      BY <1>1, <1>9, <1>10, <1>6, <3>2, RoomNext
  <2>3. QED
    BY <1>8, <2>1, <2>2
<1>12. Len(ds') + short' = y * u /\ Len(ds') = a
  BY <1>2, <1>3, <1>6, <1>7
<1>13. Roomy(m, Len(ds') + short')
  BY <1>11, <1>12
<1>14. m \in 0 .. Len(ds') /\ Rows(ds', m)
  BY <1>2, <1>8, <1>12
<1>15. QED
  BY <1>13, <1>14 DEF PadInv

LEMMA PadExtend == ASSUME FixedInv, PadInv, ExtendData PROVE PadInv'
<1>1. phase = "extend" /\ leaf_num' = leaf_num
  BY DEF ExtendData
<1>2. leaf_num # 0 /\ ds \in Seq(Elem) /\ Len(ds) \in Nat /\ short \in Nat
  BY <1>1, FixedFacts DEF FixedInv
<1>3. PICK m \in 0 .. Len(ds) : Rows(ds, m) /\ Roomy(m, Len(ds) + short)
  BY <1>2 DEF PadInv
<1>4. CASE short > 0
  <2>1. PICK b : b = [pn |-> NoPage, h |-> PadHash]
    OBVIOUS
  <2>2. b \in Elem /\ b.pn = NoPage
    BY <2>1, FixedLeavesAssumption, DiskAssumption DEF Elem
  <2>3. ds' = Append(ds, b) /\ short' = short - 1
    BY <1>4, <2>1 DEF ExtendData
  <2>4. PICK a \in Nat : a = Len(ds)
    BY <1>2
  <2>5. Len(ds') = a + 1 /\ ds'[a + 1] = b /\ \A k \in 1 .. a : ds'[k] = ds[k]
    BY <1>2, <2>2, <2>3, <2>4
  <2>6. Rows(ds', m)
    <3>1. ASSUME NEW k \in 1 .. m PROVE ds'[k].pn # NoPage
      BY <1>3, <2>4, <2>5 DEF Rows
    <3>2. ASSUME NEW k \in m + 1 .. a + 1 PROVE ds'[k].pn = NoPage
      <4>1. CASE k = a + 1
        BY <2>2, <2>5, <4>1
      <4>2. CASE k # a + 1
        <5>1. k \in m + 1 .. Len(ds) /\ k \in 1 .. a
          BY <2>4, <4>2
        <5>2. QED
          BY <1>3, <2>5, <5>1 DEF Rows
      <4>3. QED
        BY <4>1, <4>2
    <3>3. QED
      BY <2>5, <3>1, <3>2 DEF Rows
  <2>7. Len(ds') + short' = Len(ds) + short /\ m \in 0 .. Len(ds')
    BY <1>2, <2>3, <2>4, <2>5
  <2>8. QED
    BY <1>3, <2>6, <2>7 DEF PadInv
<1>5. CASE ~(short > 0)
  <2>1. ds' = ds /\ short' = short
    BY <1>5 DEF ExtendData
  <2>2. QED
    BY <1>3, <2>1 DEF PadInv
<1>6. QED
  BY <1>4, <1>5

LEMMA PadCrash == ASSUME FixedInv, PadInv, FixedCrash PROVE PadInv'
<1>1. leaf_num' = 0 /\ short' = 0 /\ ds' = ds
  BY DEF FixedCrash
<1>2. Len(ds) \in Nat /\ short \in Nat
  BY FixedFacts
<1>3. PICK m \in 0 .. Len(ds) :
          Rows(ds, m) /\ ((Len(ds) = m /\ leaf_num = 0) \/ Roomy(m, Len(ds) + short))
  BY DEF PadInv
<1>4. CASE Len(ds) = m
  BY <1>1, <1>3, <1>4 DEF PadInv
<1>5. CASE Roomy(m, Len(ds) + short)
  <2>1. PICK n \in LeafNums : RoomFor(m, Len(ds) + short, RoundUp(n))
    BY <1>5 DEF Roomy
  <2>2. PICK p \in Nat \ {0} : p = RoundUp(n)
    BY RoundUpPositive
  <2>3. PICK x \in Nat : Len(ds) + short <= x * p /\ x * p < m + p
    BY <2>1, <2>2 DEF RoomFor
  <2>4. Len(ds) + 0 <= x * p
    <3>1. x * p \in Nat
      BY <2>2, Products
    <3>2. QED
      BY <1>2, <2>3, <3>1
  <2>5. Roomy(m, Len(ds) + 0)
    BY <2>2, <2>3, <2>4 DEF Roomy, RoomFor
  <2>6. QED
    BY <1>1, <1>3, <2>5 DEF PadInv
<1>6. QED
  BY <1>3, <1>4, <1>5

LEMMA PadKept == ASSUME PadInv, UNCHANGED <<ds, leaf_num, short>> PROVE PadInv'
BY DEF PadInv

LEMMA PadNext == ASSUME FixedInv, PadInv, [FixedNext]_allVars PROVE PadInv'
<1>1. CASE \E n \in LeafNums : StartFixed(n)
  BY <1>1, PadStart
<1>2. CASE \E in \in Inputs : StartAlone(in)
  BY <1>2, PadKept DEF StartAlone, fixedVars
<1>3. CASE BuildPart \/ BuildStep \/ RenamePart \/ ReturnFixed \/ StepAlone \/ CrashAlone
  BY <1>3, PadKept DEF BuildPart, BuildStep, RenamePart, ReturnFixed, StepAlone, CrashAlone,
                       fixedVars
<1>4. CASE UNCHANGED allVars
  BY <1>4, PadKept DEF allVars, fixedVars
<1>5. CASE ExtendData \/ FixedCrash
  BY <1>5, PadExtend, PadCrash
<1>6. QED
  BY <1>1, <1>2, <1>3, <1>4, <1>5 DEF FixedNext, FixedStep

LEMMA PadSays == ASSUME FixedInv, PadInv PROVE PaddedOnce
<1>1. SUFFICES ASSUME Returned
               PROVE  /\ Len(ds) % leaf_num = 0
                      /\ \E n \in LeafNums : Cardinality(PadBlocks) < RoundUp(n)
  BY DEF PaddedOnce
<1>2. /\ phase = "none" /\ leaf_num # 0 /\ short = 0 /\ leaf_num \in Nat /\ parts \in Nat
      /\ ds \in Seq(Elem) /\ Len(ds) \in Nat /\ Len(ds) + short = parts * leaf_num
  BY <1>1, FixedFacts DEF Returned, FixedInv
<1>3. PICK a \in Nat : a = Len(ds)
  BY <1>2
<1>4. Len(ds) % leaf_num = 0
  <2>1. a = parts * leaf_num
    BY <1>2, <1>3
  <2>2. QED
    BY <1>2, <1>3, <2>1, Remainder
<1>5. PICK m \in 0 .. a : Rows(ds, m) /\ Roomy(m, a)
  <2>1. Len(ds) + short = a
    BY <1>2, <1>3
  <2>2. QED
    BY <1>2, <1>3, <2>1 DEF PadInv
<1>6. PICK n \in LeafNums : RoomFor(m, a, RoundUp(n))
  BY <1>5 DEF Roomy
<1>7. PICK p \in Nat \ {0} : p = RoundUp(n)
  BY RoundUpPositive
<1>8. a - m < p /\ 0 < p
  <2>1. PICK x \in Nat : a <= x * p /\ x * p < m + p
    BY <1>6, <1>7 DEF RoomFor
  <2>2. x * p \in Nat
    BY <1>7, Products
  <2>3. QED
    BY <1>7, <2>1, <2>2
<1>9. PadBlocks = (m + 1) .. a
  <2>1. ASSUME NEW k \in 1 .. a PROVE ds[k].pn = NoPage <=> k \in m + 1 .. a
    BY <1>3, <1>5 DEF Rows
  <2>2. QED
    BY <1>3, <2>1 DEF PadBlocks
<1>10. Cardinality(PadBlocks) = IF m + 1 > a THEN 0 ELSE a - (m + 1) + 1
  BY <1>9, FS_Interval
<1>11. Cardinality(PadBlocks) < p
  BY <1>8, <1>10
<1>12. QED
  BY <1>4, <1>7, <1>11

(* However often a call is cut and repeated, also with other part sizes, a *)
(* data set that had no padding to begin with is padded to the next        *)
(* multiple of one of them and never beyond.                               *)
THEOREM PaddingOnce == ASSUME NoPadding PROVE FixedSpec => []PaddedOnce
<1>1. FixedInit => FixedInv /\ PadInv
  BY FixedInitInv, PadInit
<1>2. FixedInv /\ PadInv /\ [FixedNext]_allVars => FixedInv' /\ PadInv'
  BY FixedNextInv, PadNext
<1>3. FixedInv /\ PadInv => PaddedOnce
  BY PadSays
<1>4. QED
  BY <1>1, <1>2, <1>3, PTL DEF FixedSpec

-----------------------------------------------------------------------------
(* The backward search by hash.  Digests of one length without a zero byte *)
(* are combined to hashes whose length gives the level away.               *)
HashLen(m) == [k \in Nat |-> (m + 1) * Pow2[k] - 1]

Sized(h, level, m) == h \in Hash /\ NoZero(h) /\ Len(h) = HashLen(m)[level]

LEMMA HashLens ==
    ASSUME NEW m \in Nat
    PROVE  /\ HashLen(m)[0] = m
           /\ \A k \in Nat : /\ HashLen(m)[k] \in Nat
                             /\ HashLen(m)[k + 1] = 2 * HashLen(m)[k] + 1
           /\ \A j, k \in Nat : HashLen(m)[j] = HashLen(m)[k] => j = k
<1> DEFINE u == HashLen(m)
<1>1. u[0] = m
  <2>1. u[0] = (m + 1) * 1 - 1
    BY Pow2Unfolds DEF HashLen
  <2>2. QED
    BY <2>1
<1>2. ASSUME NEW k \in Nat PROVE u[k] \in Nat /\ u[k + 1] = 2 * u[k] + 1
  <2>1. PICK x \in Nat \ {0} : x = Pow2[k]
    BY Pow2Unfolds
  <2>2. Pow2[k + 1] = 2 * x
    BY <2>1, Pow2Unfolds
  <2>3. u[k] = (m + 1) * x - 1 /\ u[k + 1] = (m + 1) * (2 * x) - 1
    BY <2>1, <2>2 DEF HashLen
  <2>4. PICK y \in Nat : y = (m + 1) * x /\ y >= 1
    <3>1. (m + 1) * x \in Nat
      OBVIOUS
    <3>2. (m + 1) * x >= 1
      OBVIOUS
    <3>3. QED
      BY <3>1, <3>2
  <2>5. (m + 1) * (2 * x) = 2 * ((m + 1) * x)
    OBVIOUS
  <2>6. QED
    BY <2>3, <2>4, <2>5
<1> HIDE DEF u
<1>3. ASSUME NEW j \in Nat, NEW k \in Nat, j < k PROVE u[j] < u[k]
  <2> DEFINE S == {t \in Nat : u[j + 1 + t] > u[j]}
  <2>1. 0 \in S
    <3>1. u[j + 1] = 2 * u[j] + 1 /\ u[j] \in Nat /\ j + 1 + 0 = j + 1
      BY <1>2
    <3>2. QED
      BY <3>1
  <2>2. ASSUME NEW t \in Nat, t \in S PROVE t + 1 \in S
    <3>1. PICK y \in Nat : y = j + 1 + t
      OBVIOUS
    <3>2. u[y] \in Nat /\ u[y + 1] = 2 * u[y] + 1 /\ u[j] \in Nat
      BY <1>2
    <3>3. u[y] > u[j] /\ y + 1 = j + 1 + (t + 1)
      BY <2>2, <3>1
    <3>4. QED
      BY <3>2, <3>3
  <2> HIDE DEF S
  <2>3. Nat \subseteq S
    BY <2>1, <2>2, NatInduct
  <2>4. k - j - 1 \in Nat /\ j + 1 + (k - j - 1) = k
    BY <1>3
  <2>5. u[j + 1 + (k - j - 1)] > u[j]
    BY <2>3, <2>4 DEF S
  <2>6. u[j] \in Nat /\ u[k] \in Nat /\ u[k] > u[j]
    BY <1>2, <2>4, <2>5
  <2>7. QED
    BY <2>6
<1>4. ASSUME NEW j \in Nat, NEW k \in Nat, u[j] = u[k] PROVE j = k
  <2>1. u[j] \in Nat /\ ~(u[j] < u[k]) /\ ~(u[k] < u[j])
    BY <1>2, <1>4
  <2>2. ~(j < k) /\ ~(k < j)
    BY <1>3, <2>1
  <2>3. QED
    BY <2>2
<1>5. QED
  BY <1>1, <1>2, <1>4 DEF u

LEMMA ConcatSplits ==
    ASSUME NEW a \in Hash, NEW b \in Hash, NEW c \in Hash, NEW d \in Hash,
           a \o b = c \o d, Len(a) = Len(c)
    PROVE  a = c /\ b = d
<1>1. PICK n \in Nat : n = Len(a) /\ n = Len(c)
  BY DEF Hash
<1>2. PICK s : s = a \o b
  OBVIOUS
<1>3. Len(b) \in Nat /\ Len(d) \in Nat
  BY DEF Hash
<1>a. a \in Seq(Byte) /\ b \in Seq(Byte) /\ c \in Seq(Byte) /\ d \in Seq(Byte)
  BY DEF Hash
<1>4. \A t \in 1 .. n + Len(b) : s[t] = IF t <= n THEN a[t] ELSE b[t - n]
  <2>1. \A t \in 1 .. Len(a) + Len(b) : (a \o b)[t] = IF t <= Len(a) THEN a[t] ELSE b[t - Len(a)]
    BY <1>a, ConcatProperties
  <2>2. QED
    BY <1>1, <1>2, <2>1
<1>5. \A t \in 1 .. n + Len(d) : s[t] = IF t <= n THEN c[t] ELSE d[t - n]
  <2>1. \A t \in 1 .. Len(c) + Len(d) : (c \o d)[t] = IF t <= Len(c) THEN c[t] ELSE d[t - Len(c)]
    BY <1>a, ConcatProperties
  <2>2. s = c \o d
    BY <1>2
  <2>3. QED
    BY <1>1, <2>1, <2>2
<1>6. ASSUME NEW t \in 1 .. n PROVE a[t] = c[t]
  <2>1. t \in 1 .. n + Len(b) /\ t \in 1 .. n + Len(d) /\ t <= n
    BY <1>3
  <2>2. QED
    BY <1>4, <1>5, <2>1
<1>7. a = c
  BY <1>1, <1>6, SeqEqual DEF Hash
<1>8. b = d
  <2>1. a \o b = a \o d
    BY <1>7
  <2>2. QED
    BY <2>1, ConcatSimplifications, Zenon DEF Hash
<1>9. QED
  BY <1>7, <1>8

LEMMA SizedJoin ==
    ASSUME NEW m \in Nat, NEW k \in Nat, NEW a, NEW b, Sized(a, k, m), Sized(b, k, m)
    PROVE  Sized(Combine(a, b), k + 1, m)
<1>1. a \in Hash /\ b \in Hash /\ NoZero(a) /\ NoZero(b)
  BY DEF Sized
<1>2. Combine(a, b) = <<Marker>> \o (a \o b) /\ NoZero(Combine(a, b))
  BY <1>1, CombineWhole
<1>3. a \o b \in Seq(Byte) /\ Len(a \o b) = Len(a) + Len(b)
  BY <1>1, ConcatProperties DEF Hash
<1>4. <<Marker>> \in Seq(Byte) /\ Len(<<Marker>>) = 1
  BY DEF Byte
<1>5. Len(Combine(a, b)) = 1 + (Len(a) + Len(b))
  BY <1>2, <1>3, <1>4, ConcatProperties
<1>6. Len(a) = HashLen(m)[k] /\ Len(b) = HashLen(m)[k]
      /\ HashLen(m)[k] \in Nat /\ HashLen(m)[k + 1] = 2 * HashLen(m)[k] + 1
  BY HashLens DEF Sized
<1>7. Len(Combine(a, b)) = HashLen(m)[k + 1]
  BY <1>5, <1>6
<1>8. QED
  BY <1>1, <1>2, <1>7, CombineType DEF Sized

LEMMA SizedSplit ==
    ASSUME NEW m \in Nat, NEW k \in Nat, NEW a, NEW b, NEW c, NEW d,
           Sized(a, k, m), Sized(b, k, m), Sized(c, k, m), Sized(d, k, m),
           Combine(a, b) = Combine(c, d)
    PROVE  a = c /\ b = d
<1>1. /\ a \in Hash /\ NoZero(a) /\ b \in Hash /\ NoZero(b)
      /\ c \in Hash /\ NoZero(c) /\ d \in Hash /\ NoZero(d)
      /\ Len(a) = Len(c)
  BY DEF Sized
<1>2. <<Marker>> \o (a \o b) = <<Marker>> \o (c \o d)
  <2>1. Combine(a, b) = <<Marker>> \o (a \o b)
    BY <1>1, CombineWhole
  <2>2. Combine(c, d) = <<Marker>> \o (c \o d)
    BY <1>1, CombineWhole
  <2>3. QED
    BY <2>1, <2>2
<1>3. <<Marker>> \in Seq(Byte) /\ a \o b \in Seq(Byte) /\ c \o d \in Seq(Byte)
  BY <1>1 DEF Hash, Byte
<1>4. a \o b = c \o d
  BY <1>2, <1>3, ConcatSimplifications, Zenon
<1>5. QED
  BY <1>1, <1>4, ConcatSplits

LEMMA SizedLevel ==
    ASSUME NEW m \in Nat, NEW j \in Nat, NEW k \in Nat, NEW h, Sized(h, j, m), Sized(h, k, m)
    PROVE  j = k
<1>1. HashLen(m)[j] = HashLen(m)[k]
  BY DEF Sized
<1>2. \A x, y \in Nat : HashLen(m)[x] = HashLen(m)[y] => x = y
  BY HashLens
<1>3. QED
  BY <1>1, <1>2

(* What the search asks of an input: its digests have one length and no    *)
(* zero byte, and no two pairs of leaves that are combined are alike.      *)
LeafHash(in, k) == LeafOf(in.kind, in.elems[k]).h

RowOf(in) == [k \in 1 .. Len(in.elems) |-> LeafHash(in, k)]

PairsDiffer(r, n) ==
    \A j, k \in Nat \ {0} :
        2 * j <= n /\ 2 * k <= n /\ r[2 * j - 1] = r[2 * k - 1] /\ r[2 * j] = r[2 * k]
            => j = k

RowSized(r, n, m) == \A k \in 1 .. n : Sized(r[k], 0, m)

Differ(in) ==
    /\ \E m \in Nat : RowSized(RowOf(in), Len(in.elems), m)
    /\ PairsDiffer(RowOf(in), Len(in.elems))

(* The invariant of the search.  Sizes tell levels; no other block has the *)
(* hash of an interior one; the blocks right above the leaves combine      *)
(* pairs of the first b leaves.                                            *)
BlocksSized(f, w, m) == \A p \in 1 .. w - 1 : f[p].lvl \in Nat /\ Sized(f[p].h, f[p].lvl, m)
NodesSized(s, n, m) == \A j \in 1 .. n : s[j].lvl \in Nat /\ Sized(s[j].h, s[j].lvl, m)

Once(f, w) == \A p, x \in 1 .. w - 1 : f[p].lvl > 0 /\ f[x].h = f[p].h => x = p

PairHash(r, j) == Combine(r[2 * j - 1], r[2 * j])

PairsTo(f, w, r, b) ==
    \A p \in 1 .. w - 1 :
        f[p].lvl = 1 => \E j \in Nat \ {0} : 2 * j <= b /\ f[p].h = PairHash(r, j)

(* The tail is a leaf that waits for another, when an odd number R of      *)
(* elements was read.                                                      *)
SearchRead(f, w, s, n, r, R) ==
    \/ n >= 1 /\ s[n].lvl = 0 /\ s[n].h = r[R] /\ R % 2 = 1 /\ PairsTo(f, w, r, R - 1)
    \/ ~(n >= 1 /\ s[n].lvl = 0) /\ R % 2 = 0 /\ PairsTo(f, w, r, R)

SearchCombine(f, w, s, n, r, R) ==
    \/ n >= 1 /\ ~(n >= 2 /\ s[n - 1].lvl = 0)
       /\ s[n].lvl = 0 /\ s[n].h = r[R] /\ R % 2 = 1 /\ PairsTo(f, w, r, R - 1)
    \/ n >= 2 /\ s[n - 1].lvl = 0 /\ s[n - 1].h = r[R - 1]
       /\ s[n].lvl = 0 /\ s[n].h = r[R] /\ R % 2 = 0 /\ R >= 2 /\ PairsTo(f, w, r, R - 1)
    \/ n >= 1 /\ s[n].lvl > 0 /\ R % 2 = 0 /\ PairsTo(f, w, r, R)

(* The tail is a parent whose block is still to be written.                *)
SearchParent(f, w, s, n, r, R) ==
    /\ n >= 1 /\ s[n].lvl > 0 /\ R % 2 = 0
    /\ \A p \in 1 .. w - 1 : f[p].h # s[n].h
    /\ \/ s[n].lvl = 1 /\ PairsTo(f, w, r, R - 1)
          /\ \E j \in Nat \ {0} : R = 2 * j /\ s[n].h = PairHash(r, j)
       \/ s[n].lvl # 1 /\ PairsTo(f, w, r, R)

ElemsRead == Len(job.elems) - Len(todo)

TodoLeft ==
    /\ Len(todo) <= Len(job.elems)
    /\ \A k \in 1 .. Len(todo) : todo[k] = job.elems[ElemsRead + k]

SearchAt ==
    LET n == Len(q)
        r == RowOf(job)
    IN  /\ stage \in {"read", "root"} => SearchRead(file, wpos, q, n, r, ElemsRead)
        /\ stage = "combine" => SearchCombine(file, wpos, q, n, r, ElemsRead)
        /\ stage \in {"left", "right", "parent"} =>
               SearchParent(file, wpos, q, n, r, ElemsRead)

SizesTold ==
    \E m \in Nat : /\ RowSized(RowOf(job), Len(job.elems), m)
                   /\ BlocksSized(file, wpos, m) /\ NodesSized(q, Len(q), m)

SearchInv ==
    stage \notin {"idle", "header"} =>
        Differ(job) /\ TodoLeft /\ SizesTold /\ Once(file, wpos) /\ SearchAt

(* The hash of a new parent is in no block yet: its right child's block,   *)
(* the last, would have to lie before its own.                             *)
LEMMA PairNew ==
    ASSUME NEW f, NEW w \in Nat, NEW n \in Nat, NEW s, NEW e, NEW k \in Nat, NEW m \in Nat,
           CombineAt(f, s, w, e, n), n > 1, s[n].lvl = k, s[n - 1].lvl = k,
           \A p \in 1 .. w - 1 : f[p].lcos \in Int /\ f[p].rcos \in Int,
           \A p \in 1 .. w - 1 : JoinsAt(f, p),
           BlocksSized(f, w, m), NodesSized(s, n, m), Once(f, w),
           NEW r, NEW R \in Nat, NEW z \in Nat, R <= z, RowSized(r, z, m), PairsDiffer(r, z),
           SearchCombine(f, w, s, n, r, R)
    PROVE  \A p \in 1 .. w - 1 : f[p].h # Combine(s[n - 1].h, s[n].h)
<1> DEFINE a == s[n - 1].h
           b == s[n].h
<1>1. Sized(a, k, m) /\ Sized(b, k, m)
  <2>1. n \in 1 .. n /\ n - 1 \in 1 .. n
    OBVIOUS
  <2>2. QED
    BY <2>1 DEF NodesSized
<1> SUFFICES ASSUME NEW p \in 1 .. w - 1, f[p].h = Combine(a, b) PROVE FALSE
  OBVIOUS
<1>2. f[p].lvl = k + 1
  <2>1. f[p].lvl \in Nat /\ Sized(f[p].h, f[p].lvl, m)
    BY DEF BlocksSized
  <2>2. Sized(f[p].h, k + 1, m)
    BY <1>1, SizedJoin
  <2>3. k + 1 \in Nat
    OBVIOUS
  <2>4. QED
    BY <2>1, <2>2, <2>3, SizedLevel
<1>3. CASE k = 0
  <2>1. s[n - 1].h = r[R - 1] /\ s[n].h = r[R] /\ R % 2 = 0 /\ R >= 2 /\ PairsTo(f, w, r, R - 1)
    BY <1>3 DEF SearchCombine
  <2>2. PICK t \in Nat \ {0} : R = 2 * t
    <3>1. R = 2 * (R \div 2) /\ R \div 2 \in Nat \ {0}
      BY <2>1
    <3>2. QED
      BY <3>1
  <2>3. PICK j \in Nat \ {0} : 2 * j <= R - 1 /\ f[p].h = Combine(r[2 * j - 1], r[2 * j])
    BY <1>2, <1>3, <2>1 DEF PairsTo, PairHash
  <2>4. Sized(r[2 * j - 1], 0, m) /\ Sized(r[2 * j], 0, m)
    <3>1. 2 * j - 1 \in 1 .. z /\ 2 * j \in 1 .. z
      BY <2>2, <2>3
    <3>2. QED
      BY <3>1 DEF RowSized
  <2>5. Combine(a, b) = Combine(r[2 * j - 1], r[2 * j]) /\ Sized(a, 0, m) /\ Sized(b, 0, m)
    BY <1>1, <1>3, <2>3
  <2>6. a = r[2 * j - 1] /\ b = r[2 * j]
    BY <2>4, <2>5, SizedSplit
  <2>7. r[2 * t - 1] = r[2 * j - 1] /\ r[2 * t] = r[2 * j]
    BY <2>1, <2>2, <2>6
  <2>8. t = j
    <3>1. 2 * t <= z /\ 2 * j <= z
      BY <2>2, <2>3
    <3>2. QED
      BY <2>7, <3>1 DEF PairsDiffer
  <2>9. QED
    BY <2>2, <2>3, <2>8
<1>4. CASE k # 0
  <2>1. PICK l, y : /\ l \in 1 .. p - 1 /\ y \in 1 .. p - 1
                    /\ f[l].lvl = k /\ f[y].lvl = k /\ f[p].h = Combine(f[l].h, f[y].h)
    <3>1. (k + 1) - 1 = k /\ k + 1 > 0
      OBVIOUS
    <3>2. JoinsAt(f, p)
      OBVIOUS
    <3>3. QED
      BY <1>2, <3>1, <3>2 DEF JoinsAt
  <2>2. l \in 1 .. w - 1 /\ y \in 1 .. w - 1
    BY <2>1
  <2>3. Sized(f[l].h, k, m) /\ Sized(f[y].h, k, m)
    BY <2>1, <2>2 DEF BlocksSized
  <2>4. f[y].h = b
    <3>1. Combine(a, b) = Combine(f[l].h, f[y].h)
      BY <2>1
    <3>2. QED
      BY <1>1, <2>3, <3>1, SizedSplit
  <2>5. Fits(f, w, w - 1, s[n])
    BY <1>4 DEF CombineAt, Fresh
  <2>6. w - 1 \in 1 .. w - 1 /\ f[w - 1].h = b /\ f[w - 1].lvl > 0
    BY <1>4, <2>5 DEF Fits
  <2>7. y = w - 1
    BY <2>2, <2>4, <2>6 DEF Once
  <2>8. QED
    BY <2>1, <2>7
<1>5. QED
  BY <1>3, <1>4

(* What a step leaves of the search: blocks keep level and hash, and a     *)
(* block that is added has a new hash, or is a leaf.                       *)
LEMMA SearchGrows ==
    ASSUME NEW f, NEW g, NEW w \in Nat, w >= 1, NEW v \in Nat, NEW m \in Nat, NEW n,
           Stays(f, g, w, v, n), BlocksSized(f, w, m), Once(f, w),
           n.lvl \in Nat, Sized(n.h, n.lvl, m),
           n.m_is_written \/ n.lvl = 0 \/ \A p \in 1 .. w - 1 : f[p].h # n.h
    PROVE  BlocksSized(g, v, m) /\ Once(g, v)
<1>1. \A x \in 1 .. w - 1 : g[x].lvl = f[x].lvl /\ g[x].h = f[x].h
  BY DEF Stays, Keeps
<1>2. CASE n.m_is_written /\ v = w
  BY <1>1, <1>2 DEF BlocksSized, Once
<1>3. CASE ~n.m_is_written /\ v = w + 1 /\ g[w].lvl = n.lvl /\ g[w].h = n.h
  <2>1. \A x \in 1 .. v - 1 : x \in 1 .. w - 1 \/ x = w
    BY <1>3
  <2>2. BlocksSized(g, v, m)
    BY <1>1, <1>3, <2>1 DEF BlocksSized
  <2>3. ASSUME NEW p \in 1 .. v - 1, NEW x \in 1 .. v - 1, g[p].lvl > 0, g[x].h = g[p].h
        PROVE  x = p
    <3>1. CASE p \in 1 .. w - 1 /\ x \in 1 .. w - 1
      BY <1>1, <2>3, <3>1 DEF Once
    <3>2. CASE p = w /\ x = w
      BY <3>2
    <3>3. CASE (p = w /\ x \in 1 .. w - 1) \/ (x = w /\ p \in 1 .. w - 1)
      <4>1. g[x].lvl = g[p].lvl
        <5>1. /\ g[x].lvl \in Nat /\ Sized(g[x].h, g[x].lvl, m)
              /\ g[p].lvl \in Nat /\ Sized(g[p].h, g[p].lvl, m)
          BY <2>2 DEF BlocksSized
        <5>2. Sized(g[x].h, g[p].lvl, m)
          BY <2>3, <5>1
        <5>3. QED
          BY <5>1, <5>2, SizedLevel
      <4>2. n.lvl > 0
        BY <1>3, <2>3, <3>3, <4>1
      <4>3. \A y \in 1 .. w - 1 : f[y].h # n.h
        BY <1>3, <4>2
      <4>4. QED
        BY <1>1, <1>3, <2>3, <3>3, <4>3
    <3>4. QED
      BY <2>1, <3>1, <3>2, <3>3
  <2>4. QED
    BY <2>2, <2>3 DEF Once
<1>4. QED
  BY <1>2, <1>3 DEF Stays

(* Blocks that are not right above the leaves change nothing of the pairs. *)
LEMMA PairsKept ==
    ASSUME NEW f, NEW g, NEW w \in Nat, NEW v \in Nat, NEW n, Stays(f, g, w, v, n),
           NEW r, NEW b \in Int, NEW c \in Int, b <= c, PairsTo(f, w, r, b),
           n.m_is_written \/ n.lvl # 1
           \/ \E j \in Nat \ {0} : 2 * j <= c /\ n.h = PairHash(r, j)
    PROVE  PairsTo(g, v, r, c)
<1>1. \A x \in 1 .. w - 1 : g[x].lvl = f[x].lvl /\ g[x].h = f[x].h
  BY DEF Stays, Keeps
<1> SUFFICES ASSUME NEW p \in 1 .. v - 1, g[p].lvl = 1
             PROVE  \E j \in Nat \ {0} : 2 * j <= c /\ g[p].h = PairHash(r, j)
  BY DEF PairsTo
<1>2. CASE p \in 1 .. w - 1
  <2>1. PICK j \in Nat \ {0} : 2 * j <= b /\ f[p].h = PairHash(r, j)
    BY <1>1, <1>2 DEF PairsTo
  <2>2. 2 * j <= c /\ g[p].h = PairHash(r, j)
    BY <1>1, <1>2, <2>1
  <2>3. QED
    BY <2>2
<1>3. CASE ~(p \in 1 .. w - 1)
  BY <1>3 DEF Stays
<1>4. QED
  BY <1>2, <1>3

LEMMA PairsMore ==
    ASSUME NEW f, NEW w, NEW r, NEW b \in Int, NEW c \in Int, b <= c, PairsTo(f, w, r, b)
    PROVE  PairsTo(f, w, r, c)
<1> SUFFICES ASSUME NEW p \in 1 .. w - 1, f[p].lvl = 1
             PROVE  \E j \in Nat \ {0} : 2 * j <= c /\ f[p].h = PairHash(r, j)
  BY DEF PairsTo
<1>1. PICK j \in Nat \ {0} : 2 * j <= b /\ f[p].h = PairHash(r, j)
  BY DEF PairsTo
<1>2. 2 * j <= c
  BY <1>1
<1>3. QED
  BY <1>1, <1>2

LEMMA SearchReads ==
    ASSUME NEW f, NEW w, NEW n \in Nat, NEW s, NEW t, NEW r, NEW R \in Nat,
           SearchRead(f, w, s, n, r, R), t[n + 1].lvl = 0, t[n + 1].h = r[R + 1],
           \A k \in 1 .. n : t[k] = s[k]
    PROVE  SearchCombine(f, w, t, n + 1, r, R + 1)
<1>1. (n + 1) - 1 = n /\ (R + 1) - 1 = R /\ n + 1 >= 1 /\ R - 1 \in Int /\ R - 1 <= R
  OBVIOUS
<1>2. CASE n >= 1 /\ s[n].lvl = 0 /\ s[n].h = r[R] /\ R % 2 = 1 /\ PairsTo(f, w, r, R - 1)
  <2>1. t[n] = s[n] /\ n + 1 >= 2
    BY <1>2
  <2>2. (R + 1) % 2 = 0 /\ R + 1 >= 2
    BY <1>2
  <2>3. PairsTo(f, w, r, R)
    BY <1>1, <1>2, PairsMore
  <2>4. QED
    BY <1>1, <1>2, <2>1, <2>2, <2>3 DEF SearchCombine
<1>3. CASE ~(n >= 1 /\ s[n].lvl = 0) /\ R % 2 = 0 /\ PairsTo(f, w, r, R)
  <2>1. ~(n + 1 >= 2 /\ t[n].lvl = 0)
    BY <1>3
  <2>2. (R + 1) % 2 = 1
    BY <1>3
  <2>3. QED
    BY <1>1, <1>3, <2>1, <2>2 DEF SearchCombine
<1>4. QED
  BY <1>2, <1>3 DEF SearchRead

LEMMA SearchPairs ==
    ASSUME NEW f, NEW w, NEW n \in Nat, n > 1, NEW s, NEW t, NEW r, NEW R \in Nat, NEW k \in Nat,
           SearchCombine(f, w, s, n, r, R), s[n].lvl = k, s[n - 1].lvl = k,
           t[n + 1].lvl = k + 1, t[n + 1].h = Combine(s[n - 1].h, s[n].h),
           \A p \in 1 .. w - 1 : f[p].h # Combine(s[n - 1].h, s[n].h)
    PROVE  SearchParent(f, w, t, n + 1, r, R)
<1>1. n + 1 >= 1 /\ k + 1 > 0 /\ \A p \in 1 .. w - 1 : f[p].h # t[n + 1].h
  OBVIOUS
<1>2. CASE k = 0
  <2>1. s[n - 1].h = r[R - 1] /\ s[n].h = r[R] /\ R % 2 = 0 /\ R >= 2 /\ PairsTo(f, w, r, R - 1)
    BY <1>2 DEF SearchCombine
  <2>2. PICK j \in Nat \ {0} : R = 2 * j
    <3>1. R = 2 * (R \div 2) /\ R \div 2 \in Nat \ {0}
      BY <2>1
    <3>2. QED
      BY <3>1
  <2>3. t[n + 1].h = PairHash(r, j) /\ t[n + 1].lvl = 1
    BY <1>2, <2>1, <2>2 DEF PairHash
  <2>4. QED
    BY <1>1, <2>1, <2>2, <2>3 DEF SearchParent
<1>3. CASE k # 0
  <2>1. R % 2 = 0 /\ PairsTo(f, w, r, R) /\ t[n + 1].lvl # 1
    BY <1>3 DEF SearchCombine
  <2>2. QED
    BY <1>1, <2>1 DEF SearchParent
<1>4. QED
  BY <1>2, <1>3

LEMMA SearchTakes ==
    ASSUME NEW f, NEW g, NEW w \in Nat, w >= 1, NEW v \in Nat, NEW n \in Nat, n >= 2, NEW s, NEW t,
           NEW r, NEW R \in Nat, NEW m \in Nat, NEW c, SearchParent(f, w, s, n, r, R),
           Stays(f, g, w, v, c), c.m_is_written \/ c.lvl = 0,
           c.lvl \in Nat, Sized(c.h, c.lvl, m), s[n].lvl \in Nat, Sized(s[n].h, s[n].lvl, m),
           t[n - 1] = s[n]
    PROVE  SearchParent(g, v, t, n - 1, r, R)
<1>1. /\ s[n].lvl > 0 /\ R % 2 = 0 /\ n - 1 >= 1 /\ R - 1 \in Int /\ R \in Int
      /\ \A p \in 1 .. w - 1 : f[p].h # s[n].h
  BY DEF SearchParent
<1>2. ASSUME NEW p \in 1 .. v - 1 PROVE g[p].h # s[n].h
  <2>1. CASE p \in 1 .. w - 1
    BY <1>1, <2>1 DEF Stays, Keeps
  <2>2. CASE ~(p \in 1 .. w - 1)
    <3>1. p = w /\ g[p].h = c.h /\ c.lvl = 0
      BY <2>2 DEF Stays
    <3>2. c.h # s[n].h
      BY <1>1, <3>1, SizedLevel
    <3>3. QED
      BY <3>1, <3>2
  <2>3. QED
    BY <2>1, <2>2
<1>3. c.m_is_written \/ c.lvl # 1
  OBVIOUS
<1>4. \A b \in Int : PairsTo(f, w, r, b) => PairsTo(g, v, r, b)
  BY <1>3, PairsKept
<1>5. QED
  BY <1>1, <1>2, <1>4 DEF SearchParent

LEMMA SearchWrites ==
    ASSUME NEW f, NEW g, NEW w \in Nat, w >= 1, NEW v \in Nat, NEW n \in Nat, NEW s, NEW t,
           NEW r, NEW R \in Nat, NEW c, SearchParent(f, w, s, n, r, R),
           Stays(f, g, w, v, c), c.lvl = s[n].lvl, c.h = s[n].h, t[n].lvl = s[n].lvl
    PROVE  SearchCombine(g, v, t, n, r, R)
<1>1. n >= 1 /\ s[n].lvl > 0 /\ R % 2 = 0 /\ R - 1 \in Int /\ R \in Int /\ R - 1 <= R
  BY DEF SearchParent
<1>2. PairsTo(g, v, r, R)
  <2>1. CASE /\ s[n].lvl = 1 /\ PairsTo(f, w, r, R - 1)
             /\ \E j \in Nat \ {0} : R = 2 * j /\ s[n].h = PairHash(r, j)
    <3>1. \E j \in Nat \ {0} : 2 * j <= R /\ c.h = PairHash(r, j)
      BY <2>1
    <3>2. QED
      BY <1>1, <2>1, <3>1, PairsKept
  <2>2. CASE s[n].lvl # 1 /\ PairsTo(f, w, r, R)
    BY <1>1, <2>2, PairsKept
  <2>3. QED
    BY <2>1, <2>2 DEF SearchParent
<1>3. QED
  BY <1>1, <1>2 DEF SearchCombine

LEMMA SearchEnds ==
    ASSUME NEW f, NEW w, NEW n \in Nat, NEW s, NEW r, NEW R \in Nat,
           SearchCombine(f, w, s, n, r, R), ~(n > 1 /\ s[n].lvl = s[n - 1].lvl)
    PROVE  SearchRead(f, w, s, n, r, R)
BY DEF SearchCombine, SearchRead

-----------------------------------------------------------------------------
(* The steps of the builder.                                               *)
LEMMA SearchStart ==
    ASSUME NEW in, GoodInput(in), Differ(in), StartBuild(in) PROVE SearchInv'
<1>1. /\ q' = <<>> /\ wpos' = 1 /\ stage' = "read" /\ job' = in /\ todo' = in.elems
  BY DEF StartBuild
<1>2. Len(in.elems) \in Nat /\ Len(in.elems) - Len(in.elems) = 0 /\ Len(q') = 0
  BY <1>1 DEF GoodInput
<1>3. ElemsRead' = 0
  BY <1>1, <1>2 DEF ElemsRead
<1>4. TodoLeft'
  BY <1>1, <1>2, <1>3 DEF TodoLeft
<1>5. PICK m \in Nat : RowSized(RowOf(in), Len(in.elems), m)
  BY DEF Differ
<1>6. SizesTold'
  <2>1. BlocksSized(file', wpos', m) /\ NodesSized(q', Len(q'), m)
    BY <1>1, <1>2 DEF BlocksSized, NodesSized
  <2>2. RowSized(RowOf(job'), Len(job'.elems), m)
    BY <1>1, <1>5
  <2>3. QED
    BY <2>1, <2>2 DEF SizesTold
<1>7. Once(file', wpos')
  BY <1>1 DEF Once
<1>8. SearchAt'
  <2>1. PairsTo(file', wpos', RowOf(job'), 0) /\ 0 % 2 = 0
    BY <1>1 DEF PairsTo
  <2>2. SearchRead(file', wpos', q', Len(q'), RowOf(job'), 0)
    BY <1>2, <2>1 DEF SearchRead
  <2>3. QED
    BY <1>1, <1>3, <2>2 DEF SearchAt
<1>9. Differ(job')
  BY <1>1
<1>10. QED
  BY <1>4, <1>6, <1>7, <1>8, <1>9 DEF SearchInv

LEMMA SearchFacts ==
    ASSUME ExInv, SearchInv, stage \notin {"idle", "header"}
    PROVE  /\ TypeOK /\ Differ(job) /\ TodoLeft /\ SizesTold /\ Once(file, wpos) /\ SearchAt
           /\ Joins /\ job.elems \in Seq(Elem) /\ Len(job.elems) \in Nat /\ Len(todo) \in Nat
           /\ ElemsRead \in Nat /\ ElemsRead <= Len(job.elems)
           /\ wpos \in Nat /\ wpos >= 1 /\ q \in Seq(XNode) /\ Len(q) \in Nat
<1>1. /\ TypeOK /\ Differ(job) /\ TodoLeft /\ SizesTold /\ Once(file, wpos) /\ SearchAt
      /\ Joins /\ job.elems \in Seq(Elem)
  BY DEF ExInv, SearchInv
<1>2. wpos \in Nat /\ wpos >= 1 /\ q \in Seq(XNode) /\ Len(q) \in Nat /\ todo \in Seq(Elem)
  BY <1>1, Facts
<1>3. Len(job.elems) \in Nat /\ Len(todo) \in Nat /\ Len(todo) <= Len(job.elems)
  BY <1>1, <1>2 DEF TodoLeft
<1>4. ElemsRead \in Nat /\ ElemsRead <= Len(job.elems)
  BY <1>3 DEF ElemsRead
<1>5. QED
  BY <1>1, <1>2, <1>3, <1>4

LEMMA SearchRead1 == ASSUME ExInv, SearchInv, ReadElem PROVE SearchInv'
<1>1. stage = "read" /\ todo # <<>> /\ todo \in Seq(Elem)
  BY Facts DEF ExInv, ReadElem
<1>2. /\ TypeOK /\ Differ(job) /\ TodoLeft /\ SizesTold /\ Once(file, wpos) /\ SearchAt
      /\ job.elems \in Seq(Elem) /\ Len(job.elems) \in Nat /\ Len(todo) \in Nat
      /\ ElemsRead \in Nat /\ q \in Seq(XNode) /\ Len(q) \in Nat
  BY <1>1, SearchFacts
<1>3. PICK x : x = LeafOf(job.kind, Head(todo))
  OBVIOUS
<1>4. /\ q' = Append(q, x) /\ UNCHANGED <<file, hdr, wpos, glob, job>> /\ todo' = Tail(todo)
      /\ stage' = "combine"
  BY <1>3 DEF ReadElem
<1>5. PICK R \in Nat : R = ElemsRead
  BY <1>2
<1>6. PICK r : r = RowOf(job)
  OBVIOUS
<1>7. PICK z \in Nat : z = Len(job.elems)
  BY <1>2
<1>8. PICK y \in Nat : y = Len(todo) /\ y >= 1
  BY <1>1, <1>2
<1>9. R = z - y /\ R + 1 \in 1 .. z /\ R + 1 <= z
  BY <1>2, <1>5, <1>7, <1>8 DEF ElemsRead, TodoLeft
<1>10. Head(todo) = job.elems[R + 1]
  <2>1. todo[1] = job.elems[R + 1]
    BY <1>2, <1>5, <1>8 DEF TodoLeft
  <2>2. Head(todo) = todo[1]
    BY <1>1
  <2>3. QED
    BY <2>1, <2>2
<1>11. x.h = r[R + 1]
  BY <1>3, <1>6, <1>7, <1>9, <1>10 DEF RowOf, LeafHash
<1>12. x \in XNode /\ x.lvl = 0
  <2>1. Head(todo) \in Elem
    BY <1>1
  <2>2. QED
    BY <1>3, <2>1, LeafFacts
<1>13. PICK n \in Nat : n = Len(q)
  BY <1>2
<1>14. PICK t : t = q'
  OBVIOUS
<1>15. t \in Seq(XNode) /\ Len(t) = n + 1 /\ t[n + 1] = x /\ \A k \in 1 .. n : t[k] = q[k]
  BY <1>2, <1>4, <1>12, <1>13, <1>14, Appended
<1>16. Len(todo') = y - 1 /\ \A k \in 1 .. y - 1 : todo'[k] = todo[k + 1]
  BY <1>1, <1>4, <1>8
<1>17. ElemsRead' = R + 1
  <2>1. ElemsRead' = z - (y - 1)
    <3>1. Len(job'.elems) = z
      BY <1>4, <1>7
    <3>2. QED
      BY <1>16, <3>1 DEF ElemsRead
  <2>2. QED
    BY <1>9, <2>1
<1>18. TodoLeft'
  <2>1. ASSUME NEW k \in 1 .. y - 1 PROVE todo'[k] = job.elems[(R + 1) + k]
    <3>1. k + 1 \in 1 .. y /\ R + (k + 1) = (R + 1) + k
      OBVIOUS
    <3>2. todo[k + 1] = job.elems[R + (k + 1)]
      BY <1>2, <1>5, <1>8, <3>1 DEF TodoLeft
    <3>3. QED
      BY <1>16, <3>1, <3>2
  <2>2. y - 1 <= z
    BY <1>9
  <2>3. QED
    BY <1>4, <1>7, <1>16, <1>17, <2>1, <2>2 DEF TodoLeft
<1>19. SizesTold'
  <2>1. PICK m \in Nat : /\ RowSized(r, z, m) /\ BlocksSized(file, wpos, m)
                         /\ NodesSized(q, n, m)
    BY <1>2, <1>6, <1>7, <1>13 DEF SizesTold
  <2>2. ASSUME NEW k \in 1 .. n + 1 PROVE t[k].lvl \in Nat /\ Sized(t[k].h, t[k].lvl, m)
    <3>1. CASE k = n + 1
      <4>1. Sized(r[R + 1], 0, m)
        BY <1>9, <2>1 DEF RowSized
      <4>2. QED
        BY <1>11, <1>12, <1>15, <3>1, <4>1
    <3>2. CASE k # n + 1
      BY <1>15, <2>1, <3>2 DEF NodesSized
    <3>3. QED
      BY <3>1, <3>2
  <2>3. NodesSized(q', Len(q'), m)
    BY <1>14, <1>15, <2>2 DEF NodesSized
  <2>4. RowSized(RowOf(job'), Len(job'.elems), m) /\ BlocksSized(file', wpos', m)
    BY <1>4, <1>6, <1>7, <2>1
  <2>5. QED
    BY <2>3, <2>4 DEF SizesTold
<1>20. SearchAt'
  <2>1. SearchRead(file, wpos, q, n, r, R)
    BY <1>1, <1>2, <1>5, <1>6, <1>13 DEF SearchAt
  <2>2. SearchCombine(file, wpos, t, n + 1, r, R + 1)
    BY <1>11, <1>12, <1>15, <2>1, SearchReads
  <2>3. SearchCombine(file', wpos', q', Len(q'), RowOf(job'), ElemsRead')
    BY <1>4, <1>6, <1>14, <1>15, <1>17, <2>2
  <2>4. QED
    BY <1>4, <2>3 DEF SearchAt
<1>21. Differ(job') /\ Once(file', wpos')
  BY <1>2, <1>4
<1>22. QED
  BY <1>18, <1>19, <1>20, <1>21 DEF SearchInv

LEMMA SearchPair1 == ASSUME ExInv, SearchInv, Pair PROVE SearchInv'
<1>1. stage = "combine" /\ MustCombine
  BY DEF Pair
<1>2. /\ TypeOK /\ Differ(job) /\ TodoLeft /\ SizesTold /\ Once(file, wpos) /\ SearchAt
      /\ Joins /\ job.elems \in Seq(Elem) /\ Len(job.elems) \in Nat
      /\ ElemsRead \in Nat /\ ElemsRead <= Len(job.elems)
      /\ wpos \in Nat /\ q \in Seq(XNode) /\ Len(q) \in Nat
  BY <1>1, SearchFacts
<1>3. PICK n \in Nat : n = Len(q)
  BY <1>2
<1>4. n > 1 /\ q[n].lvl = q[n - 1].lvl /\ n \in 1 .. n /\ n - 1 \in 1 .. n
  BY <1>1, <1>3 DEF MustCombine
<1>5. q[n] \in XNode /\ q[n - 1] \in XNode
  BY <1>2, <1>3, <1>4
<1>6. PICK k \in Nat : k = q[n].lvl
  BY <1>5, NodeTypes
<1>7. PICK p : p = Joined(q[n - 1], q[n])
  OBVIOUS
<1>8. p \in XNode /\ p.lvl = k + 1 /\ p.h = Combine(q[n - 1].h, q[n].h)
  BY <1>4, <1>5, <1>6, <1>7, JoinedFacts
<1>9. PICK x \in XNode : x = Linked(q[n - 1], p, LeftDistance(k)) /\ Alike(x, q[n - 1])
  <2>1. LeftDistance(k) \in Int
    BY TreeSizes
  <2>2. PICK l \in XNode : l = q[n - 1]
    BY <1>5
  <2>3. Linked(l, p, LeftDistance(k)) \in XNode /\ Alike(Linked(l, p, LeftDistance(k)), l)
    BY ONLY <1>8, <2>1, LinkedFacts
  <2>4. QED
    BY <2>2, <2>3
<1>10. PICK y \in XNode : y = Linked(q[n], p, 1) /\ Alike(y, q[n])
  <2>1. 1 \in Int
    OBVIOUS
  <2>2. PICK l \in XNode : l = q[n]
    BY <1>5
  <2>3. Linked(l, p, 1) \in XNode /\ Alike(Linked(l, p, 1), l)
    BY ONLY <1>8, <2>1, LinkedFacts
  <2>4. QED
    BY <2>2, <2>3
<1>11. PICK t : t = q'
  OBVIOUS
<1>12. t = SubSeq(q, 1, n - 2) \o <<x, y>> \o <<p>>
  BY <1>3, <1>4, <1>6, <1>7, <1>9, <1>10, <1>11 DEF Pair, LinkedTo
<1>13. UNCHANGED <<file, hdr, wpos, glob, job, todo>> /\ stage' = "left"
  BY DEF Pair
<1>14. PICK s \in Seq(XNode) : s = q
  BY <1>2
<1>15. /\ Len(t) = n + 1 /\ \A j \in 1 .. n - 2 : t[j] = s[j]
       /\ t[n - 1] = x /\ t[n] = y /\ t[n + 1] = p
  <2>1. n = Len(s) /\ n >= 2
    BY <1>3, <1>4, <1>14
  <2>2. t = TwoReplaced(s, n, x, y, p)
    BY <1>12, <1>14 DEF TwoReplaced
  <2>3. TwoToThree(s, n, x, y, p, t)
    BY ONLY <1>8, <1>9, <1>10, <2>1, <2>2, TwoToThreeFacts
  <2>4. QED
    BY <2>3 DEF TwoToThree
<1>16. PICK R \in Nat : R = ElemsRead
  BY <1>2
<1>17. PICK r : r = RowOf(job)
  OBVIOUS
<1>18. PICK z \in Nat : z = Len(job.elems) /\ R <= z
  BY <1>2, <1>16
<1>19. PICK m \in Nat : RowSized(r, z, m) /\ BlocksSized(file, wpos, m) /\ NodesSized(s, n, m)
  BY <1>2, <1>3, <1>14, <1>17, <1>18 DEF SizesTold
<1>20. PICK w \in Nat : w = wpos
  BY <1>2
<1>21. PICK f : f = file
  OBVIOUS
<1>22. PICK e : CombineAt(f, s, w, e, n)
  BY <1>1, <1>3, <1>14, <1>20, <1>21 DEF ExInv, StageInv
<1>23. SearchCombine(f, w, s, n, r, R)
  BY <1>1, <1>2, <1>3, <1>14, <1>16, <1>17, <1>20, <1>21 DEF SearchAt
<1>24. \A b \in 1 .. w - 1 : f[b].h # Combine(s[n - 1].h, s[n].h)
  <2>1. \A b \in 1 .. w - 1 : f[b].lcos \in Int /\ f[b].rcos \in Int
    BY <1>2, <1>20, <1>21, Facts
  <2>2. \A b \in 1 .. w - 1 : JoinsAt(f, b)
    BY <1>2, <1>20, <1>21 DEF Joins
  <2>3. BlocksSized(f, w, m) /\ Once(f, w) /\ PairsDiffer(r, z)
    BY <1>2, <1>17, <1>18, <1>19, <1>20, <1>21 DEF Differ
  <2>4. n > 1 /\ s[n].lvl = k /\ s[n - 1].lvl = k
    BY <1>4, <1>6, <1>14
  <2>5. QED
    BY ONLY <1>18, <1>19, <1>22, <1>23, <2>1, <2>2, <2>3, <2>4, PairNew
<1>25. SearchParent(f, w, t, n + 1, r, R)
  <2>1. n > 1 /\ s[n].lvl = k /\ s[n - 1].lvl = k
    BY <1>4, <1>6, <1>14
  <2>2. t[n + 1].lvl = k + 1 /\ t[n + 1].h = Combine(s[n - 1].h, s[n].h)
    BY <1>8, <1>14, <1>15
  <2>3. QED
    BY ONLY <1>23, <1>24, <2>1, <2>2, SearchPairs
<1>26. SizesTold'
  <2>1. ASSUME NEW j \in 1 .. n + 1 PROVE t[j].lvl \in Nat /\ Sized(t[j].h, t[j].lvl, m)
    <3>1. CASE j \in 1 .. n - 2
      BY <1>15, <1>19, <3>1 DEF NodesSized
    <3>2. CASE j = n - 1 \/ j = n
      <4>1. /\ s[n].lvl \in Nat /\ Sized(s[n].h, s[n].lvl, m)
            /\ s[n - 1].lvl \in Nat /\ Sized(s[n - 1].h, s[n - 1].lvl, m)
        BY <1>4, <1>19 DEF NodesSized
      <4>2. QED
        BY <1>9, <1>10, <1>14, <1>15, <3>2, <4>1 DEF Alike
    <3>3. CASE j = n + 1
      <4>1. Sized(s[n].h, k, m) /\ Sized(s[n - 1].h, k, m)
        BY <1>4, <1>6, <1>14, <1>19 DEF NodesSized
      <4>2. Sized(p.h, k + 1, m)
        BY <1>8, <1>14, <4>1, SizedJoin
      <4>3. QED
        BY <1>8, <1>15, <3>3, <4>2
    <3>4. QED
      BY <1>4, <3>1, <3>2, <3>3
  <2>2. NodesSized(q', Len(q'), m)
    BY <1>11, <1>15, <2>1 DEF NodesSized
  <2>3. RowSized(RowOf(job'), Len(job'.elems), m) /\ BlocksSized(file', wpos', m)
    BY <1>13, <1>17, <1>18, <1>19
  <2>4. QED
    BY <2>2, <2>3 DEF SizesTold
<1>27. ElemsRead' = R
  BY <1>13, <1>16 DEF ElemsRead
<1>28. SearchAt'
  <2>1. SearchParent(file', wpos', q', Len(q'), RowOf(job'), ElemsRead')
    BY <1>11, <1>13, <1>15, <1>17, <1>20, <1>21, <1>25, <1>27
  <2>2. QED
    BY <1>13, <2>1 DEF SearchAt
<1>29. Differ(job') /\ Once(file', wpos') /\ TodoLeft'
  BY <1>2, <1>13 DEF TodoLeft, ElemsRead
<1>30. QED
  BY <1>26, <1>28, <1>29 DEF SearchInv

(* Either child is taken.                                                  *)
LEMMA SearchTake1 ==
    ASSUME ExInv, SearchInv, stage \in {"left", "right"}, NEW c \in 1 .. Len(q) - 1,
           q[c].m_is_written \/ q[c].lvl = 0, NEW next \in {"right", "parent"}, Take(c, next)
    PROVE  SearchInv'
<1>1. /\ TypeOK /\ Differ(job) /\ TodoLeft /\ SizesTold /\ Once(file, wpos) /\ SearchAt
      /\ wpos \in Nat /\ wpos >= 1 /\ q \in Seq(XNode) /\ Len(q) \in Nat /\ ElemsRead \in Nat
  BY SearchFacts
<1>2. PICK n \in Nat : n = Len(q)
  BY <1>1
<1>3. n >= 2 /\ c \in 1 .. n /\ n \in 1 .. n /\ n - 1 \in c .. n - 1
  BY <1>2
<1>4. PICK s \in Seq(XNode) : s = q
  BY <1>1
<1>5. PICK t : t = q'
  OBVIOUS
<1>6. TakenOut(s, n, c, t)
  <2>1. t = SubSeq(s, 1, c - 1) \o SubSeq(s, c + 1, Len(s)) /\ n = Len(s)
    BY <1>2, <1>4, <1>5 DEF Take, Without
  <2>2. QED
    BY ONLY <1>3, <2>1, TakenOutFacts
<1>7. UNCHANGED <<hdr, job, todo>> /\ stage' = next
  BY DEF Take
<1>8. file' \in [Pos -> Block] /\ wpos' \in 1 .. MaxPos + 1 /\ Stays(file, file', wpos, wpos', q[c])
  <2>1. c \in 1 .. Len(q)
    BY <1>2, <1>3
  <2>2. QED
    BY <1>1, <2>1, TakeFacts
<1>9. PICK v \in Nat : v = wpos'
  BY <1>8, DiskAssumption
<1>10. PICK w \in Nat : w = wpos /\ w >= 1
  BY <1>1
<1>11. PICK f : f = file
  OBVIOUS
<1>12. PICK g : g = file'
  OBVIOUS
<1>13. Stays(f, g, w, v, s[c])
  BY <1>4, <1>8, <1>9, <1>10, <1>11, <1>12
<1>14. PICK m \in Nat : /\ RowSized(RowOf(job), Len(job.elems), m)
                        /\ BlocksSized(f, w, m) /\ NodesSized(s, n, m)
  BY <1>1, <1>2, <1>4, <1>10, <1>11 DEF SizesTold
<1>15. /\ s[c].lvl \in Nat /\ Sized(s[c].h, s[c].lvl, m)
       /\ s[n].lvl \in Nat /\ Sized(s[n].h, s[n].lvl, m)
       /\ (s[c].m_is_written \/ s[c].lvl = 0)
  BY <1>3, <1>4, <1>14 DEF NodesSized
<1>16. BlocksSized(g, v, m) /\ Once(g, v)
  <2>1. Once(f, w)
    BY <1>1, <1>10, <1>11
  <2>2. QED
    BY ONLY <1>10, <1>13, <1>14, <1>15, <2>1, SearchGrows
<1>17. Len(t) = n - 1 /\ t[n - 1] = s[n]
  <2>1. t[n - 1] = s[(n - 1) + 1] /\ (n - 1) + 1 = n
    BY <1>3, <1>6 DEF TakenOut
  <2>2. QED
    BY <1>6, <2>1 DEF TakenOut
<1>18. NodesSized(t, n - 1, m)
  <2>1. ASSUME NEW j \in 1 .. n - 1 PROVE t[j].lvl \in Nat /\ Sized(t[j].h, t[j].lvl, m)
    <3>1. CASE j \in 1 .. c - 1
      <4>1. t[j] = s[j] /\ j \in 1 .. n
        BY <1>6, <3>1 DEF TakenOut
      <4>2. QED
        BY <1>14, <4>1 DEF NodesSized
    <3>2. CASE ~(j \in 1 .. c - 1)
      <4>1. j \in c .. n - 1 /\ j + 1 \in 1 .. n
        BY <1>3, <3>2
      <4>2. t[j] = s[j + 1]
        BY <1>6, <4>1 DEF TakenOut
      <4>3. QED
        BY <1>14, <4>1, <4>2 DEF NodesSized
    <3>3. QED
      BY <3>1, <3>2
  <2>2. QED
    BY <2>1 DEF NodesSized
<1>19. SizesTold'
  <2>1. BlocksSized(file', wpos', m) /\ NodesSized(q', Len(q'), m)
    BY <1>5, <1>9, <1>12, <1>16, <1>17, <1>18
  <2>2. RowSized(RowOf(job'), Len(job'.elems), m)
    BY <1>7, <1>14
  <2>3. QED
    BY <2>1, <2>2 DEF SizesTold
<1>20. PICK R \in Nat : R = ElemsRead
  BY <1>1
<1>21. PICK r : r = RowOf(job)
  OBVIOUS
<1>22. ElemsRead' = R
  BY <1>7, <1>20 DEF ElemsRead
<1>23. SearchAt'
  <2>1. SearchParent(f, w, s, n, r, R)
    BY <1>1, <1>2, <1>4, <1>10, <1>11, <1>20, <1>21 DEF SearchAt
  <2>2. SearchParent(g, v, t, n - 1, r, R)
    BY ONLY <1>3, <1>10, <1>13, <1>14, <1>15, <1>17, <2>1, SearchTakes
  <2>3. SearchParent(file', wpos', q', Len(q'), RowOf(job'), ElemsRead')
    BY <1>5, <1>7, <1>9, <1>12, <1>17, <1>21, <1>22, <2>2
  <2>4. QED
    BY <1>7, <2>3 DEF SearchAt
<1>24. Differ(job') /\ Once(file', wpos') /\ TodoLeft'
  BY <1>1, <1>7, <1>9, <1>12, <1>16 DEF TodoLeft, ElemsRead
<1>25. QED
  BY <1>19, <1>23, <1>24 DEF SearchInv

LEMMA SearchLeft1 == ASSUME ExInv, SearchInv, TakeLeft PROVE SearchInv'
<1>1. stage = "left" /\ Take(Len(q) - 2, "right")
  BY DEF TakeLeft
<1>2. Len(q) \in Nat
  BY <1>1, SearchFacts
<1>3. PICK e : LeftAt(file, q, wpos, e, Len(q))
  BY <1>1 DEF ExInv, StageInv
<1>4. Len(q) >= 3 /\ (q[Len(q) - 2].m_is_written \/ q[Len(q) - 2].lvl = 0)
  BY <1>3 DEF LeftAt
<1>5. Len(q) - 2 \in 1 .. Len(q) - 1
  BY <1>2, <1>4
<1>6. QED
  BY <1>1, <1>4, <1>5, SearchTake1

LEMMA SearchRight1 == ASSUME ExInv, SearchInv, TakeRight PROVE SearchInv'
<1>1. stage = "right" /\ Take(Len(q) - 1, "parent")
  BY DEF TakeRight
<1>2. Len(q) \in Nat
  BY <1>1, SearchFacts
<1>3. PICK e : RightAt(file, q, wpos, e, Len(q))
  BY <1>1 DEF ExInv, StageInv
<1>4. Len(q) >= 2 /\ (q[Len(q) - 1].m_is_written \/ q[Len(q) - 1].lvl = 0)
  BY <1>3 DEF RightAt, Behind
<1>5. Len(q) - 1 \in 1 .. Len(q) - 1
  BY <1>2, <1>4
<1>6. QED
  BY <1>1, <1>4, <1>5, SearchTake1

LEMMA SearchWrite1 == ASSUME ExInv, SearchInv, WriteParent PROVE SearchInv'
<1>1. stage = "parent" /\ wpos \in Pos
  BY DEF WriteParent
<1>2. /\ TypeOK /\ Differ(job) /\ TodoLeft /\ SizesTold /\ Once(file, wpos) /\ SearchAt
      /\ wpos \in Nat /\ wpos >= 1 /\ q \in Seq(XNode) /\ Len(q) \in Nat /\ ElemsRead \in Nat
  BY <1>1, SearchFacts
<1>3. PICK n \in Nat : n = Len(q)
  BY <1>2
<1>4. PICK s \in Seq(XNode) : s = q
  BY <1>2
<1>5. PICK w \in Nat : w = wpos /\ w >= 1
  BY <1>2
<1>6. PICK f : f = file
  OBVIOUS
<1>7. PICK g : g = file'
  OBVIOUS
<1>8. PICK R \in Nat : R = ElemsRead
  BY <1>2
<1>9. PICK r : r = RowOf(job)
  OBVIOUS
<1>10. SearchParent(f, w, s, n, r, R)
  BY <1>1, <1>2, <1>3, <1>4, <1>5, <1>6, <1>8, <1>9 DEF SearchAt
<1>11. n >= 1 /\ n \in 1 .. n /\ s[n] \in XNode
  BY <1>3, <1>4, <1>10 DEF SearchParent
<1>12. PICK b \in Block : b = ToBlock(s[n], "R") /\ b.lvl = s[n].lvl /\ b.h = s[n].h
  BY <1>11, ToBlockFacts
<1>13. Keeps(f, g, w) /\ g[w] = b
  <2>1. g = [file EXCEPT ![wpos] = b]
    BY <1>3, <1>4, <1>7, <1>12 DEF WriteParent
  <2>2. QED
    BY <1>1, <1>2, <1>5, <1>6, <2>1, WrittenFacts
<1>14. PICK c : c.lvl = s[n].lvl /\ c.h = s[n].h /\ ~c.m_is_written
  <2> DEFINE x == [lvl |-> s[n].lvl, h |-> s[n].h, m_is_written |-> FALSE]
  <2>1. x.lvl = s[n].lvl /\ x.h = s[n].h /\ ~x.m_is_written
    OBVIOUS
  <2> HIDE DEF x
  <2>2. QED
    BY <2>1
<1>15. PICK v \in Nat : v = w + 1
  OBVIOUS
<1>16. Stays(f, g, w, v, c)
  BY <1>12, <1>13, <1>14, <1>15 DEF Stays
<1>17. PICK t : t = q'
  OBVIOUS
<1>18. UNCHANGED <<hdr, glob, job, todo>> /\ stage' = "combine" /\ wpos' = v
  BY <1>5, <1>15 DEF WriteParent
<1>19. /\ Len(t) = n /\ \A j \in 1 .. n - 1 : t[j] = s[j]
       /\ t[n].lvl = s[n].lvl /\ t[n].h = s[n].h
  <2>1. PICK y : y = [s[n] EXCEPT !.m_is_written = TRUE]
    OBVIOUS
  <2>2. y \in XNode /\ y.lvl = s[n].lvl /\ y.h = s[n].h
    BY <1>11, <2>1 DEF XNode
  <2>3. t = [s EXCEPT ![n] = y]
    BY <1>3, <1>4, <1>17, <2>1 DEF WriteParent
  <2>4. n = Len(s)
    BY <1>3, <1>4
  <2>5. Len(t) = n /\ t[n] = y /\ \A j \in 1 .. n - 1 : t[j] = s[j]
    BY <1>11, <2>2, <2>3, <2>4
  <2>6. QED
    BY <2>2, <2>5
<1>20. PICK m \in Nat : /\ RowSized(r, Len(job.elems), m)
                        /\ BlocksSized(f, w, m) /\ NodesSized(s, n, m)
  BY <1>2, <1>3, <1>4, <1>5, <1>6, <1>9 DEF SizesTold
<1>21. BlocksSized(g, v, m) /\ Once(g, v)
  <2>1. Once(f, w)
    BY <1>2, <1>5, <1>6
  <2>2. c.lvl \in Nat /\ Sized(c.h, c.lvl, m)
    BY <1>11, <1>14, <1>20 DEF NodesSized
  <2>3. \A p \in 1 .. w - 1 : f[p].h # c.h
    BY <1>10, <1>14 DEF SearchParent
  <2>4. QED
    BY ONLY <1>5, <1>16, <1>20, <2>1, <2>2, <2>3, SearchGrows
<1>22. SizesTold'
  <2>1. ASSUME NEW j \in 1 .. n PROVE t[j].lvl \in Nat /\ Sized(t[j].h, t[j].lvl, m)
    <3>1. s[j].lvl \in Nat /\ Sized(s[j].h, s[j].lvl, m)
      BY <1>20 DEF NodesSized
    <3>2. t[j].lvl = s[j].lvl /\ t[j].h = s[j].h
      <4>1. j = n \/ j \in 1 .. n - 1
        OBVIOUS
      <4>2. QED
        BY <1>19, <4>1
    <3>3. QED
      BY <3>1, <3>2
  <2>2. BlocksSized(file', wpos', m) /\ NodesSized(q', Len(q'), m)
    BY <1>7, <1>17, <1>18, <1>19, <1>21, <2>1 DEF NodesSized
  <2>3. RowSized(RowOf(job'), Len(job'.elems), m)
    BY <1>9, <1>18, <1>20
  <2>4. QED
    BY <2>2, <2>3 DEF SizesTold
<1>23. ElemsRead' = R
  BY <1>8, <1>18 DEF ElemsRead
<1>24. SearchAt'
  <2>1. SearchCombine(g, v, t, n, r, R)
    BY ONLY <1>5, <1>10, <1>14, <1>16, <1>19, SearchWrites
  <2>2. SearchCombine(file', wpos', q', Len(q'), RowOf(job'), ElemsRead')
    BY <1>7, <1>9, <1>17, <1>18, <1>19, <1>23, <2>1
  <2>3. QED
    BY <1>18, <2>2 DEF SearchAt
<1>25. Differ(job') /\ Once(file', wpos') /\ TodoLeft'
  BY <1>2, <1>7, <1>18, <1>21 DEF TodoLeft, ElemsRead
<1>26. QED
  BY <1>22, <1>24, <1>25 DEF SearchInv

LEMMA SearchEnds1 == ASSUME ExInv, SearchInv, CombineEnds PROVE SearchInv'
<1>1. /\ stage = "combine" /\ ~MustCombine /\ stage' \in {"read", "root"}
      /\ UNCHANGED <<file, hdr, q, wpos, glob, job, todo>>
  BY DEF CombineEnds
<1>2. /\ Differ(job) /\ TodoLeft /\ SizesTold /\ Once(file, wpos) /\ SearchAt
      /\ Len(q) \in Nat /\ ElemsRead \in Nat
  BY <1>1, SearchFacts
<1>3. SearchCombine(file, wpos, q, Len(q), RowOf(job), ElemsRead)
  BY <1>1, <1>2 DEF SearchAt
<1>4. SearchRead(file, wpos, q, Len(q), RowOf(job), ElemsRead)
  BY <1>1, <1>2, <1>3, SearchEnds DEF MustCombine
<1>5. SearchAt'
  <2>1. SearchRead(file', wpos', q', Len(q'), RowOf(job'), ElemsRead')
    BY <1>1, <1>4 DEF ElemsRead
  <2>2. QED
    BY <1>1, <2>1 DEF SearchAt
<1>6. Differ(job') /\ Once(file', wpos') /\ TodoLeft' /\ SizesTold'
  BY <1>1, <1>2 DEF TodoLeft, ElemsRead, SizesTold
<1>7. QED
  BY <1>5, <1>6 DEF SearchInv

LEMMA SearchStep == ASSUME ExInv, SearchInv, Step PROVE SearchInv'
<1>1. CASE PopRoot \/ WriteHeader
  BY <1>1 DEF PopRoot, WriteHeader, SearchInv
<1>2. QED
  BY <1>1, SearchRead1, SearchPair1, SearchLeft1, SearchRight1, SearchWrite1, SearchEnds1
     DEF Step, CombineTurn

LEMMA SearchCrash == ASSUME Crash PROVE SearchInv'
BY DEF Crash, SearchInv

LEMMA SearchStutter == ASSUME SearchInv, UNCHANGED vars PROVE SearchInv'
<1>1. UNCHANGED <<file, hdr, stage, q, wpos, glob, job, todo>>
  BY DEF vars
<1>2. QED
  BY <1>1 DEF SearchInv, TodoLeft, ElemsRead, SizesTold, SearchAt

-----------------------------------------------------------------------------
(* The blocks found.  The ends of the trees in the queue are those of the  *)
(* invariant.                                                              *)
LEMMA UpToEnds ==
    ASSUME NEW n \in Nat, Len(q) = n, NEW e,
           e[0] = 0, \A k \in 1 .. n : e[k] = e[k - 1] + TreeSize(q[k].lvl)
    PROVE  \A k \in 0 .. n : BlocksUpTo[k] = e[k]
<1> DEFINE Eq(g) == g = [k \in 0 .. n |-> IF k = 0 THEN 0 ELSE g[k - 1] + TreeSize(q[k].lvl)]
           d == [k \in 0 .. n |-> e[k]]
<1>1. Eq(d)
  <2>1. ASSUME NEW k \in 0 .. n
        PROVE  e[k] = IF k = 0 THEN 0 ELSE d[k - 1] + TreeSize(q[k].lvl)
    <3>1. CASE k = 0
      BY <3>1
    <3>2. CASE k # 0
      <4>1. k \in 1 .. n /\ k - 1 \in 0 .. n
        BY <3>2
      <4>2. QED
        BY <3>2, <4>1
    <3>3. QED
      BY <3>1, <3>2
  <2>2. QED
    BY <2>1
<1> HIDE DEF d
<1>2. PICK u : u = BlocksUpTo /\ Eq(u)
  <2>1. BlocksUpTo = CHOOSE g : Eq(g)
    BY DEF BlocksUpTo
  <2>2. Eq(CHOOSE g : Eq(g))
    BY <1>1, Zenon
  <2>3. QED
    BY <2>1, <2>2
<1>3. u[0] = 0 /\ \A k \in 1 .. n : u[k] = u[k - 1] + TreeSize(q[k].lvl)
  <2>1. \A k \in 0 .. n : u[k] = IF k = 0 THEN 0 ELSE u[k - 1] + TreeSize(q[k].lvl)
    BY <1>2
  <2>2. QED
    BY <2>1
<1> DEFINE S == {k \in Nat : k <= n => u[k] = e[k]}
<1>4. 0 \in S
  BY <1>3
<1>5. ASSUME NEW k \in Nat, k \in S PROVE k + 1 \in S
  <2>1. CASE k + 1 <= n
    <3>1. k + 1 \in 1 .. n /\ (k + 1) - 1 = k /\ k <= n
      BY <2>1
    <3>2. u[k + 1] = u[k] + TreeSize(q[k + 1].lvl) /\ e[k + 1] = e[k] + TreeSize(q[k + 1].lvl)
      BY <1>3, <3>1
    <3>3. QED
      BY <1>5, <3>1, <3>2
  <2>2. CASE ~(k + 1 <= n)
    BY <2>2
  <2>3. QED
    BY <2>1, <2>2
<1> HIDE DEF S
<1>6. Nat \subseteq S
  BY <1>4, <1>5, NatInduct
<1>7. ASSUME NEW k \in 0 .. n PROVE u[k] = e[k]
  <2>1. k \in S /\ k <= n
    BY <1>6
  <2>2. QED
    BY <2>1 DEF S
<1>8. QED
  BY <1>2, <1>7

(* The only block with the hash of an interior one is that block.          *)
LEMMA FoundOnly ==
    ASSUME Once(file, wpos), NEW n, NEW x, Fits(file, wpos, x, n), n.lvl > 0
    PROVE  FoundFor(n) = x
<1>1. x \in 1 .. wpos - 1 /\ file[x].lvl > 0 /\ file[x].h = n.h
  BY DEF Fits
<1>2. SameHash(n) = {x}
  <2>1. x \in SameHash(n)
    BY <1>1 DEF SameHash
  <2>2. ASSUME NEW y \in SameHash(n) PROVE y = x
    <3>1. y \in 1 .. wpos - 1 /\ file[y].h = file[x].h
      BY <1>1 DEF SameHash
    <3>2. QED
      BY <1>1, <3>1 DEF Once
  <2>3. QED
    BY <2>1, <2>2
<1>3. x <= x
  BY <1>1
<1>4. (CHOOSE p \in {x} : \A y \in {x} : y <= p) = x
  <2>1. \E p \in {x} : \A y \in {x} : y <= p
    BY <1>3
  <2>2. (CHOOSE p \in {x} : \A y \in {x} : y <= p) \in {x}
    BY <2>1
  <2>3. QED
    BY <2>2
<1>5. QED
  BY <1>2, <1>4 DEF FoundFor

LEMMA SearchSays == ASSUME ExInv, SearchInv PROVE PatchFindsOwn
<1>1. SUFFICES ASSUME stage = "left", NEW c \in {Len(q) - 2, Len(q) - 1}, q[c].m_is_written
               PROVE  FoundFor(q[c]) = BlocksUpTo[c]
  BY DEF PatchFindsOwn
<1>2. /\ TypeOK /\ Once(file, wpos) /\ SearchAt /\ wpos \in Nat /\ q \in Seq(XNode)
      /\ Len(q) \in Nat
  BY <1>1, SearchFacts
<1>3. PICK n \in Nat : n = Len(q)
  BY <1>2
<1>4. PICK e : LeftAt(file, q, wpos, e, n)
  BY <1>1, <1>3 DEF ExInv, StageInv
<1>5. PICK k : k = q[n - 2].lvl
  OBVIOUS
<1>6. PICK x : x = e[n - 3] + TreeSize(k)
  OBVIOUS
<1>7. /\ n >= 3 /\ Base(file, q, wpos, e, n - 3) /\ q[n - 1].lvl = k /\ q[n].lvl = k + 1
      /\ \/ k = 0 /\ ~q[n - 2].m_is_written /\ ~q[n - 1].m_is_written
         \/ /\ k > 0 /\ Fits(file, wpos, x, q[n - 2])
            /\ Behind(file, wpos, x, q[n - 1], k)
  BY <1>4, <1>5, <1>6 DEF LeftAt, ParentOver
<1>8. k > 0 /\ Fits(file, wpos, x, q[n - 2]) /\ Behind(file, wpos, x, q[n - 1], k)
  BY <1>1, <1>3, <1>7
<1>9. k \in Nat
  <2>1. n - 2 \in 1 .. Len(q)
    BY <1>3, <1>7
  <2>2. q[n - 2] \in XNode
    BY <1>2, <2>1
  <2>3. QED
    BY <1>5, <2>2, NodeTypes
<1>10. x + TreeSize(k) = wpos - 1 /\ Fits(file, wpos, wpos - 1, q[n - 1])
  BY <1>8 DEF Behind
<1> DEFINE d == [j \in 0 .. n |-> IF j <= n - 3 THEN e[j] ELSE IF j = n - 2 THEN x
                                 ELSE IF j = n - 1 THEN wpos - 1
                                 ELSE (wpos - 1) + TreeSize(k + 1)]
<1>11. /\ \A j \in 0 .. n - 3 : d[j] = e[j]
       /\ d[n - 2] = x /\ d[n - 1] = wpos - 1 /\ d[n] = (wpos - 1) + TreeSize(k + 1)
  BY <1>7
<1> HIDE DEF d
<1>12. d[0] = 0
  BY <1>7, <1>11 DEF Base
<1>13. ASSUME NEW j \in 1 .. n PROVE d[j] = d[j - 1] + TreeSize(q[j].lvl)
  <2>1. CASE j \in 1 .. n - 3
    <3>1. j \in 0 .. n - 3 /\ j - 1 \in 0 .. n - 3
      BY <2>1
    <3>2. NodeAt(file, q, wpos, e, j)
      BY <1>7, <2>1 DEF Base
    <3>3. QED
      BY <1>11, <3>1, <3>2 DEF NodeAt
  <2>2. CASE j = n - 2
    <3>1. j - 1 = n - 3 /\ n - 3 \in 0 .. n - 3
      BY <1>7, <2>2
    <3>2. QED
      BY <1>5, <1>6, <1>11, <2>2, <3>1
  <2>3. CASE j = n - 1
    <3>1. j - 1 = n - 2
      BY <2>3
    <3>2. QED
      BY <1>7, <1>10, <1>11, <2>3, <3>1
  <2>4. CASE j = n
    <3>1. j - 1 = n - 1
      BY <2>4
    <3>2. QED
      BY <1>7, <1>11, <2>4, <3>1
  <2>5. QED
    BY <1>7, <2>1, <2>2, <2>3, <2>4
<1>14. \A j \in 0 .. n : BlocksUpTo[j] = d[j]
  <2>1. Len(q) = n
    BY <1>3
  <2>2. QED
    BY <1>12, <1>13, <2>1, UpToEnds
<1>15. CASE c = n - 2
  <2>1. FoundFor(q[c]) = x
    BY <1>2, <1>5, <1>8, <1>15, FoundOnly
  <2>2. c \in 0 .. n
    BY <1>7, <1>15
  <2>3. QED
    BY <1>11, <1>14, <1>15, <2>1, <2>2
<1>16. CASE c = n - 1
  <2>1. FoundFor(q[c]) = wpos - 1
    BY <1>2, <1>7, <1>8, <1>10, <1>16, FoundOnly
  <2>2. c \in 0 .. n
    BY <1>7, <1>16
  <2>3. QED
    BY <1>11, <1>14, <1>16, <2>1, <2>2
<1>17. QED
  BY <1>3, <1>15, <1>16

(* The inputs a caller passes.                                             *)
InputsDiffer == \A in \in Inputs : Differ(in)

LEMMA SearchInit == ASSUME Init PROVE SearchInv
BY DEF Init, SearchInv

LEMMA SearchNext == ASSUME InputsDiffer, ExInv, SearchInv, [Next]_vars PROVE SearchInv'
<1>1. CASE \E in \in Inputs : StartBuild(in)
  BY <1>1, InputsGood, SearchStart DEF InputsDiffer
<1>2. QED
  BY <1>1, SearchStep, SearchCrash, SearchStutter DEF Next

(* When no two pairs of leaves that are combined are alike, and digests    *)
(* have one length and no zero byte, the search by hash finds the blocks   *)
(* of the two nodes that are combined and no others, for inputs of every   *)
(* length, whatever was built or cut before.                               *)
THEOREM PatchSafety == ASSUME InputsDiffer PROVE Spec => []PatchFindsOwn
<1>1. Init => ExInv /\ SearchInv
  BY InitEx, SearchInit
<1>2. ExInv /\ SearchInv /\ [Next]_vars => ExInv' /\ SearchInv'
  BY NextEx, SearchNext
<1>3. ExInv /\ SearchInv => PatchFindsOwn
  BY SearchSays
<1>4. QED
  BY <1>1, <1>2, <1>3, PTL DEF Spec

(* The parts of a data set: it is one of those the caller has, and         *)
(* padding, less than the largest part has blocks.                         *)
Padded(d, s) ==
    /\ Len(d) <= Len(s) /\ \A k \in 1 .. Len(d) : s[k] = d[k]
    /\ \A k \in Len(d) + 1 .. Len(s) : s[k] = [pn |-> NoPage, h |-> PadHash]

Extended(s) ==
    \E d \in InitData, u \in LeafNums : Padded(d, s) /\ Len(s) < Len(d) + RoundUp(u)

PartOf(s, k, l) == [kind |-> "dataset", elems |-> SubSeq(s, k * l + 1, (k + 1) * l)]

PartsDiffer ==
    \A s \in Seq(Elem) : Extended(s) =>
        \A n \in LeafNums, k \in Nat :
            (k + 1) * RoundUp(n) <= Len(s) => Differ(PartOf(s, k, RoundUp(n)))

DataInv ==
    /\ \E d \in InitData : Padded(d, ds)
    /\ leaf_num # 0 => \E n \in LeafNums : leaf_num = RoundUp(n)

LEMMA DataInit == ASSUME FixedInit PROVE DataInv
<1>1. ds \in InitData /\ leaf_num = 0 /\ Len(ds) \in Nat
  BY FixedLeavesAssumption DEF FixedInit
<1>2. Padded(ds, ds)
  BY <1>1 DEF Padded
<1>3. QED
  BY <1>1, <1>2 DEF DataInv

LEMMA DataNext == ASSUME FixedInv, DataInv, [FixedNext]_allVars PROVE DataInv'
<1>1. CASE \E n \in LeafNums : StartFixed(n)
  BY <1>1 DEF StartFixed, DataInv
<1>2. CASE ExtendData
  <2>1. leaf_num' = leaf_num
    BY <1>2 DEF ExtendData
  <2>2. PICK d \in InitData : Padded(d, ds)
    BY DEF DataInv
  <2>3. Len(d) \in Nat /\ ds \in Seq(Elem) /\ Len(ds) \in Nat
    BY FixedLeavesAssumption, FixedFacts
  <2>4. CASE short > 0
    <3>1. PICK b : b = [pn |-> NoPage, h |-> PadHash]
      OBVIOUS
    <3>2. b \in Elem
      BY <3>1, FixedLeavesAssumption, DiskAssumption DEF Elem
    <3>3. PICK t : t = ds' /\ t = Append(ds, b)
      BY <1>2, <2>4, <3>1 DEF ExtendData
    <3>4. PICK a \in Nat : a = Len(ds) /\ Len(d) <= a
      BY <2>2, <2>3 DEF Padded
    <3>5. Len(t) = a + 1 /\ t[a + 1] = b /\ \A k \in 1 .. a : t[k] = ds[k]
      BY <2>3, <3>2, <3>3, <3>4
    <3>6. \A k \in 1 .. Len(d) : t[k] = d[k]
      BY <2>2, <2>3, <3>4, <3>5 DEF Padded
    <3>7. ASSUME NEW k \in Len(d) + 1 .. a + 1 PROVE t[k] = b
      <4>1. CASE k = a + 1
        BY <3>5, <4>1
      <4>2. CASE k # a + 1
        <5>1. k \in 1 .. a /\ k \in Len(d) + 1 .. Len(ds)
          BY <2>3, <3>4, <4>2
        <5>2. QED
          BY <2>2, <3>1, <3>5, <5>1 DEF Padded
      <4>3. QED
        BY <4>1, <4>2
    <3>8. Padded(d, ds')
      BY <2>3, <3>1, <3>3, <3>4, <3>5, <3>6, <3>7 DEF Padded
    <3>9. QED
      BY <2>1, <3>8 DEF DataInv
  <2>5. CASE ~(short > 0)
    <3>1. ds' = ds
      BY <1>2, <2>5 DEF ExtendData
    <3>2. QED
      BY <2>1, <3>1 DEF DataInv
  <2>6. QED
    BY <2>4, <2>5
<1>3. CASE FixedCrash
  BY <1>3 DEF FixedCrash, DataInv
<1>4. CASE UNCHANGED <<ds, leaf_num>>
  BY <1>4 DEF DataInv
<1>5. QED
  BY <1>1, <1>2, <1>3, <1>4
     DEF FixedNext, FixedStep, BuildPart, BuildStep, RenamePart, ReturnFixed, StepAlone,
         StartAlone, CrashAlone, allVars, fixedVars

LEMMA DataExtended ==
    ASSUME NoPadding, FixedInv, PadInv, DataInv, phase = "split" PROVE Extended(ds)
<1>1. leaf_num # 0 /\ short = 0 /\ Len(ds) \in Nat
  BY FixedFacts DEF FixedInv
<1>2. PICK a \in Nat : a = Len(ds)
  BY <1>1
<1>3. PICK m \in 0 .. a : Rows(ds, m) /\ Roomy(m, a)
  <2>1. Len(ds) + short = a
    BY <1>1, <1>2
  <2>2. QED
    BY <1>1, <1>2, <2>1 DEF PadInv
<1>4. PICK d \in InitData : Padded(d, ds)
  BY DEF DataInv
<1>5. PICK l \in Nat : l = Len(d)
  BY FixedLeavesAssumption
<1>6. /\ l <= a /\ \A k \in 1 .. l : ds[k] = d[k] /\ d[k].pn # NoPage
      /\ \A k \in l + 1 .. a : ds[k].pn = NoPage
  BY <1>2, <1>4, <1>5 DEF Padded, NoPadding
<1>7. m = l
  <2>1. ASSUME m < l PROVE FALSE
    <3>1. m + 1 \in 1 .. l /\ m + 1 \in m + 1 .. Len(ds)
      BY <1>2, <1>6, <2>1
    <3>2. ds[m + 1].pn = NoPage
      BY <1>3, <3>1 DEF Rows
    <3>3. ds[m + 1] = d[m + 1] /\ d[m + 1].pn # NoPage
      BY <1>6, <3>1
    <3>4. QED
      BY <3>2, <3>3
  <2>2. ASSUME l < m PROVE FALSE
    <3>1. l + 1 \in 1 .. m /\ l + 1 \in l + 1 .. a
      BY <2>2
    <3>2. ds[l + 1].pn # NoPage
      BY <1>3, <3>1 DEF Rows
    <3>3. QED
      BY <1>6, <3>1, <3>2
  <2>3. QED
    BY <2>1, <2>2
<1>8. PICK u \in LeafNums : RoomFor(m, a, RoundUp(u))
  BY <1>3 DEF Roomy
<1>9. PICK p \in Nat \ {0} : p = RoundUp(u)
  BY RoundUpPositive
<1>10. a < l + p
  <2>1. PICK x \in Nat : a <= x * p /\ x * p < m + p
    BY <1>8, <1>9 DEF RoomFor
  <2>2. x * p \in Nat
    BY <1>9, Products
  <2>3. QED
    BY <1>7, <2>1, <2>2
<1>11. QED
  BY <1>2, <1>4, <1>5, <1>9, <1>10 DEF Extended

LEMMA FixedSearchNext ==
    ASSUME NoPadding, InputsDiffer, PartsDiffer, FixedInv, PadInv, DataInv, SearchInv,
           [FixedNext]_allVars
    PROVE  SearchInv'
<1>1. ExInv
  BY DEF FixedInv
<1>2. CASE BuildPart
  <2>1. phase = "split" /\ i < parts /\ StartBuild(PartOf(ds, i, leaf_num))
    BY <1>2 DEF BuildPart, Part, PartOf
  <2>2. /\ ds \in Seq(Elem) /\ Len(ds) \in Nat /\ leaf_num \in Nat /\ parts \in Nat
        /\ i \in Nat /\ leaf_num # 0 /\ Len(ds) = parts * leaf_num
    <3>1. short = 0 /\ leaf_num # 0 /\ Len(ds) + short = parts * leaf_num
      BY <2>1 DEF FixedInv
    <3>2. QED
      BY <3>1, FixedFacts
  <2>3. PICK s \in Seq(Elem) : s = ds
    BY <2>2
  <2>4. PICK l \in Nat \ {0} : l = leaf_num
    BY <2>2
  <2>5. PICK k \in Nat : k = i
    BY <2>2
  <2>6. PICK p \in Nat : p = parts
    BY <2>2
  <2>7. k < p /\ Len(s) = p * l
    BY <2>1, <2>2, <2>3, <2>4, <2>5, <2>6
  <2>8. (k + 1) * l <= Len(s)
    <3>1. k + 1 <= p
      BY <2>7
    <3>2. PICK x \in Nat : p = (k + 1) + x
      <4>1. p - (k + 1) \in Nat /\ p = (k + 1) + (p - (k + 1))
        BY <3>1
      <4>2. QED
        BY <4>1
    <3>3. p * l = (k + 1) * l + x * l
      BY <3>2
    <3>4. x * l \in Nat /\ (k + 1) * l \in Nat
      BY Products
    <3>5. QED
      BY <2>7, <3>3, <3>4
  <2>9. PICK t : t = PartOf(s, k, l)
    OBVIOUS
  <2>10. Differ(t)
    <3>1. Extended(s)
      BY <2>1, <2>3, DataExtended
    <3>2. PICK n \in LeafNums : l = RoundUp(n)
      BY <2>2, <2>4 DEF DataInv
    <3>3. QED
      BY <2>8, <2>9, <3>1, <3>2 DEF PartsDiffer
  <2>11. GoodInput(t)
    <3>1. PICK y : y = SubSeq(s, k * l + 1, (k + 1) * l)
      OBVIOUS
    <3>2. y \in Seq(Elem) /\ Len(y) = l /\ y # <<>>
      BY ONLY <2>7, <3>1, PartFacts
    <3>3. QED
      BY <2>9, <3>1, <3>2 DEF PartOf, GoodInput, Kinds
  <2>12. StartBuild(t)
    BY <2>1, <2>3, <2>4, <2>5, <2>9
  <2>13. QED
    BY <2>10, <2>11, <2>12, SearchStart
<1>3. CASE \E in \in Inputs : StartAlone(in)
  BY <1>3, InputsGood, SearchStart DEF InputsDiffer, StartAlone
<1>4. CASE StepAlone \/ BuildStep
  BY <1>1, <1>4, SearchStep DEF StepAlone, BuildStep
<1>5. CASE FixedCrash \/ CrashAlone
  BY <1>5, SearchCrash, SearchStutter DEF FixedCrash, CrashAlone
<1>6. CASE UNCHANGED vars
  BY <1>6, SearchStutter
<1>7. QED
  BY <1>2, <1>3, <1>4, <1>5, <1>6
     DEF FixedNext, FixedStep, StartFixed, ExtendData, RenamePart, ReturnFixed, allVars

(* The same in the trees of the parts of a data set, however often a call  *)
(* that pads it is cut and repeated, when no part that can arise has two   *)
(* pairs of blocks alike.                                                  *)
THEOREM FixedPatch ==
    ASSUME NoPadding, InputsDiffer, PartsDiffer PROVE FixedSpec => []PatchFindsOwn
<1>1. FixedInit => FixedInv /\ PadInv /\ DataInv /\ SearchInv
  BY FixedInitInv, PadInit, DataInit, SearchInit DEF FixedInit
<1>2. FixedInv /\ PadInv /\ DataInv /\ SearchInv /\ [FixedNext]_allVars
      => FixedInv' /\ PadInv' /\ DataInv' /\ SearchInv'
  BY FixedNextInv, PadNext, DataNext, FixedSearchNext
<1>3. FixedInv /\ SearchInv => PatchFindsOwn
  BY SearchSays DEF FixedInv
<1>4. QED
  BY <1>1, <1>2, <1>3, PTL DEF FixedSpec
=============================================================================
