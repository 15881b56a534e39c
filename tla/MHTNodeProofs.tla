--------------------------- MODULE MHTNodeProofs ---------------------------
(***************************************************************************)
(* Lemmas on the hash operators and on the nodes the builders make of      *)
(* hashes, for every set of leaf digests.                                  *)
(***************************************************************************)
EXTENDS MHTNode, FiniteSetTheorems, SequenceTheorems, TLAPS

(* strlen stays within the buffer (line 89 of mhtdefs.c).                  *)
LEMMA StrLenBound == \A s \in Hash : StrLen(s) \in 0 .. Len(s)
<1> SUFFICES ASSUME NEW s \in Hash PROVE StrLen(s) \in 0 .. Len(s)
  OBVIOUS
<1> DEFINE n == Len(s)
           S == {k \in 1 .. n : \A i \in 1 .. k : s[i] # ZeroByte}
<1>1. n \in Nat
  BY DEF Hash
<1>2. StrLen(s) = Cardinality(S)
  BY DEF StrLen
<1>3. S \in SUBSET (1 .. n)
  OBVIOUS
<1> HIDE DEF n, S
<1>4. IsFiniteSet(1 .. n) /\ Cardinality(1 .. n) = n
  <2>1. 1 \in Int /\ n \in Int
    BY <1>1
  <2>2. /\ IsFiniteSet(1 .. n)
        /\ Cardinality(1 .. n) = IF 1 > n THEN 0 ELSE n - 1 + 1
    BY <2>1, FS_Interval, Zenon
  <2>3. QED
    BY <1>1, <2>2
<1>5. IsFiniteSet(S) /\ Cardinality(S) <= n
  BY <1>3, <1>4, FS_Subset
<1>6. Cardinality(S) \in Nat
  BY <1>5, FS_CardinalityType
<1>7. QED
  BY <1>1, <1>2, <1>5, <1>6 DEF n

(* The combination of two stored hashes is a stored hash                   *)
(* (generateCombinedHash_SHA256 fills a whole digest).                     *)
LEMMA CombineType == \A a, b \in Hash : Combine(a, b) \in Hash
<1> SUFFICES ASSUME NEW a \in Hash, NEW b \in Hash PROVE Combine(a, b) \in Hash
  OBVIOUS
<1> DEFINE ab == a \o b
           n  == StrLen(ab)
           message == SubSeq(ab, 1, n)
<1>1. Combine(a, b) = <<Marker>> \o message
  BY DEF Combine, Digest
<1>2. ab \in Hash
  BY DEF Hash
<1>3. n \in 0 .. Len(ab)
  BY <1>2, StrLenBound
<1> HIDE DEF ab, n
<1>4. message \in Hash
  BY <1>2, <1>3 DEF Hash
<1>5. <<Marker>> \in Hash
  BY DEF Hash, Byte
<1> HIDE DEF message
<1>6. QED
  BY <1>1, <1>4, <1>5 DEF Hash

-----------------------------------------------------------------------------
(* Hashes without a zero byte are measured and combined whole, and then    *)
(* the combination gives every change of a child away.                     *)
NoZero(s) == \A i \in 1 .. Len(s) : s[i] # ZeroByte

LEMMA StrLenWhole == \A s \in Hash : NoZero(s) => StrLen(s) = Len(s)
<1> SUFFICES ASSUME NEW s \in Hash, NoZero(s) PROVE StrLen(s) = Len(s)
  OBVIOUS
<1> DEFINE n == Len(s)
<1>1. n \in Nat
  BY DEF Hash
<1>2. {k \in 1 .. n : \A i \in 1 .. k : s[i] # ZeroByte} = 1 .. n
  BY <1>1 DEF NoZero
<1>3. StrLen(s) = Cardinality(1 .. n)
  BY <1>2 DEF StrLen
<1> HIDE DEF n
<1>4. Cardinality(1 .. n) = IF 1 > n THEN 0 ELSE n - 1 + 1
  <2>1. 1 \in Int /\ n \in Int
    BY <1>1
  <2>2. QED
    BY <2>1, FS_Interval, Zenon
<1>5. QED
  BY <1>1, <1>3, <1>4 DEF n

LEMMA CombineWhole ==
    ASSUME NEW a \in Hash, NEW b \in Hash, NoZero(a), NoZero(b)
    PROVE  Combine(a, b) = <<Marker>> \o (a \o b) /\ NoZero(Combine(a, b))
<1> DEFINE ab == a \o b
<1>1. ab \in Hash /\ Len(ab) = Len(a) + Len(b)
  BY DEF Hash
<1>2. NoZero(ab)
  <2>1. \A i \in 1 .. Len(a) + Len(b) : ab[i] = IF i <= Len(a) THEN a[i] ELSE b[i - Len(a)]
    BY ConcatProperties DEF Hash
  <2>2. Len(a) \in Nat /\ Len(b) \in Nat
    BY DEF Hash
  <2> HIDE DEF ab
  <2>3. QED
    BY <1>1, <2>1, <2>2 DEF NoZero
<1>3. Combine(a, b) = <<Marker>> \o SubSeq(ab, 1, StrLen(ab))
  BY DEF Combine, Digest
<1> HIDE DEF ab
<1>4. SubSeq(ab, 1, StrLen(ab)) = ab
  BY <1>1, <1>2, StrLenWhole, SubSeqFull DEF Hash
<1>5. Combine(a, b) = <<Marker>> \o ab
  BY <1>3, <1>4
<1>6. NoZero(<<Marker>> \o ab)
  <2>1. /\ <<Marker>> \in Seq(Byte) /\ Len(<<Marker>>) = 1 /\ <<Marker>>[1] # ZeroByte
        /\ ab \in Seq(Byte) /\ Len(ab) \in Nat
    BY <1>1 DEF Hash, Byte, Marker, ZeroByte
  <2>2. /\ Len(<<Marker>> \o ab) = 1 + Len(ab)
        /\ \A i \in 1 .. 1 + Len(ab) :
              (<<Marker>> \o ab)[i] = IF i <= 1 THEN <<Marker>>[i] ELSE ab[i - 1]
    BY <2>1, ConcatProperties
  <2>3. QED
    BY <1>2, <2>1, <2>2 DEF NoZero
<1>7. QED
  BY <1>5, <1>6 DEF ab

LEMMA CombineInjective ==
    ASSUME NEW a \in Hash, NEW b \in Hash, NEW c \in Hash,
           NoZero(a), NoZero(b), NoZero(c)
    PROVE  /\ Combine(a, c) = Combine(b, c) => a = b
           /\ Combine(c, a) = Combine(c, b) => a = b
           /\ Combine(a, a) = Combine(b, b) => a = b
<1> DEFINE Left  == \A s, t, v \in Hash : s \o t = s \o v => t = v
           Right == \A s, t, v \in Hash : s \o v = t \o v => s = t
<1>a. Left /\ Right
  BY ConcatSimplifications, Zenon DEF Hash
<1>b. /\ Combine(a, c) = <<Marker>> \o (a \o c) /\ Combine(b, c) = <<Marker>> \o (b \o c)
       /\ Combine(c, a) = <<Marker>> \o (c \o a) /\ Combine(c, b) = <<Marker>> \o (c \o b)
       /\ Combine(a, a) = <<Marker>> \o (a \o a) /\ Combine(b, b) = <<Marker>> \o (b \o b)
  BY CombineWhole
<1>1. \A x, y \in Hash : <<Marker>> \o x = <<Marker>> \o y => x = y
  <2>1. <<Marker>> \in Hash
    BY DEF Hash, Byte
  <2>2. QED
    BY <1>a, <2>1
<1>2. /\ a \o c \in Hash /\ b \o c \in Hash /\ c \o a \in Hash /\ c \o b \in Hash
      /\ a \o a \in Hash /\ b \o b \in Hash
  BY DEF Hash
<1>3. ASSUME Combine(a, c) = Combine(b, c) PROVE a = b
  <2>1. a \o c = b \o c
    BY <1>1, <1>2, <1>3, <1>b
  <2>2. QED
    BY <1>a, <2>1
<1>4. ASSUME Combine(c, a) = Combine(c, b) PROVE a = b
  <2>1. c \o a = c \o b
    BY <1>1, <1>2, <1>4, <1>b
  <2>2. QED
    BY <1>a, <2>1
<1>5. ASSUME Combine(a, a) = Combine(b, b) PROVE a = b
  <2>1. a \o a = b \o b
    BY <1>1, <1>2, <1>5, <1>b
  <2>2. /\ Len(a \o a) = Len(a) + Len(a) /\ Len(b \o b) = Len(b) + Len(b)
        /\ Len(a) \in Nat /\ Len(b) \in Nat
    BY DEF Hash
  <2>3. Len(a) = Len(b)
    BY <2>1, <2>2
  <2>4. \A i \in 1 .. Len(a) : a[i] = (a \o a)[i] /\ b[i] = (b \o b)[i]
    BY <2>2, <2>3, ConcatProperties DEF Hash
  <2>5. \A i \in 1 .. Len(a) : a[i] = b[i]
    BY <2>1, <2>4
  <2>6. QED
    BY <2>3, <2>5, SeqEqual DEF Hash
<1>6. QED
  BY <1>3, <1>4, <1>5

-----------------------------------------------------------------------------
(* The node constructors stay within their types.                          *)

(* makeQNode gives a queue node.                                           *)
LEMMA MakeQNodeType ==
    ASSUME NEW page \in Nat, NEW hash \in Hash, NEW level \in Nat,
           NEW isn \in BOOLEAN, NEW izn \in BOOLEAN
    PROVE  MakeQNode(page, hash, level, isn, izn) \in QNode
BY DiskAssumption DEF MakeQNode, QNode

(* makeCombinedQNode gives a queue node one level up, with these links.    *)
LEMMA CombinedFacts ==
    ASSUME NEW l \in QNode, NEW r \in QNode, NEW d \in Int
    PROVE  LET p == Combined(l, r, d)
           IN  /\ p \in QNode
               /\ p.lvl = l.lvl + 1 /\ p.pos = 0 /\ p.lcos = -d /\ p.rcos = -1
               /\ p.h = Combine(l.h, r.h)
<1>1. RightmostPage(l) \in Nat /\ RightmostPage(r) \in Nat
  BY DEF RightmostPage, QNode
<1>2. Combine(l.h, r.h) \in Hash
  BY CombineType DEF QNode
<1>. QED BY <1>1, <1>2, DiskAssumption DEF Combined, QNode
=============================================================================
