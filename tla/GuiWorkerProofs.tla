--------------------------- MODULE GuiWorkerProofs ---------------------------
(***************************************************************************)
(* What holds of the window for every set of tabs, every tree, every       *)
(* stored history and every number of clicks.                              *)
(***************************************************************************)
EXTENDS GuiWorker, Integers, FiniteSetTheorems, TLAPS

\* A channel is a sequence, and stays one.
LEMMA ChannelIs ==
    ASSUME NEW s, Channel(s)
    PROVE  /\ Len(s) \in Nat /\ DOMAIN s = 1 .. Len(s)
           /\ s # <<>> => Channel(Tail(s)) /\ Len(s) > 0 /\ 1 \in DOMAIN s /\ Head(s) = s[1]
                          /\ Len(s) = Len(Tail(s)) + 1 /\ DOMAIN Tail(s) = 1 .. Len(s) - 1
                          /\ \A i \in DOMAIN Tail(s) : i + 1 \in DOMAIN s /\ Tail(s)[i] = s[i + 1]
           /\ s = <<>> => DOMAIN s = {}
<1> DEFINE S == {s[i] : i \in DOMAIN s}
           t == Tail(s)
<1>1. s \in Seq(S)
  BY DEF Channel, In
<1> HIDE DEF S
<1>2. Len(s) \in Nat /\ DOMAIN s = 1 .. Len(s)
  BY <1>1
<1>3. ASSUME s # <<>>
      PROVE  /\ Len(s) > 0 /\ 1 \in DOMAIN s /\ Head(s) = s[1]
             /\ t \in Seq(S) /\ Len(s) = Len(t) + 1 /\ DOMAIN t = 1 .. Len(s) - 1
             /\ \A i \in DOMAIN t : i + 1 \in DOMAIN s /\ t[i] = s[i + 1]
  BY <1>1, <1>3
<1>4. s # <<>> => Channel(t)
  <2> SUFFICES ASSUME s # <<>> PROVE t \in Seq({t[i] : i \in DOMAIN t})
    BY DEF Channel, In
  <2>1. t \in Seq(S)
    BY <1>3
  <2> HIDE DEF t
  <2> QED
    BY <2>1
<1>5. s = <<>> => DOMAIN s = {}
  OBVIOUS
<1> QED
  BY <1>2, <1>3, <1>4, <1>5

\* What sending does to a channel.
LEMMA ChannelAppend ==
    ASSUME NEW s, Channel(s), NEW e
    PROVE  LET t == Append(s, e) IN
           /\ Channel(t) /\ Len(t) = Len(s) + 1 /\ DOMAIN t = 1 .. Len(s) + 1 /\ t # <<>>
           /\ \A i \in DOMAIN s : i \in DOMAIN t /\ t[i] = s[i] /\ i < Len(t)
           /\ t[Len(s) + 1] = e
           /\ \A i \in DOMAIN t : i \in DOMAIN s \/ i = Len(s) + 1
           /\ Head(t) = IF s = <<>> THEN e ELSE Head(s)
           /\ Tail(t) = IF s = <<>> THEN <<>> ELSE Append(Tail(s), e)
<1> DEFINE S == {s[i] : i \in DOMAIN s} \cup {e}
           t == Append(s, e)
<1>1. s \in Seq(S) /\ e \in S
  BY DEF Channel, In
<1> HIDE DEF S
<1>2. /\ t \in Seq(S) /\ Len(t) = Len(s) + 1 /\ DOMAIN t = 1 .. Len(s) + 1 /\ t # <<>> /\ DOMAIN s = 1 .. Len(s)
      /\ Len(s) \in Nat
      /\ \A i \in DOMAIN s : i \in DOMAIN t /\ t[i] = s[i]
      /\ t[Len(s) + 1] = e
  BY <1>1
<1>3. Tail(t) = IF s = <<>> THEN <<>> ELSE Append(Tail(s), e)
  <2>1. CASE s = <<>>
    BY <1>1, <2>1
  <2>2. CASE s # <<>>
    BY <1>1, <2>2
  <2> QED
    BY <2>1, <2>2
<1>4. Head(t) = IF s = <<>> THEN e ELSE Head(s)
  BY <1>1
<1> HIDE DEF t
<1>5. Channel(t)
  BY <1>2 DEF Channel, In
<1>6. \A i \in DOMAIN t : i \in DOMAIN s \/ i = Len(s) + 1
  BY <1>2
<1>7. \A i \in DOMAIN s : i < Len(t)
  BY <1>2
<1> QED
  BY <1>2, <1>3, <1>4, <1>5, <1>6, <1>7 DEF t

----------------------------------------------------------------------------
(* The messages of some kinds, in their order.                             *)

\* A set of numbers has a smallest one.
LEMMA LeastNumber ==
    ASSUME NEW T, T \subseteq Nat, T # {}
    PROVE  \E x \in T : \A y \in T : x <= y
<1> DEFINE R == OpToRel(<, Nat)
<1>1. IsWellFoundedOn(R, Nat)
  BY NatLessThanWellFounded
<1>2. \A x, y \in Nat : y < x => <<y, x>> \in R
  BY DEF OpToRel
<1> HIDE DEF R
<1>3. PICK x \in T : \A y \in T : ~ (<<y, x>> \in R)
  BY <1>1, WFMin
<1>4. \A y \in T : ~ (y < x)
  BY <1>2, <1>3
<1>5. \A y \in T : x <= y
  BY <1>4
<1> QED
  BY <1>5

\* Those up to a position.
UpTo(s, K, i) == {j \in Positions(s, K) : j <= i}

\* They can be counted.
LEMMA RankTyped ==
    ASSUME NEW s, Channel(s), NEW K
    PROVE  /\ IsFiniteSet(Positions(s, K)) /\ Cardinality(Positions(s, K)) \in Nat
           /\ Positions(s, K) \subseteq 1 .. Len(s) /\ Len(s) \in Nat
           /\ \A i \in Nat : /\ Rank(s, K, i) = Cardinality(UpTo(s, K, i)) /\ Rank(s, K, i) \in Nat
                             /\ IsFiniteSet(UpTo(s, K, i)) /\ Rank(s, K, i) <= Cardinality(Positions(s, K))
           /\ Rank(s, K, 0) = 0 /\ Rank(s, K, Len(s)) = Cardinality(Positions(s, K))
<1> DEFINE P == Positions(s, K)
<1>1. Len(s) \in Nat /\ DOMAIN s = 1 .. Len(s)
  BY ChannelIs
<1>2. P \subseteq 1 .. Len(s)
  BY <1>1 DEF Positions
<1>3. IsFiniteSet(1 .. Len(s))
  BY <1>1, FS_Interval
<1>4. IsFiniteSet(P)
  BY <1>2, <1>3, FS_Subset
<1>5. Cardinality(P) \in Nat
  BY <1>4, FS_CardinalityType
<1> HIDE DEF P
<1>6. ASSUME NEW i \in Nat
      PROVE  /\ Rank(s, K, i) = Cardinality(UpTo(s, K, i)) /\ Rank(s, K, i) \in Nat
             /\ IsFiniteSet(UpTo(s, K, i)) /\ Rank(s, K, i) <= Cardinality(P)
  <2>1. Rank(s, K, i) = Cardinality(UpTo(s, K, i)) /\ UpTo(s, K, i) \in SUBSET P
    BY DEF Rank, UpTo, P
  <2>2. IsFiniteSet(UpTo(s, K, i)) /\ Cardinality(UpTo(s, K, i)) <= Cardinality(P)
    BY <1>4, <2>1, FS_Subset
  <2>3. Cardinality(UpTo(s, K, i)) \in Nat
    BY <2>2, FS_CardinalityType
  <2> QED
    BY <2>1, <2>2, <2>3
<1>7. Rank(s, K, 0) = 0
  <2>0. \A j \in P : ~ (j <= 0)
    BY <1>1, <1>2
  <2>1. {j \in P : j <= 0} = {}
    BY <2>0, Zenon
  <2> QED
    BY <2>1, FS_EmptySet DEF Rank, P
<1>8. Rank(s, K, Len(s)) = Cardinality(P)
  <2>0. \A j \in P : j <= Len(s)
    BY <1>1, <1>2
  <2>1. {j \in P : j <= Len(s)} = P
    BY <2>0, Zenon
  <2> QED
    BY <2>1 DEF Rank, P
<1> QED
  BY <1>1, <1>2, <1>4, <1>5, <1>6, <1>7, <1>8 DEF P

\* A message of another kind does not count.
LEMMA RankStep ==
    ASSUME NEW s, Channel(s), NEW K, NEW i \in Nat
    PROVE  Rank(s, K, i + 1) = IF i + 1 \in Positions(s, K) THEN Rank(s, K, i) + 1 ELSE Rank(s, K, i)
<1>1. Positions(s, K) \subseteq Nat /\ i + 1 \in Nat
  BY RankTyped
<1>2. i + 1 \notin UpTo(s, K, i) /\ IsFiniteSet(UpTo(s, K, i))
  <2>1. ~ (i + 1 <= i)
    OBVIOUS
  <2>2. i + 1 \notin UpTo(s, K, i)
    BY <2>1, Zenon DEF UpTo
  <2> QED
    BY <2>2, RankTyped
<1>3. Rank(s, K, i + 1) = Cardinality(UpTo(s, K, i + 1)) /\ Rank(s, K, i) = Cardinality(UpTo(s, K, i))
  BY <1>1, RankTyped
<1>4. CASE i + 1 \in Positions(s, K)
  <2>1. UpTo(s, K, i + 1) = UpTo(s, K, i) \cup {i + 1}
    BY <1>1, <1>4 DEF UpTo
  <2>2. Cardinality(UpTo(s, K, i) \cup {i + 1}) = Cardinality(UpTo(s, K, i)) + 1
    BY <1>2, FS_AddElement
  <2> QED
    BY <1>3, <1>4, <2>1, <2>2
<1>5. CASE i + 1 \notin Positions(s, K)
  <2>1. UpTo(s, K, i + 1) = UpTo(s, K, i)
    BY <1>1, <1>5 DEF UpTo
  <2> QED
    BY <1>3, <1>5, <2>1
<1> QED
  BY <1>4, <1>5

\* Later ones have a higher rank.
LEMMA RankGrows ==
    ASSUME NEW s, Channel(s), NEW K, NEW i \in Nat, NEW j \in Positions(s, K), i < j
    PROVE  Rank(s, K, i) < Rank(s, K, j)
<1>0. j \in Nat
  BY RankTyped
<1>1. j \in Nat /\ j - 1 \in Nat /\ (j - 1) + 1 = j /\ i <= j - 1
  BY <1>0
<1>2. Rank(s, K, j) = Rank(s, K, j - 1) + 1
  <2>1. Rank(s, K, (j - 1) + 1) = IF (j - 1) + 1 \in Positions(s, K) THEN Rank(s, K, j - 1) + 1 ELSE Rank(s, K, j - 1)
    BY <1>1, RankStep
  <2> QED
    BY <1>1, <2>1
<1>3. UpTo(s, K, i) \in SUBSET UpTo(s, K, j - 1)
  <2>1. Positions(s, K) \subseteq Nat
    BY RankTyped
  <2> QED
    BY <1>1, <2>1 DEF UpTo
<1>4. Rank(s, K, i) <= Rank(s, K, j - 1)
  <2>1. IsFiniteSet(UpTo(s, K, j - 1)) /\ Rank(s, K, j - 1) = Cardinality(UpTo(s, K, j - 1))
        /\ Rank(s, K, i) = Cardinality(UpTo(s, K, i))
    BY <1>1, RankTyped
  <2> QED
    BY <1>3, <2>1, FS_Subset
<1>5. Rank(s, K, i) \in Nat /\ Rank(s, K, j - 1) \in Nat
  BY <1>1, RankTyped
<1> QED
  BY <1>2, <1>4, <1>5

\* Every rank is taken.
LEMMA RankFound ==
    ASSUME NEW s, Channel(s), NEW K, NEW k \in 1 .. Cardinality(Positions(s, K))
    PROVE  \E i \in Positions(s, K) : Rank(s, K, i) = k
<1> DEFINE T == {i \in Nat : Rank(s, K, i) >= k}
<1>1. Len(s) \in Nat /\ Rank(s, K, Len(s)) = Cardinality(Positions(s, K)) /\ Cardinality(Positions(s, K)) \in Nat
      /\ Rank(s, K, 0) = 0 /\ \A i \in Nat : Rank(s, K, i) \in Nat
  BY RankTyped
<1>2. Len(s) \in T
  BY <1>1
<1>3. PICK x \in T : \A y \in T : x <= y
  BY <1>2, LeastNumber
<1>4. x \in Nat /\ x # 0
  BY <1>1, <1>3
<1>5. x - 1 \in Nat /\ (x - 1) + 1 = x
  BY <1>4
<1>6. Rank(s, K, x - 1) < k
  <2>1. x - 1 \notin T
    BY <1>3, <1>5
  <2>2. Rank(s, K, x - 1) \in Nat
    BY <1>1, <1>5
  <2> QED
    BY <1>5, <2>1, <2>2
<1>7. Rank(s, K, x) = IF x \in Positions(s, K) THEN Rank(s, K, x - 1) + 1 ELSE Rank(s, K, x - 1)
  <2>1. Rank(s, K, (x - 1) + 1) = IF (x - 1) + 1 \in Positions(s, K) THEN Rank(s, K, x - 1) + 1 ELSE Rank(s, K, x - 1)
    BY <1>5, RankStep
  <2> QED
    BY <1>5, <2>1
<1>8. Rank(s, K, x) >= k /\ Rank(s, K, x) \in Nat /\ Rank(s, K, x - 1) \in Nat
  BY <1>1, <1>3, <1>5
<1>9. x \in Positions(s, K) /\ Rank(s, K, x) = k
  BY <1>6, <1>7, <1>8
<1> QED
  BY <1>9

\* What the k-th message is.
LEMMA OfAt ==
    ASSUME NEW s, Channel(s), NEW K
    PROVE  /\ DOMAIN Of(s, K) = 1 .. Cardinality(Positions(s, K))
           /\ \A i \in Positions(s, K) : Rank(s, K, i) \in DOMAIN Of(s, K) /\ Of(s, K)[Rank(s, K, i)] = s[i]
           /\ Channel(Of(s, K)) /\ Len(Of(s, K)) = Cardinality(Positions(s, K))
           /\ \A k \in DOMAIN Of(s, K) : \E i \in Positions(s, K) : Rank(s, K, i) = k /\ Of(s, K)[k] = s[i]
<1> DEFINE n == Cardinality(Positions(s, K))
           o == Of(s, K)
<1>1. n \in Nat /\ Positions(s, K) \subseteq Nat \ {0}
  BY RankTyped
<1>2. DOMAIN o = 1 .. n
  BY DEF Of
<1>3. ASSUME NEW i \in Positions(s, K)
      PROVE  Rank(s, K, i) \in 1 .. n /\ o[Rank(s, K, i)] = s[i]
  <2>1. Rank(s, K, i) \in Nat /\ Rank(s, K, i) <= n /\ Rank(s, K, 0) < Rank(s, K, i) /\ Rank(s, K, 0) = 0
    BY <1>1, RankTyped, RankGrows
  <2>2. Rank(s, K, i) \in 1 .. n
    BY <1>1, <2>1
  <2> DEFINE j == CHOOSE j \in Positions(s, K) : Rank(s, K, j) = Rank(s, K, i)
  <2>3. j \in Positions(s, K) /\ Rank(s, K, j) = Rank(s, K, i)
    OBVIOUS
  <2>4. o[Rank(s, K, i)] = s[j]
    BY <2>2 DEF Of
  <2> HIDE DEF j
  <2>5. j = i
    <3>1. i \in Nat /\ j \in Nat
      BY <1>1, <2>3
    <3>2. ~ (i < j)
      BY <2>1, <2>3, <3>1, RankGrows
    <3>3. ~ (j < i)
      BY <2>1, <2>3, <3>1, RankGrows
    <3> QED
      BY <3>1, <3>2, <3>3
  <2> QED
    BY <2>2, <2>4, <2>5
<1> HIDE DEF o
<1>4. \A k \in 1 .. n : \E i \in Positions(s, K) : Rank(s, K, i) = k /\ o[k] = s[i]
  BY <1>3, RankFound
<1>5. o = [k \in 1 .. n |-> o[k]]
  BY DEF o, Of
<1>6. Channel(o) /\ Len(o) = n
  <2> DEFINE S == {o[i] : i \in 1 .. n}
  <2>1. o \in [1 .. n -> S]
    BY <1>5
  <2> HIDE DEF S
  <2>2. o \in Seq(S) /\ Len(o) = n
    BY <1>1, <2>1
  <2> QED
    BY <1>2, <2>2 DEF Channel, In, S
<1> QED
  BY <1>2, <1>3, <1>4, <1>6 DEF o

\* A channel is known by its messages.
LEMMA SameChannel ==
    ASSUME NEW s, Channel(s), NEW t, Channel(t), Len(s) = Len(t), \A i \in 1 .. Len(s) : s[i] = t[i]
    PROVE  s = t
<1> DEFINE S == {s[i] : i \in DOMAIN s} \cup {t[i] : i \in DOMAIN t}
<1>1. s \in Seq(S) /\ t \in Seq(S)
  BY DEF Channel, In
<1> HIDE DEF S
<1> QED
  BY <1>1

\* An empty channel holds none.
LEMMA OfEmpty ==
    ASSUME NEW K
    PROVE  Of(<<>>, K) = <<>> /\ Channel(<<>>)
<1>1. Channel(<<>>)
  BY DEF Channel, In
<1>2. Positions(<<>>, K) = {}
  BY DEF Positions
<1>3. Len(Of(<<>>, K)) = 0 /\ Channel(Of(<<>>, K))
  BY <1>1, <1>2, OfAt, FS_EmptySet
<1>4. Len(<<>>) = 0
  OBVIOUS
<1>5. Of(<<>>, K) = <<>>
  BY <1>1, <1>3, <1>4, SameChannel
<1> QED
  BY <1>1, <1>5

\* A message that is sent is the last of its kind.
LEMMA OfAppend ==
    ASSUME NEW s, Channel(s), NEW K, NEW e
    PROVE  Of(Append(s, e), K) = IF e.kind \in K THEN Append(Of(s, K), e) ELSE Of(s, K)
<1> DEFINE t == Append(s, e)
           m == Len(s) + 1
           n == Cardinality(Positions(s, K))
<1>1. /\ Channel(t) /\ DOMAIN t = 1 .. m /\ t[m] = e /\ Len(s) \in Nat /\ DOMAIN s = 1 .. Len(s)
      /\ \A i \in DOMAIN s : t[i] = s[i]
  BY ChannelAppend, ChannelIs
<1> HIDE DEF t
<1>2. DOMAIN t = DOMAIN s \cup {m} /\ m \in Nat /\ m \notin DOMAIN s /\ \A i \in DOMAIN s : i \in Nat /\ i < m
  BY <1>1
<1> HIDE DEF m
<1>3. Positions(t, K) = IF e.kind \in K THEN Positions(s, K) \cup {m} ELSE Positions(s, K)
  BY <1>1, <1>2 DEF Positions
<1>4. Positions(s, K) \subseteq DOMAIN s
  BY DEF Positions
<1>5. \A i \in Positions(s, K) : UpTo(t, K, i) = UpTo(s, K, i) /\ Rank(t, K, i) = Rank(s, K, i)
  <2> SUFFICES ASSUME NEW i \in Positions(s, K)
               PROVE  UpTo(t, K, i) = UpTo(s, K, i) /\ Rank(t, K, i) = Rank(s, K, i)
    OBVIOUS
  <2>1. i \in Nat /\ i < m
    BY <1>2, <1>4
  <2>2. ~ (m <= i)
    BY <1>2, <2>1
  <2>3. UpTo(t, K, i) = UpTo(s, K, i)
    BY <1>3, <2>2 DEF UpTo
  <2>4. Rank(t, K, i) = Cardinality(UpTo(t, K, i))
    BY <1>1, <2>1, RankTyped
  <2>5. Rank(s, K, i) = Cardinality(UpTo(s, K, i))
    BY <2>1, RankTyped
  <2> QED
    BY <2>3, <2>4, <2>5
<1>6. IsFiniteSet(Positions(s, K)) /\ n \in Nat /\ Len(Of(s, K)) = n /\ Channel(Of(s, K)) /\ DOMAIN Of(s, K) = 1 .. n
  BY RankTyped, OfAt
<1>7. Channel(Of(t, K)) /\ Len(Of(t, K)) = Cardinality(Positions(t, K))
  BY <1>1, OfAt
<1>8. ASSUME NEW k \in 1 .. n PROVE Of(t, K)[k] = Of(s, K)[k]
  <2>1. PICK i \in Positions(s, K) : Rank(s, K, i) = k /\ Of(s, K)[k] = s[i]
    BY <1>6, OfAt
  <2>2. i \in Positions(t, K) /\ Rank(t, K, i) = k /\ t[i] = s[i]
    BY <1>1, <1>3, <1>4, <1>5, <2>1
  <2>3. Of(t, K)[Rank(t, K, i)] = t[i]
    <3>0. Channel(t)
      BY <1>1
    <3>1. \A j \in Positions(t, K) : Of(t, K)[Rank(t, K, j)] = t[j]
      BY ONLY <3>0, OfAt
    <3> QED
      BY <2>2, <3>1
  <2> QED
    BY <2>1, <2>2, <2>3
<1>9. CASE e.kind \notin K
  <2>1. Len(Of(t, K)) = Len(Of(s, K)) /\ \A k \in 1 .. Len(Of(t, K)) : Of(t, K)[k] = Of(s, K)[k]
    BY <1>3, <1>6, <1>7, <1>8, <1>9
  <2>2. Of(t, K) = Of(s, K)
    BY <1>6, <1>7, <2>1, SameChannel
  <2> QED
    BY <1>9, <2>2 DEF t
<1>10. CASE e.kind \in K
  <2> DEFINE u == Append(Of(s, K), e)
  <2>1. Channel(u) /\ Len(u) = n + 1 /\ u[n + 1] = e /\ \A k \in 1 .. n : u[k] = Of(s, K)[k]
    BY <1>6, ChannelAppend
  <2> HIDE DEF u
  <2>2. Cardinality(Positions(t, K)) = n + 1
    <3>1. m \notin Positions(s, K)
      BY <1>2, <1>4
    <3> QED
      BY <1>3, <1>6, <1>10, <3>1, FS_AddElement
  <2>3. Of(t, K)[n + 1] = e
    <3>1. m \in Positions(t, K)
      BY <1>3, <1>10
    <3>2. Rank(t, K, m) = n + 1
      <4>1. \A j \in Positions(t, K) : j <= m
        BY <1>2, <1>3, <1>4
      <4>2. UpTo(t, K, m) = Positions(t, K)
        BY <4>1, Zenon DEF UpTo
      <4> QED
        BY <1>1, <1>2, <2>2, <4>2, RankTyped
    <3> QED
      BY <1>1, <3>1, <3>2, OfAt
  <2>4. ASSUME NEW k \in 1 .. Len(Of(t, K)) PROVE Of(t, K)[k] = u[k]
    <3>1. k \in 1 .. n \/ k = n + 1
      BY <1>6, <1>7, <2>2
    <3> QED
      BY <1>8, <2>1, <2>3, <3>1
  <2>5. Of(t, K) = u
    BY <1>7, <2>1, <2>2, <2>4, SameChannel
  <2> QED
    BY <1>10, <2>5 DEF t, u
<1> QED
  BY <1>9, <1>10

\* The first message leaves; if it counts it was the first that counts.
LEMMA OfTail ==
    ASSUME NEW s, Channel(s), s # <<>>, NEW K
    PROVE  /\ Of(Tail(s), K) = IF Head(s).kind \in K THEN Tail(Of(s, K)) ELSE Of(s, K)
           /\ Head(s).kind \in K => Of(s, K) # <<>> /\ Head(Of(s, K)) = Head(s)
<1> DEFINE t == Tail(s)
           c == IF Head(s).kind \in K THEN 1 ELSE 0
           n == Cardinality(Positions(s, K))
<1>1. /\ Channel(t) /\ Len(s) > 0 /\ 1 \in DOMAIN s /\ Head(s) = s[1] /\ Len(s) = Len(t) + 1 /\ Len(t) \in Nat
      /\ DOMAIN t = 1 .. Len(t) /\ DOMAIN s = 1 .. Len(t) + 1
      /\ \A i \in DOMAIN t : i + 1 \in DOMAIN s /\ t[i] = s[i + 1]
  BY ChannelIs
<1> HIDE DEF t
<1>2. c \in {0, 1} /\ (c = 1 <=> Head(s).kind \in K)
  OBVIOUS
<1>3. \A i \in Nat : i + 1 \in Positions(s, K) <=> IF i = 0 THEN c = 1 ELSE i \in Positions(t, K)
  BY <1>1, <1>2 DEF Positions
<1> HIDE DEF c
<1>4. \A i \in Nat : Rank(s, K, i + 1) = Rank(t, K, i) + c
  <2> DEFINE T == {i \in Nat : Rank(s, K, i + 1) # Rank(t, K, i) + c}
  <2> SUFFICES ASSUME T # {} PROVE FALSE
    OBVIOUS
  <2>1. PICK x \in T : \A y \in T : x <= y
    BY LeastNumber
  <2>2. x \in Nat /\ Rank(s, K, x + 1) # Rank(t, K, x) + c
    BY <2>1
  <2>3. Rank(s, K, 0) = 0 /\ Rank(t, K, 0) = 0
    BY <1>1, RankTyped
  <2>4. CASE x = 0
    <3>1. Rank(s, K, 0 + 1) = IF 0 + 1 \in Positions(s, K) THEN Rank(s, K, 0) + 1 ELSE Rank(s, K, 0)
      BY RankStep
    <3>2. 0 + 1 \in Positions(s, K) <=> c = 1
      BY <1>3
    <3> QED
      BY <1>2, <2>2, <2>3, <2>4, <3>1, <3>2
  <2>5. CASE x # 0
    <3>1. x - 1 \in Nat /\ (x - 1) + 1 = x
      BY <2>2, <2>5
    <3>2. x - 1 \notin T
      BY <2>1, <3>1
    <3>3. Rank(s, K, x) = Rank(t, K, x - 1) + c
      BY <3>1, <3>2
    <3> HIDE DEF T
    <3>4. Rank(s, K, x + 1) = IF x + 1 \in Positions(s, K) THEN Rank(s, K, x) + 1 ELSE Rank(s, K, x)
      BY <2>2, RankStep
    <3>5. Rank(t, K, (x - 1) + 1) = IF (x - 1) + 1 \in Positions(t, K) THEN Rank(t, K, x - 1) + 1 ELSE Rank(t, K, x - 1)
      BY <1>1, <3>1, RankStep
    <3>6. x + 1 \in Positions(s, K) <=> x \in Positions(t, K)
      BY <1>3, <2>2, <2>5
    <3>7. Rank(t, K, x - 1) \in Nat /\ Rank(s, K, x) \in Nat
      BY <1>1, <2>2, <3>1, RankTyped
    <3> QED
      BY <1>2, <2>2, <3>1, <3>3, <3>4, <3>5, <3>6, <3>7
  <2> QED
    BY <2>4, <2>5
<1>5. n = Cardinality(Positions(t, K)) + c /\ n \in Nat /\ Cardinality(Positions(t, K)) \in Nat
  <2>1. Rank(s, K, Len(s)) = n /\ Rank(t, K, Len(t)) = Cardinality(Positions(t, K)) /\ n \in Nat
        /\ Cardinality(Positions(t, K)) \in Nat
    BY <1>1, RankTyped
  <2>2. Rank(s, K, Len(t) + 1) = Rank(t, K, Len(t)) + c
    BY <1>1, <1>4
  <2> QED
    BY <1>1, <2>1, <2>2
<1>6. Channel(Of(s, K)) /\ Len(Of(s, K)) = n /\ Channel(Of(t, K)) /\ Len(Of(t, K)) = Cardinality(Positions(t, K))
      /\ DOMAIN Of(t, K) = 1 .. Cardinality(Positions(t, K))
  BY <1>1, OfAt
<1> HIDE DEF n
<1>7. ASSUME NEW k \in 1 .. Len(Of(t, K)) PROVE Of(t, K)[k] = Of(s, K)[k + c]
  <2>1. PICK i \in Positions(t, K) : Rank(t, K, i) = k /\ Of(t, K)[k] = t[i]
    BY <1>1, <1>6, OfAt
  <2>2. i \in DOMAIN t /\ i \in Nat /\ i # 0
    BY <1>1, <2>1 DEF Positions
  <2>3. i + 1 \in Positions(s, K) /\ t[i] = s[i + 1] /\ Rank(s, K, i + 1) = k + c
    BY <1>1, <1>3, <1>4, <2>1, <2>2
  <2>4. Of(s, K)[Rank(s, K, i + 1)] = s[i + 1]
    BY <2>3, OfAt
  <2> QED
    BY <2>1, <2>3, <2>4
<1>8. CASE Head(s).kind \notin K
  <2>1. c = 0
    BY <1>2, <1>8
  <2>2. Len(Of(t, K)) = Len(Of(s, K)) /\ \A k \in 1 .. Len(Of(t, K)) : Of(t, K)[k] = Of(s, K)[k]
    BY <1>5, <1>6, <1>7, <2>1
  <2>3. Of(t, K) = Of(s, K)
    BY <1>6, <2>2, SameChannel
  <2> QED
    BY <1>8, <2>3 DEF t
<1>9. CASE Head(s).kind \in K
  <2> DEFINE o == Of(s, K)
             u == Tail(o)
  <2>1. c = 1 /\ n > 0
    BY <1>2, <1>5, <1>9
  <2>2. o # <<>>
    BY <1>6, <2>1
  <2>3. /\ Channel(u) /\ Len(o) = Len(u) + 1 /\ Head(o) = o[1] /\ Len(u) \in Nat
        /\ \A i \in 1 .. Len(u) : u[i] = o[i + 1]
    <3>1. /\ Channel(u) /\ Len(o) = Len(u) + 1 /\ Head(o) = o[1]
          /\ \A i \in DOMAIN u : u[i] = o[i + 1]
      BY <1>6, <2>2, ChannelIs
    <3>2. Len(u) \in Nat /\ DOMAIN u = 1 .. Len(u)
      BY <3>1, ChannelIs
    <3> QED
      BY <3>1, <3>2
  <2> HIDE DEF o, u
  <2>4. Len(Of(t, K)) = Len(u) /\ \A k \in 1 .. Len(Of(t, K)) : Of(t, K)[k] = u[k]
    BY <1>5, <1>6, <1>7, <2>1, <2>3 DEF o
  <2>5. Of(t, K) = u
    BY <1>6, <2>3, <2>4, SameChannel
  <2>6. o[1] = s[1]
    <3>1. 0 + 1 \in Positions(s, K) /\ 0 \in Nat /\ 0 + 1 = 1
      BY <1>3, <2>1
    <3>2. Rank(s, K, 0 + 1) = Rank(t, K, 0) + c /\ Rank(t, K, 0) = 0
      BY <1>1, <1>4, <3>1, RankTyped
    <3>3. Of(s, K)[Rank(s, K, 0 + 1)] = s[0 + 1]
      BY <3>1, OfAt
    <3> QED
      BY <2>1, <3>1, <3>2, <3>3 DEF o
  <2> QED
    BY <1>1, <1>9, <2>2, <2>3, <2>5, <2>6 DEF t, o, u
<1> QED
  BY <1>8, <1>9

----------------------------------------------------------------------------
(* What a step does to the two queues.                                     *)

\* A click sends a request.
Asks(k, a) ==
    /\ Send(k, a) /\ k \in Asked /\ ~ pumping
    /\ UNCHANGED <<evts, wakeups, pumping, worker, dbOpen, last, sqlite>>
    /\ \/ k \in Tabs /\ Ask(k)
       \/ k = "scan" /\ StartScan
       \/ k = "export" /\ Export
       \/ k = "runs" /\ LoadRuns
       \/ k = "compare" /\ Compare
       \/ k = "delete" /\ DeleteRun(a) /\ a \in delta.runs
       \/ k = "errors" /\ ShowErrors(a) /\ a \in delta.runs

\* The worker answers the request at the head of the queue.
Answers(e) ==
    /\ worker.pc \in {"recv", "load"} /\ reqs # <<>> /\ Finish /\ Emit(e)
    /\ e.kind = Req.kind /\ e.id = Req.id /\ e.kind \in Asked /\ e.kind # "scan"
    /\ UNCHANGED <<workerOnly, wakeups, dbOpen, last, reading>>
    /\ \/ Analyze /\ e.kind = "analyze"
       \/ Answer /\ e.kind \in Tabs
       \/ ExportReport /\ e.kind = "export"
       \/ ListRuns /\ e.kind = "runs"
       \/ ListRunErrors /\ e.kind = "errors"
       \/ CompareTargets /\ e.kind = "compare" /\ ~ e.ok
       \/ CompareRows /\ e.kind = "compare"
       \/ DeleteScanRun /\ e.kind = "delete"

\* It tells what it found, or that something failed, while it works on a scan.
Tells(e) ==
    /\ worker.pc \in {"scan", "rows"} /\ worker'.pc = "rows" /\ Emit(e)
    /\ e.kind \in {"scan item", "scan error"} /\ e.id = Req.id
    /\ UNCHANGED <<workerOnly, reqs, wakeups, dbOpen, last, sqlite>>
    /\ ScanRejected \/ EvaluateRow

\* The event pump takes an event; the news of a deletion makes it ask for the list again.
Sees ==
    /\ pumping /\ evts # <<>> /\ evts' = Tail(evts) /\ pumping' = (Tail(evts) # <<>>)
    /\ UNCHANGED pumpOnly
    /\ \/ UNCHANGED <<issued, reqs>>
       \/ Event.kind = "delete" /\ Send("runs", None)
    /\ \/ ShowAnswer /\ Event.kind \in Tabs
       \/ ShowProgress /\ Event.kind \in Progress
       \/ ShowScanDone /\ Event.kind = "scan"
       \/ ShowExport /\ Event.kind = "export"
       \/ ShowRuns /\ Event.kind = "runs"
       \/ ShowDelta /\ Event.kind = "compare"
       \/ ShowRunErrors /\ Event.kind = "errors"
       \/ ShowDeleted /\ Event.kind = "delete"

\* The queues stay as they are.
Quiet ==
    /\ UNCHANGED <<issued, reqs, evts, dbOpen, last, sqlite, tab>> /\ (pumping' => evts # <<>>) /\ pumping' \in BOOLEAN
    /\ \/ CancelScan \/ (\E side \in {"old", "new"}, r \in delta.runs : Pick(side, r)) \/ ClosePanel
       \/ ScanBegins \/ WalkOn \/ WalkEnds \/ Notify \/ Wake
       \/ CompareTargets /\ worker' = [worker EXCEPT !.pc = "load"]

\* Every step of the window is one of these, the end of a scan or the start of the worker.
LEMMA StepKinds ==
    ASSUME ShapeInv, QueueInv, GuiAssumption, Window
    PROVE  \/ \E k, a : Asks(k, a)
           \/ \E e : Answers(e)
           \/ \E e : Tells(e)
           \/ Sees \/ Quiet \/ ScanDone \/ StartWorker \/ WorkerDies
<1> DEFINE Goal == \/ \E k, a : Asks(k, a)
                   \/ \E e : Answers(e)
                   \/ \E e : Tells(e)
                   \/ Sees \/ Quiet \/ ScanDone \/ StartWorker \/ WorkerDies
<1> HIDE DEF Goal
<1>1. ASSUME NEW t \in Tabs, Ask(t) PROVE Goal
  <2>1. Asks(t, None)
    BY <1>1 DEF Asks, Ask, CanAsk, Clicked, Asked
  <2> QED
    BY <2>1 DEF Goal
<1>2. ASSUME StartScan PROVE Goal
  <2>1. Asks("scan", None)
    BY <1>2 DEF Asks, StartScan, CanAsk, Clicked, Asked, ScanAndDelta
  <2> QED
    BY <2>1 DEF Goal
<1>3. ASSUME Export PROVE Goal
  <2>1. Asks("export", scan.id)
    BY <1>3 DEF Asks, Export, CanAsk, Clicked, Asked, ScanAndDelta
  <2> QED
    BY <2>1 DEF Goal
<1>4. ASSUME LoadRuns PROVE Goal
  <2>1. Asks("runs", None)
    BY <1>4 DEF Asks, LoadRuns, Clicked, Asked, ScanAndDelta
  <2> QED
    BY <2>1 DEF Goal
<1>5. ASSUME Compare PROVE Goal
  <2>1. Asks("compare", <<delta.old, delta.new>>)
    BY <1>5 DEF Asks, Compare, CanAsk, Clicked, Asked, ScanAndDelta
  <2> QED
    BY <2>1 DEF Goal
<1>6. ASSUME NEW r \in delta.runs, DeleteRun(r) PROVE Goal
  <2>1. Asks("delete", r)
    BY <1>6 DEF Asks, DeleteRun, CanAsk, Clicked, Asked, ScanAndDelta
  <2> QED
    BY <2>1 DEF Goal
<1>7. ASSUME NEW r \in delta.runs, ShowErrors(r) PROVE Goal
  <2>1. Asks("errors", r)
    BY <1>7 DEF Asks, ShowErrors, CanAsk, Clicked, Asked, ScanAndDelta
  <2> QED
    BY <2>1 DEF Goal
<1>8. ASSUME \/ CancelScan \/ (\E side \in {"old", "new"}, r \in delta.runs : Pick(side, r)) \/ ClosePanel
      PROVE  Goal
  <2>1. UNCHANGED <<issued, reqs, evts, dbOpen, last, sqlite, tab, pumping>>
    BY <1>8 DEF CancelScan, Pick, ClosePanel
  <2>2. Quiet
    BY <1>8, <2>1 DEF Quiet, QueueInv
  <2> QED
    BY <2>2 DEF Goal
<1>9. ASSUME ScanBegins \/ WalkOn \/ WalkEnds \/ Notify PROVE Goal
  <2>1. UNCHANGED <<issued, reqs, evts, dbOpen, last, sqlite, tab, pumping>>
    BY <1>9 DEF ScanBegins, WalkOn, WalkEnds, Notify, workerOnly, ui
  <2>2. Quiet
    BY <1>9, <2>1 DEF Quiet, QueueInv
  <2> QED
    BY <2>2 DEF Goal
<1>10. ASSUME Wake PROVE Goal
  <2>1. UNCHANGED <<issued, reqs, evts, dbOpen, last, sqlite, tab>> /\ (pumping' => evts # <<>>) /\ pumping' \in BOOLEAN
    BY <1>10 DEF Wake, uiOnly, ui
  <2>2. Quiet
    BY <1>10, <2>1 DEF Quiet
  <2> QED
    BY <2>2 DEF Goal
<1>11. ASSUME Analyze PROVE Goal
  <2>1. PICK e : Emit(e) /\ e.kind = "analyze" /\ e.id = Req.id
    <3>1. PICK run : Emit(Ok("analyze", run)) \/ Emit(Err("analyze"))
      BY <1>11 DEF Analyze
    <3>2. Ok("analyze", run).kind = "analyze" /\ Ok("analyze", run).id = Req.id
      BY DEF Ok
    <3>3. Err("analyze").kind = "analyze" /\ Err("analyze").id = Req.id
      BY DEF Err
    <3> QED
      BY <3>1, <3>2, <3>3
  <2>2. Answers(e)
    BY <1>11, <2>1 DEF Answers, Analyze, Serves, Asked, GuiAssumption, sqlite
  <2> QED
    BY <2>2 DEF Goal
<1>12. ASSUME Answer PROVE Goal
  <2>1. PICK e : Emit(e) /\ e.kind = Req.kind /\ e.id = Req.id
    BY <1>12 DEF Answer, Ok, Err
  <2>2. Answers(e)
    BY <1>12, <2>1 DEF Answers, Answer, Serves, Asked, GuiAssumption, sqlite, ScanAndDelta
  <2> QED
    BY <2>2 DEF Goal
<1>13. ASSUME ExportReport PROVE Goal
  <2>1. PICK e : Emit(e) /\ e.kind = "export" /\ e.id = Req.id
    BY <1>13 DEF ExportReport, Ok, Err
  <2>2. Answers(e)
    BY <1>13, <2>1 DEF Answers, ExportReport, Serves, Asked, sqlite, ScanAndDelta
  <2> QED
    BY <2>2 DEF Goal
<1>14. ASSUME ListRuns PROVE Goal
  <2>1. PICK e : Emit(e) /\ e.kind = "runs" /\ e.id = Req.id
    BY <1>14 DEF ListRuns, Ok, Err
  <2>2. Answers(e)
    BY <1>14, <2>1 DEF Answers, ListRuns, Serves, Asked, sqlite, ScanAndDelta
  <2> QED
    BY <2>2 DEF Goal
<1>15. ASSUME ListRunErrors PROVE Goal
  <2>1. PICK e : Emit(e) /\ e.kind = "errors" /\ e.id = Req.id
    BY <1>15 DEF ListRunErrors, Ok, Err
  <2>2. Answers(e)
    BY <1>15, <2>1 DEF Answers, ListRunErrors, Serves, Asked, sqlite, ScanAndDelta
  <2> QED
    BY <2>2 DEF Goal
<1>16. ASSUME CompareTargets PROVE Goal
  <2>1. CASE worker' = [worker EXCEPT !.pc = "load"] /\ UNCHANGED <<reqs, evts>>
    <3>1. UNCHANGED <<issued, reqs, evts, dbOpen, last, sqlite, tab, pumping>>
      BY <1>16, <2>1 DEF CompareTargets, workerOnly, ui
    <3>2. Quiet
      BY <1>16, <2>1, <3>1 DEF Quiet, QueueInv
    <3> QED
      BY <3>2 DEF Goal
  <2>2. CASE Finish /\ Emit(Err("compare"))
    <3>1. PICK e : e = Err("compare")
      OBVIOUS
    <3>2. Emit(e) /\ e.kind = "compare" /\ e.id = Req.id /\ ~ e.ok
      BY <2>2, <3>1 DEF Err
    <3>3. Answers(e)
      BY <1>16, <2>2, <3>2 DEF Answers, CompareTargets, Serves, Asked, sqlite, ScanAndDelta
    <3> QED
      BY <3>3 DEF Goal
  <2> QED
    BY <1>16, <2>1, <2>2 DEF CompareTargets
<1>17. ASSUME CompareRows PROVE Goal
  <2>1. PICK e : Emit(e) /\ e.kind = "compare" /\ e.id = Req.id
    BY <1>17 DEF CompareRows, Ok, Err
  <2>2. reqs # <<>> /\ Req.kind = "compare"
    BY <1>17 DEF CompareRows, Mine, QueueInv, Req
  <2>3. Answers(e)
    BY <1>17, <2>1, <2>2 DEF Answers, CompareRows, Mine, Asked, sqlite, ScanAndDelta
  <2> QED
    BY <2>3 DEF Goal
<1>18. ASSUME DeleteScanRun PROVE Goal
  <2>1. PICK e : Emit(e) /\ e.kind = "delete" /\ e.id = Req.id
    BY <1>18 DEF DeleteScanRun, Ok, Err
  <2>2. Answers(e)
    BY <1>18, <2>1 DEF Answers, DeleteScanRun, Serves, Asked, sqlite, ScanAndDelta
  <2> QED
    BY <2>2 DEF Goal
<1>19. ASSUME ScanRejected PROVE Goal
  <2>1. PICK e : Emit(e) /\ e.kind = "scan error" /\ e.id = Req.id
    <3> DEFINE e == [Err("scan error") EXCEPT !.value = <<worker.id>>]
    <3>1. e.kind = "scan error" /\ e.id = Req.id
      BY DEF Err
    <3>2. Emit(e)
      BY <1>19 DEF ScanRejected
    <3> HIDE DEF e
    <3> QED
      BY <3>1, <3>2
  <2>2. worker'.pc = "rows"
    BY <1>19 DEF ScanRejected, ShapeInv
  <2>3. Tells(e)
    BY <1>19, <2>1, <2>2 DEF Tells, ScanRejected, Mine
  <2> QED
    BY <2>3 DEF Goal
<1>20. ASSUME EvaluateRow PROVE Goal
  <2>1. PICK e : Emit(e) /\ e.kind \in {"scan item", "scan error"} /\ e.id = Req.id
    <3> DEFINE e == [Err("scan error") EXCEPT !.value = <<worker.id>>]
               o == Ok("scan item", Row(worker.id, Evaluated + 1))
    <3>1. e.kind = "scan error" /\ e.id = Req.id /\ o.kind = "scan item" /\ o.id = Req.id
      BY DEF Err, Ok
    <3>2. Emit(e) \/ Emit(o)
      BY <1>20 DEF EvaluateRow
    <3> HIDE DEF e, o
    <3> QED
      BY <3>1, <3>2
  <2>2. worker'.pc = "rows"
    BY <1>20 DEF EvaluateRow, ShapeInv, Mine
  <2>3. Tells(e)
    BY <1>20, <2>1, <2>2 DEF Tells, EvaluateRow, Mine
  <2> QED
    BY <2>3 DEF Goal
<1>21. ASSUME ShowAnswer PROVE Goal
  <2>1. pumping /\ evts # <<>> /\ UNCHANGED <<issued, reqs, pumpOnly>>
    BY <1>21 DEF ShowAnswer, Handles, QueueInv
  <2>2. Sees
    BY <1>21, <2>1 DEF Sees, ShowAnswer, Handles, StillPumping
  <2> QED
    BY <2>2 DEF Goal
<1>22. ASSUME ShowProgress PROVE Goal
  <2>1. pumping /\ evts # <<>> /\ UNCHANGED <<issued, reqs, pumpOnly>>
    BY <1>22 DEF ShowProgress, Handles, QueueInv
  <2>2. Sees
    BY <1>22, <2>1 DEF Sees, ShowProgress, Handles, StillPumping, Progress
  <2> QED
    BY <2>2 DEF Goal
<1>23. ASSUME ShowScanDone PROVE Goal
  <2>1. pumping /\ evts # <<>> /\ UNCHANGED <<issued, reqs, pumpOnly>>
    BY <1>23 DEF ShowScanDone, Handles, QueueInv
  <2>2. Sees
    BY <1>23, <2>1 DEF Sees, ShowScanDone, Handles, StillPumping
  <2> QED
    BY <2>2 DEF Goal
<1>24. ASSUME ShowExport PROVE Goal
  <2>1. pumping /\ evts # <<>> /\ UNCHANGED <<issued, reqs, pumpOnly>>
    BY <1>24 DEF ShowExport, Handles, QueueInv
  <2>2. Sees
    BY <1>24, <2>1 DEF Sees, ShowExport, Handles, StillPumping
  <2> QED
    BY <2>2 DEF Goal
<1>25. ASSUME ShowRuns PROVE Goal
  <2>1. pumping /\ evts # <<>> /\ UNCHANGED <<issued, reqs, pumpOnly>>
    BY <1>25 DEF ShowRuns, Handles, QueueInv
  <2>2. Sees
    BY <1>25, <2>1 DEF Sees, ShowRuns, Handles, StillPumping
  <2> QED
    BY <2>2 DEF Goal
<1>26. ASSUME ShowDelta PROVE Goal
  <2>1. pumping /\ evts # <<>> /\ UNCHANGED <<issued, reqs, pumpOnly>>
    BY <1>26 DEF ShowDelta, Handles, QueueInv
  <2>2. Sees
    BY <1>26, <2>1 DEF Sees, ShowDelta, Handles, StillPumping
  <2> QED
    BY <2>2 DEF Goal
<1>27. ASSUME ShowRunErrors PROVE Goal
  <2>1. pumping /\ evts # <<>> /\ UNCHANGED <<issued, reqs, pumpOnly>>
    BY <1>27 DEF ShowRunErrors, Handles, QueueInv
  <2>2. Sees
    BY <1>27, <2>1 DEF Sees, ShowRunErrors, Handles, StillPumping
  <2> QED
    BY <2>2 DEF Goal
<1>28. ASSUME ShowDeleted PROVE Goal
  <2>1. UNCHANGED <<issued, reqs>> \/ Send("runs", None)
    BY <1>28 DEF ShowDeleted
  <2>2. pumping /\ evts # <<>> /\ UNCHANGED pumpOnly
    BY <1>28 DEF ShowDeleted, Handles, QueueInv
  <2>3. Sees
    BY <1>28, <2>1, <2>2 DEF Sees, ShowDeleted, Handles, StillPumping
  <2> QED
    BY <2>3 DEF Goal
<1>29. ASSUME ScanDone \/ StartWorker \/ WorkerDies PROVE Goal
  BY <1>29 DEF Goal
<1>30. ASSUME Click PROVE Goal
  BY <1>1, <1>2, <1>3, <1>4, <1>5, <1>6, <1>7, <1>8, <1>30, Zenon DEF Click
<1>31. ASSUME Worker PROVE Goal
  BY <1>9, <1>11, <1>12, <1>13, <1>14, <1>15, <1>16, <1>17, <1>18, <1>19, <1>20, <1>29, <1>31, Zenon DEF Worker
<1>32. ASSUME Pump PROVE Goal
  BY <1>10, <1>21, <1>22, <1>23, <1>24, <1>25, <1>26, <1>27, <1>28, <1>32, Zenon DEF Pump
<1> QED
  BY <1>30, <1>31, <1>32 DEF Window, Goal

\* Every step keeps the fields of the state.
LEMMA ShapeStep ==
    ASSUME ShapeInv, QueueInv, GuiAssumption, Window
    PROVE  ShapeInv'
<1> DEFINE W == /\ DOMAIN worker = {"pc", "id", "rows", "found", "errors", "cancelled"}
                /\ worker.pc \in {"start", "dead", "recv", "scan", "rows", "load", "notify"}
                /\ worker.cancelled \in BOOLEAN
           S == DOMAIN scan = {"running", "done", "id", "rows", "errors", "risks", "run", "cancelled",
                               "isError", "cancelClicked", "export"}
           D == /\ DOMAIN delta = {"loading", "runs", "old", "new", "result", "title", "errors"}
                /\ delta.old \in delta.runs \cup {None} /\ delta.new \in delta.runs \cup {None}
           T == DOMAIN tab = Tabs /\ \A t \in Tabs : DOMAIN tab[t] = {"running", "asked", "shown"}
           C == cancel \in BOOLEAN
           L == lock \in {Nobody, "worker", "cli"} /\ (deleting # {} <=> lock = "worker")
           P == \A r \in DOMAIN store : store[r].partial \in BOOLEAN
<1>0. W /\ S /\ D /\ T /\ C /\ L /\ P
  BY DEF ShapeInv
<1> SUFFICES W' /\ S' /\ D' /\ T' /\ C' /\ L' /\ P'
  BY DEF ShapeInv
<1>1. /\ worker' = worker => W'
      /\ scan' = scan => S'
      /\ delta' = delta => D'
      /\ tab' = tab => T'
      /\ cancel' = cancel => C'
      /\ lock' = lock /\ deleting' = deleting => L'
      /\ store' = store => P'
  BY <1>0
<1>2. ASSUME Finish PROVE W'
  <2>1. worker' = [Idle EXCEPT !.pc = "notify"]
    BY <1>2 DEF Finish
  <2> QED
    BY <2>1 DEF Idle
<1>3. ASSUME NEW target, NEW rows, NEW c \in BOOLEAN, NEW run, Persisted(target, rows, c, run) PROVE P'
  <2>1. CASE store' = persist_scan(Req.id, target, rows, c)
    <3>1. DOMAIN store' = DOMAIN store \cup {Req.id}
      BY <2>1 DEF persist_scan
    <3>2. ASSUME NEW r \in DOMAIN store' PROVE store'[r].partial \in BOOLEAN
      <4>1. store'[r] = IF r = Req.id THEN [target |-> target, rows |-> rows, partial |-> c] ELSE store[r]
        BY <2>1, <3>1 DEF persist_scan
      <4> QED
        BY <1>0, <3>1, <4>1
    <3> QED
      BY <3>2
  <2> QED
    BY <1>0, <1>3, <2>1 DEF Persisted
<1>4. ASSUME NEW k, NEW a, Asks(k, a) PROVE W' /\ S' /\ D' /\ T' /\ C' /\ L' /\ P'
  <2>1. W' /\ L' /\ P'
    BY <1>1, <1>4 DEF Asks, sqlite
  <2>2. S' /\ C'
    <3>1. CASE StartScan
      BY <1>0, <3>1 DEF StartScan
    <3>2. CASE Export
      BY <1>0, <3>2 DEF Export
    <3>3. CASE cancel' = cancel /\ scan' = scan
      BY <1>1, <3>3
    <3> QED
      BY <1>4, <3>1, <3>2, <3>3 DEF Asks, Ask, LoadRuns, Compare, DeleteRun, ShowErrors, ui
  <2>3. D'
    <3>1. CASE LoadRuns
      BY <1>0, <3>1 DEF LoadRuns
    <3>2. CASE Compare
      BY <1>0, <3>2 DEF Compare
    <3>3. CASE ShowErrors(a)
      BY <1>0, <3>3 DEF ShowErrors
    <3>4. CASE delta' = delta
      BY <1>1, <3>4
    <3> QED
      BY <1>4, <3>1, <3>2, <3>3, <3>4 DEF Asks, Ask, StartScan, Export, DeleteRun, ui
  <2>4. T'
    <3>1. CASE k \in Tabs /\ Ask(k)
      <4> DEFINE v == [running |-> Reached, asked |-> IF Reached THEN Next1 ELSE tab[k].asked,
                       shown |-> IF k \in Guarded THEN None ELSE tab[k].shown]
      <4>1. tab' = [tab EXCEPT ![k] = v]
        BY <1>0, <3>1 DEF Ask
      <4>2. DOMAIN v = {"running", "asked", "shown"}
        OBVIOUS
      <4> HIDE DEF v
      <4> QED
        BY <1>0, <4>1, <4>2
    <3>2. CASE tab' = tab
      BY <1>1, <3>2
    <3> QED
      BY <1>4, <3>1, <3>2 DEF Asks, StartScan, Export, LoadRuns, Compare, ShowErrors, DeleteRun, ui
  <2> QED
    BY <2>1, <2>2, <2>3, <2>4
<1>5. ASSUME NEW e, Answers(e) PROVE W' /\ S' /\ D' /\ T' /\ C' /\ L' /\ P'
  <2>1. W' /\ S' /\ D' /\ T' /\ C'
    BY <1>1, <1>2, <1>5 DEF Answers, workerOnly, ui
  <2>2. CASE Analyze
    <3>1. L'
      BY <1>1, <2>2 DEF Analyze
    <3>2. P'
      BY <1>1, <1>3, <2>2 DEF Analyze
    <3> QED
      BY <2>1, <3>1, <3>2
  <2>3. CASE DeleteScanRun
    <3>1. L'
      <4>1. \/ UNCHANGED <<deleting, lock>>
            \/ deleting' = {Req.arg} /\ lock' = "worker"
        BY <2>3 DEF DeleteScanRun, DeleteFails
      <4>2. CASE deleting' = {Req.arg} /\ lock' = "worker"
        BY <4>2
      <4> QED
        BY <1>1, <4>1, <4>2
    <3>2. P'
      <4>1. CASE store' = [r \in DOMAIN store \ {Req.arg} |-> store[r]]
        BY <1>0, <4>1
      <4> QED
        BY <1>1, <2>3, <4>1 DEF DeleteScanRun
    <3> QED
      BY <2>1, <3>1, <3>2
  <2>4. CASE UNCHANGED sqlite
    BY <1>1, <2>1, <2>4 DEF sqlite
  <2> QED
    BY <1>5, <2>2, <2>3, <2>4 DEF Answers, Answer, ExportReport, ListRuns, ListRunErrors, CompareTargets, CompareRows
<1>6. ASSUME NEW e, Tells(e) PROVE W' /\ S' /\ D' /\ T' /\ C' /\ L' /\ P'
  <2>1. S' /\ D' /\ T' /\ C' /\ L' /\ P'
    BY <1>1, <1>6 DEF Tells, workerOnly, ui, sqlite
  <2>2. W'
    <3>1. CASE ScanRejected
      BY <1>0, <3>1 DEF ScanRejected
    <3>2. CASE EvaluateRow
      BY <1>0, <3>2 DEF EvaluateRow
    <3> QED
      BY <1>6, <3>1, <3>2 DEF Tells
  <2> QED
    BY <2>1, <2>2
<1>7. ASSUME Sees PROVE W' /\ S' /\ D' /\ T' /\ C' /\ L' /\ P'
  <2>1. W' /\ C' /\ L' /\ P'
    BY <1>1, <1>7 DEF Sees, pumpOnly, uiOnly, sqlite
  <2>2. S'
    <3>1. CASE ShowProgress
      BY <1>0, <3>1 DEF ShowProgress
    <3>2. CASE ShowScanDone
      BY <1>0, <3>2 DEF ShowScanDone
    <3>3. CASE ShowExport
      BY <1>0, <3>3 DEF ShowExport
    <3>4. CASE scan' = scan
      BY <1>1, <3>4
    <3> QED
      BY <1>7, <3>1, <3>2, <3>3, <3>4 DEF Sees, ShowAnswer, ShowRuns, ShowDelta, ShowRunErrors, ShowDeleted
  <2>3. D'
    <3>1. CASE ShowRuns
      <4>1. CASE Event.ok
        <5>1. delta' = [delta EXCEPT !.loading = FALSE, !.runs = Value,
                                     !.old = Still(@, Value), !.new = Still(@, Value)]
          BY <3>1, <4>1 DEF ShowRuns
        <5>2. Still(delta.old, Value) \in Value \cup {None} /\ Still(delta.new, Value) \in Value \cup {None}
          BY DEF Still
        <5>3. delta'.runs = Value /\ delta'.old = Still(delta.old, Value) /\ delta'.new = Still(delta.new, Value)
              /\ DOMAIN delta' = DOMAIN delta
          BY <1>0, <5>1
        <5> QED
          BY <1>0, <5>2, <5>3
      <4>2. CASE ~ Event.ok
        BY <1>0, <3>1, <4>2 DEF ShowRuns
      <4> QED
        BY <4>1, <4>2
    <3>2. CASE ShowDelta
      BY <1>0, <3>2 DEF ShowDelta
    <3>3. CASE ShowRunErrors
      BY <1>0, <3>3 DEF ShowRunErrors
    <3>4. CASE ShowDeleted
      <4>1. CASE delta' = delta
        BY <1>1, <4>1
      <4>2. CASE \E r : delta' = [delta EXCEPT !.runs = @ \ {r}, !.result = <<>>, !.title = None,
                                               !.old = IF @ = r THEN None ELSE @,
                                               !.new = IF @ = r THEN None ELSE @]
        BY <1>0, <4>2
      <4> QED
        BY <3>4, <4>1, <4>2 DEF ShowDeleted
    <3>5. CASE delta' = delta
      BY <1>1, <3>5
    <3> QED
      BY <1>7, <3>1, <3>2, <3>3, <3>4, <3>5 DEF Sees, ShowAnswer, ShowProgress, ShowScanDone, ShowExport
  <2>4. T'
    <3>1. CASE Event.kind \in Tabs /\ ShowAnswer
      <4>1. PICK k \in Tabs : tab' = [tab EXCEPT ![k] = [@ EXCEPT !.running = FALSE, !.shown = Event.id]]
        BY <3>1 DEF ShowAnswer
      <4> QED
        BY <1>0, <4>1
    <3>2. CASE tab' = tab
      BY <1>1, <3>2
    <3> QED
      BY <1>7, <3>1, <3>2 DEF Sees, ShowRuns, ShowDelta, ShowRunErrors, ShowDeleted, ShowProgress, ShowScanDone, ShowExport
  <2> QED
    BY <2>1, <2>2, <2>3, <2>4
<1>8. ASSUME Quiet PROVE W' /\ S' /\ D' /\ T' /\ C' /\ L' /\ P'
  <2>1. L' /\ P' /\ T'
    BY <1>1, <1>8 DEF Quiet, sqlite
  <2>2. CASE CancelScan
    <3>1. W' /\ D'
      BY <1>1, <2>2 DEF CancelScan
    <3>2. S' /\ C'
      BY <1>0, <2>2 DEF CancelScan
    <3> QED
      BY <2>1, <3>1, <3>2
  <2>3. CASE \E side \in {"old", "new"}, r \in delta.runs : Pick(side, r)
    <3>1. W' /\ C' /\ S'
      BY <1>1, <2>3 DEF Pick
    <3>2. D'
      BY <1>0, <2>3 DEF Pick
    <3> QED
      BY <2>1, <3>1, <3>2
  <2>4. CASE ClosePanel
    <3>1. W' /\ C' /\ S'
      BY <1>1, <2>4 DEF ClosePanel
    <3>2. D'
      BY <1>0, <2>4 DEF ClosePanel
    <3> QED
      BY <2>1, <3>1, <3>2
  <2>5. CASE ScanBegins \/ WalkOn \/ WalkEnds \/ CompareTargets \/ Notify
    <3>1. C' /\ S' /\ D'
      BY <1>1, <2>5 DEF ScanBegins, WalkOn, WalkEnds, CompareTargets, Notify, workerOnly, ui
    <3>2. ASSUME ScanBegins PROVE W'
      BY <3>2 DEF ScanBegins, Idle
    <3>3. ASSUME WalkOn PROVE W'
      BY <1>0, <3>3 DEF WalkOn
    <3>4. ASSUME WalkEnds PROVE W'
      BY <1>0, <3>4 DEF WalkEnds
    <3>5. ASSUME CompareTargets PROVE W'
      <4>1. CASE Finish
        BY <1>2, <4>1
      <4>2. CASE worker' = [worker EXCEPT !.pc = "load"]
        BY <1>0, <4>2
      <4> QED
        BY <3>5, <4>1, <4>2 DEF CompareTargets
    <3>6. ASSUME Notify PROVE W'
      BY <3>6 DEF Notify, Idle
    <3> QED
      BY <2>1, <2>5, <3>1, <3>2, <3>3, <3>4, <3>5, <3>6
  <2>6. CASE Wake
    BY <1>1, <2>1, <2>6 DEF Wake, uiOnly, ui
  <2> QED
    BY <1>8, <2>2, <2>3, <2>4, <2>5, <2>6 DEF Quiet
<1>9. ASSUME ScanDone PROVE W' /\ S' /\ D' /\ T' /\ C' /\ L' /\ P'
  <2>1. S' /\ D' /\ T' /\ C' /\ L' /\ W'
    BY <1>1, <1>2, <1>9 DEF ScanDone, workerOnly, ui
  <2>2. P'
    BY <1>0, <1>3, <1>9 DEF ScanDone
  <2> QED
    BY <2>1, <2>2
<1>10. ASSUME StartWorker \/ WorkerDies PROVE W' /\ S' /\ D' /\ T' /\ C' /\ L' /\ P'
  <2>1. S' /\ D' /\ T' /\ C' /\ L' /\ P'
    BY <1>1, <1>10 DEF StartWorker, WorkerDies, workerOnly, ui, sqlite
  <2>2. CASE StartWorker
    BY <2>1, <2>2 DEF StartWorker, Idle
  <2>3. CASE WorkerDies
    BY <1>0, <2>1, <2>3 DEF WorkerDies
  <2> QED
    BY <1>10, <2>2, <2>3
<1> HIDE DEF W, S, D, T, C, L, P
<1> QED
  BY <1>4, <1>5, <1>6, <1>7, <1>8, <1>9, <1>10, StepKinds

----------------------------------------------------------------------------
(* The queues keep the order of the requests.                              *)

\* A request takes the next number.
LEMMA NumberedSend ==
    ASSUME NEW rs, NEW es, NEW n, Numbered(rs, es, n), NEW q, q.kind \in Asked, q.id = n + 1
    PROVE  Numbered(Append(rs, q), es, n + 1) /\ Numbered(rs, es, n + 1)
<1> DEFINE t == Append(rs, q)
<1>1. Channel(t) /\ DOMAIN t = 1 .. Len(rs) + 1 /\ t[Len(rs) + 1] = q /\ Len(rs) \in Nat /\ DOMAIN rs = 1 .. Len(rs)
      /\ \A i \in DOMAIN rs : t[i] = rs[i]
  BY ChannelAppend, ChannelIs DEF Numbered
<1> HIDE DEF t
<1>2. n \in Nat \ {0} /\ n + 1 \in Nat \ {0}
  BY DEF Numbered
<1>3. \A i \in DOMAIN t : IF i \in DOMAIN rs THEN t[i] = rs[i] ELSE t[i] = q /\ i = Len(rs) + 1
  BY <1>1
<1>4. Numbered(rs, es, n + 1)
  BY <1>2 DEF Numbered
<1>5. \A i \in DOMAIN t : t[i].kind \in Asked /\ t[i].id \in 1 .. n + 1
  BY <1>2, <1>3, <1>4 DEF Numbered
<1>6. \A i, j \in DOMAIN t : i < j => t[i].id < t[j].id
  <2> SUFFICES ASSUME NEW i \in DOMAIN t, NEW j \in DOMAIN t, i < j PROVE t[i].id < t[j].id
    OBVIOUS
  <2>1. i \in DOMAIN rs
    BY <1>1
  <2>2. t[i] = rs[i] /\ rs[i].id \in 1 .. n
    BY <1>3, <2>1 DEF Numbered
  <2>3. CASE j \in DOMAIN rs
    BY <1>3, <2>1, <2>2, <2>3 DEF Numbered
  <2>4. CASE j \notin DOMAIN rs
    BY <1>2, <1>3, <2>2, <2>4
  <2> QED
    BY <2>3, <2>4
<1>7. \A i \in DOMAIN es, j \in DOMAIN t : es[i].kind \in Asked => es[i].id < t[j].id
  <2> SUFFICES ASSUME NEW i \in DOMAIN es, NEW j \in DOMAIN t, es[i].kind \in Asked PROVE es[i].id < t[j].id
    OBVIOUS
  <2>1. es[i].id \in 1 .. n
    BY DEF Numbered
  <2>2. CASE j \in DOMAIN rs
    BY <1>3, <2>2 DEF Numbered
  <2>3. CASE j \notin DOMAIN rs
    BY <1>2, <1>3, <2>1, <2>3
  <2> QED
    BY <2>2, <2>3
<1> QED
  BY <1>1, <1>2, <1>4, <1>5, <1>6, <1>7 DEF t, Numbered

\* Progress keeps it.
LEMMA NumberedTell ==
    ASSUME NEW rs, NEW es, NEW n, Numbered(rs, es, n), NEW e, e.kind \in Progress, e.kind \notin Asked, e.id \in 1 .. n
    PROVE  Numbered(rs, Append(es, e), n)
<1> DEFINE t == Append(es, e)
<1>1. Channel(t) /\ DOMAIN t = 1 .. Len(es) + 1 /\ t[Len(es) + 1] = e /\ Len(es) \in Nat /\ DOMAIN es = 1 .. Len(es)
      /\ \A i \in DOMAIN es : t[i] = es[i]
  BY ChannelAppend, ChannelIs DEF Numbered
<1> HIDE DEF t
<1>2. \A i \in DOMAIN t : IF i \in DOMAIN es THEN t[i] = es[i] ELSE t[i] = e
  BY <1>1
<1>3. \A i \in DOMAIN t : t[i].kind \in Asked => i \in DOMAIN es /\ t[i] = es[i]
  BY <1>2
<1>4. \A i \in DOMAIN t : t[i].kind \in Asked \cup Progress /\ t[i].id \in 1 .. n
  BY <1>2 DEF Numbered
<1>5. \A i, j \in DOMAIN t : t[i].kind \in Asked /\ i < j /\ t[j].kind \in Asked => t[i].id < t[j].id
  BY <1>3 DEF Numbered
<1>6. \A i \in DOMAIN t, j \in DOMAIN rs : t[i].kind \in Asked => t[i].id < rs[j].id
  BY <1>3 DEF Numbered
<1> QED
  BY <1>1, <1>4, <1>5, <1>6 DEF t, Numbered

\* The oldest request is the one that is answered, after all that were answered before.
LEMMA NumberedAnswer ==
    ASSUME NEW rs, NEW es, NEW n, Numbered(rs, es, n), rs # <<>>,
           NEW e, e.kind \in Asked, e.id = Head(rs).id
    PROVE  Numbered(Tail(rs), Append(es, e), n)
<1> DEFINE t == Append(es, e)
           u == Tail(rs)
<1>1. Channel(t) /\ DOMAIN t = 1 .. Len(es) + 1 /\ t[Len(es) + 1] = e /\ Len(es) \in Nat /\ DOMAIN es = 1 .. Len(es)
      /\ \A i \in DOMAIN es : t[i] = es[i]
  BY ChannelAppend, ChannelIs DEF Numbered
<1>2. Channel(u) /\ 1 \in DOMAIN rs /\ Head(rs) = rs[1] /\ \A i \in DOMAIN u : i + 1 \in DOMAIN rs /\ u[i] = rs[i + 1]
  BY ChannelIs DEF Numbered
<1>3. DOMAIN u \subseteq Nat \ {0}
  <2>1. DOMAIN u = 1 .. Len(u) /\ Len(u) \in Nat
    BY <1>2, ChannelIs
  <2> QED
    BY <2>1
<1> HIDE DEF t, u
<1>4. \A i \in DOMAIN t : IF i \in DOMAIN es THEN t[i] = es[i] ELSE t[i] = e /\ i = Len(es) + 1
  BY <1>1
<1>5. e.id \in 1 .. n
  BY <1>2 DEF Numbered
<1>6. \A i \in DOMAIN u : u[i].kind \in Asked /\ u[i].id \in 1 .. n /\ e.id < u[i].id
  <2> SUFFICES ASSUME NEW i \in DOMAIN u PROVE u[i].kind \in Asked /\ u[i].id \in 1 .. n /\ e.id < u[i].id
    OBVIOUS
  <2>1. i + 1 \in DOMAIN rs /\ u[i] = rs[i + 1] /\ 1 < i + 1
    BY <1>2, <1>3
  <2> QED
    BY <1>2, <2>1 DEF Numbered
<1>7. \A i, j \in DOMAIN u : i < j => u[i].id < u[j].id
  <2> SUFFICES ASSUME NEW i \in DOMAIN u, NEW j \in DOMAIN u, i < j PROVE u[i].id < u[j].id
    OBVIOUS
  <2>1. i + 1 \in DOMAIN rs /\ u[i] = rs[i + 1] /\ j + 1 \in DOMAIN rs /\ u[j] = rs[j + 1] /\ i + 1 < j + 1
    BY <1>2, <1>3
  <2> QED
    BY <2>1 DEF Numbered
<1>8. \A i \in DOMAIN t : t[i].kind \in Asked \cup Progress /\ t[i].id \in 1 .. n
  BY <1>4, <1>5 DEF Numbered
<1>9. \A i, j \in DOMAIN t : t[i].kind \in Asked /\ i < j /\ t[j].kind \in Asked => t[i].id < t[j].id
  <2> SUFFICES ASSUME NEW i \in DOMAIN t, NEW j \in DOMAIN t, t[i].kind \in Asked, i < j, t[j].kind \in Asked
               PROVE  t[i].id < t[j].id
    OBVIOUS
  <2>1. i \in DOMAIN es /\ t[i] = es[i]
    BY <1>1, <1>4
  <2>2. CASE j \in DOMAIN es
    BY <1>4, <2>1, <2>2 DEF Numbered
  <2>3. CASE j \notin DOMAIN es
    BY <1>2, <1>4, <2>1, <2>3 DEF Numbered
  <2> QED
    BY <2>2, <2>3
<1>10. \A i \in DOMAIN t, j \in DOMAIN u : t[i].kind \in Asked => t[i].id < u[j].id
  <2> SUFFICES ASSUME NEW i \in DOMAIN t, NEW j \in DOMAIN u, t[i].kind \in Asked PROVE t[i].id < u[j].id
    OBVIOUS
  <2>1. CASE i \in DOMAIN es
    BY <1>2, <1>4, <2>1 DEF Numbered
  <2>2. CASE i \notin DOMAIN es
    BY <1>4, <1>6, <2>2
  <2> QED
    BY <2>1, <2>2
<1>11. n \in Nat \ {0}
  BY DEF Numbered
<1> QED
  BY <1>1, <1>2, <1>6, <1>7, <1>8, <1>9, <1>10, <1>11 DEF t, u, Numbered

\* An event is taken.
LEMMA NumberedSee ==
    ASSUME NEW rs, NEW es, NEW n, Numbered(rs, es, n), es # <<>>
    PROVE  Numbered(rs, Tail(es), n)
<1> DEFINE u == Tail(es)
<1>1. Channel(u) /\ \A i \in DOMAIN u : i + 1 \in DOMAIN es /\ u[i] = es[i + 1]
  BY ChannelIs DEF Numbered
<1>2. DOMAIN u \subseteq Nat \ {0}
  <2>1. DOMAIN u = 1 .. Len(u) /\ Len(u) \in Nat
    BY <1>1, ChannelIs
  <2> QED
    BY <2>1
<1> HIDE DEF u
<1>3. \A i \in DOMAIN u : u[i].kind \in Asked \cup Progress /\ u[i].id \in 1 .. n
  BY <1>1 DEF Numbered
<1>4. \A i, j \in DOMAIN u : u[i].kind \in Asked /\ i < j /\ u[j].kind \in Asked => u[i].id < u[j].id
  <2> SUFFICES ASSUME NEW i \in DOMAIN u, NEW j \in DOMAIN u, u[i].kind \in Asked, i < j, u[j].kind \in Asked
               PROVE  u[i].id < u[j].id
    OBVIOUS
  <2>1. i + 1 \in DOMAIN es /\ u[i] = es[i + 1] /\ j + 1 \in DOMAIN es /\ u[j] = es[j + 1] /\ i + 1 < j + 1
    BY <1>1, <1>2
  <2> QED
    BY <2>1 DEF Numbered
<1>5. \A i \in DOMAIN u, j \in DOMAIN rs : u[i].kind \in Asked => u[i].id < rs[j].id
  BY <1>1 DEF Numbered
<1> QED
  BY <1>1, <1>3, <1>4, <1>5 DEF u, Numbered

\* What is answered and what is told on the way are different kinds.
LEMMA ApartKinds ==
    ASSUME GuiAssumption
    PROVE  /\ \A k \in Progress : k \notin Asked
           /\ \A k \in Tabs : k \notin ScanAndDelta /\ k \notin Progress
BY DEF GuiAssumption, Progress, Asked, ScanAndDelta

\* The findings and the summary of a scan are sent one after the other.
LEMMA TwoEvents ==
    ASSUME NEW s, Channel(s), NEW a, NEW b
    PROVE  s \o <<a, b>> = Append(Append(s, a), b)
<1> DEFINE S == {s[i] : i \in DOMAIN s} \cup {a, b}
<1>1. s \in Seq(S) /\ a \in S /\ b \in S
  BY DEF Channel, In
<1> HIDE DEF S
<1> QED
  BY <1>1

\* What a request does to the request channel.
LEMMA SendEffect ==
    ASSUME QueueInv, NEW k \in Asked, NEW a, Send(k, a)
    PROVE  /\ issued' = issued + 1 /\ Numbered(reqs', evts, issued') /\ Numbered(reqs', evts, issued + 1)
           /\ reqs # <<>> => reqs' # <<>> /\ Head(reqs') = Head(reqs)
           /\ worker.pc = "dead" => reqs' = reqs
           /\ worker.pc # "dead" => reqs' = Append(reqs, [kind |-> k, id |-> issued + 1, arg |-> a]) /\ reqs' # <<>>
<1> DEFINE q == [kind |-> k, id |-> issued + 1, arg |-> a]
<1>1. /\ issued' = issued + 1
      /\ reqs' = IF worker.pc # "dead" THEN Append(reqs, q) ELSE reqs
  BY DEF Send, Reached, Next1
<1>2. q.kind = k /\ q.id = issued + 1
  OBVIOUS
<1> HIDE DEF q
<1>3. Numbered(reqs, evts, issued) /\ Channel(reqs)
  BY DEF QueueInv, Numbered
<1>4. Numbered(Append(reqs, q), evts, issued + 1) /\ Numbered(reqs, evts, issued + 1)
  BY <1>2, <1>3, NumberedSend
<1>5. Append(reqs, q) # <<>> /\ (reqs # <<>> => Head(Append(reqs, q)) = Head(reqs))
  BY <1>3, ChannelAppend
<1>6. worker.pc = "dead" => reqs' = reqs
  BY <1>1
<1>7. worker.pc # "dead" => reqs' = Append(reqs, q)
  BY <1>1
<1>8. reqs' = Append(reqs, q) \/ reqs' = reqs
  BY <1>6, <1>7
<1> QED
  BY <1>1, <1>4, <1>5, <1>6, <1>7, <1>8 DEF q

\* What the end of a scan sends.
LEMMA ScanDoneEvents ==
    ASSUME ScanDone
    PROVE  \E r, e : \E run \in {None, worker.id} :
               /\ evts' = evts \o <<r, e>> /\ r.kind = "risks" /\ e.kind = "scan"
               /\ r.id = Head(reqs).id /\ e.id = Head(reqs).id
               /\ r.value = <<worker.id>>
               /\ e.value = <<[run |-> run, cancelled |-> worker.cancelled, errors |-> worker.errors]>>
               /\ Persisted("root", worker.rows, worker.cancelled, run)
<1>1. PICK run \in {None, worker.id} :
          /\ Persisted("root", worker.rows, worker.cancelled, run)
          /\ evts' = evts \o << Ok("risks", worker.id),
                  Ok("scan", [run |-> run, cancelled |-> worker.cancelled, errors |-> worker.errors]) >>
  BY DEF ScanDone
<1> DEFINE v == [run |-> run, cancelled |-> worker.cancelled, errors |-> worker.errors]
<1> HIDE DEF v
<1>2. \A k, x : Ok(k, x).kind = k /\ Ok(k, x).id = Head(reqs).id /\ Ok(k, x).value = <<x>>
  BY DEF Ok, Req
<1> DEFINE r == Ok("risks", worker.id)
           e == Ok("scan", v)
<1>3. evts' = evts \o <<r, e>>
  BY <1>1 DEF v
<1>4. r.kind = "risks" /\ e.kind = "scan" /\ r.id = Head(reqs).id /\ e.id = Head(reqs).id
      /\ r.value = <<worker.id>> /\ e.value = <<v>>
  BY <1>2
<1> HIDE DEF r, e
<1> QED
  BY <1>1, <1>3, <1>4 DEF v

\* Every step keeps the order of the requests.
LEMMA QueueStep ==
    ASSUME ShapeInv, QueueInv, GuiAssumption, Window
    PROVE  QueueInv'
<1>0. Numbered(reqs, evts, issued) /\ Channel(reqs) /\ Channel(evts)
  BY DEF QueueInv, Numbered
<1> DEFINE Where == /\ worker.pc \in {"scan", "rows"} => reqs # <<>> /\ Head(reqs).kind = "scan"
                    /\ worker.pc = "load" => reqs # <<>> /\ Head(reqs).kind = "compare"
                    /\ worker.pc \in {"start", "dead"} => evts = <<>>
                    /\ worker.pc = "dead" => reqs = <<>>
           Pumps == pumping \in BOOLEAN /\ (pumping => evts # <<>>)
<1>00. Where /\ Pumps
  BY DEF QueueInv
<1> SUFFICES Numbered(reqs', evts', issued') /\ Where' /\ Pumps'
  BY DEF QueueInv, Numbered, Channel, In
<1>1. ASSUME NEW k, NEW a, Asks(k, a) PROVE Numbered(reqs', evts', issued') /\ Where' /\ Pumps'
  <2>1. k \in Asked /\ Send(k, a) /\ UNCHANGED <<evts, pumping, worker>>
    BY <1>1 DEF Asks
  <2>2. /\ Numbered(reqs', evts, issued')
        /\ reqs # <<>> => reqs' # <<>> /\ Head(reqs') = Head(reqs)
        /\ worker.pc = "dead" => reqs' = reqs
    BY <2>1, SendEffect
  <2> QED
    BY <1>00, <2>1, <2>2
<1>2. ASSUME NEW e, Answers(e) PROVE Numbered(reqs', evts', issued') /\ Where' /\ Pumps'
  <2>1. reqs # <<>> /\ reqs' = Tail(reqs) /\ evts' = Append(evts, e) /\ e.kind \in Asked /\ e.id = Head(reqs).id
        /\ issued' = issued /\ pumping' = pumping
    BY <1>2 DEF Answers, Finish, Emit, Req, workerOnly
  <2>2. Numbered(reqs', evts', issued')
    BY <1>0, <2>1, NumberedAnswer
  <2>3. evts' # <<>>
    BY <1>0, <2>1, ChannelAppend
  <2>4. worker'.pc = "notify"
    BY <1>2 DEF Answers, Finish, Idle
  <2> QED
    BY <1>00, <2>1, <2>2, <2>3, <2>4
<1>3. ASSUME NEW e, Tells(e) PROVE Numbered(reqs', evts', issued') /\ Where' /\ Pumps'
  <2>1. evts' = Append(evts, e) /\ e.kind \in Progress /\ e.id = Head(reqs).id /\ reqs' = reqs
        /\ worker.pc \in {"scan", "rows"} /\ worker'.pc = "rows" /\ issued' = issued /\ pumping' = pumping
    BY <1>3 DEF Tells, Emit, Req, workerOnly, Progress
  <2>2. reqs # <<>> /\ e.kind \notin Asked
    BY <1>00, <2>1, ApartKinds
  <2>3. e.id \in 1 .. issued
    BY <1>0, <2>1, <2>2, ChannelIs DEF Numbered
  <2>4. Numbered(reqs', evts', issued')
    BY <1>0, <2>1, <2>2, <2>3, NumberedTell
  <2>5. evts' # <<>>
    BY <1>0, <2>1, ChannelAppend
  <2> QED
    BY <1>00, <2>1, <2>2, <2>4, <2>5
<1>4. ASSUME Sees PROVE Numbered(reqs', evts', issued') /\ Where' /\ Pumps'
  <2>1. evts # <<>> /\ evts' = Tail(evts) /\ pumping' = (Tail(evts) # <<>>) /\ worker' = worker
    BY <1>4 DEF Sees, pumpOnly, uiOnly
  <2>2. worker.pc \notin {"start", "dead"}
    BY <1>00, <2>1
  <2>3. CASE UNCHANGED <<issued, reqs>>
    <3>1. Numbered(reqs', evts', issued')
      BY <1>0, <2>1, <2>3, NumberedSee
    <3> QED
      BY <1>00, <2>1, <2>2, <2>3, <3>1
  <2>4. CASE Send("runs", None)
    <3>1. "runs" \in Asked
      BY DEF Asked, ScanAndDelta
    <3>2. Numbered(reqs', evts, issued') /\ (reqs # <<>> => reqs' # <<>> /\ Head(reqs') = Head(reqs))
      BY <2>4, <3>1, SendEffect
    <3>3. Numbered(reqs', evts', issued')
      BY <2>1, <3>2, NumberedSee
    <3> QED
      BY <1>00, <2>1, <2>2, <3>2, <3>3
  <2> QED
    BY <1>4, <2>3, <2>4 DEF Sees
<1>5. ASSUME Quiet PROVE Numbered(reqs', evts', issued') /\ Where' /\ Pumps'
  <2>1. UNCHANGED <<issued, reqs, evts>> /\ Pumps'
    BY <1>5 DEF Quiet
  <2>2. Numbered(reqs', evts', issued')
    BY <1>0, <2>1
  <2>3. CASE worker' = worker
    BY <1>00, <2>1, <2>2, <2>3
  <2>4. CASE ScanBegins
    <3>1. worker'.pc = "scan" /\ reqs # <<>> /\ Head(reqs).kind = "scan"
      BY <2>4 DEF ScanBegins, Serves, Req, Idle
    <3> QED
      BY <1>00, <2>1, <2>2, <3>1
  <2>5. CASE WalkOn \/ WalkEnds
    <3>1. worker.pc = "scan" /\ worker'.pc \in {"scan", "rows"}
      BY <2>5 DEF WalkOn, WalkEnds, Mine, ShapeInv
    <3> QED
      BY <1>00, <2>1, <2>2, <3>1
  <2>6. CASE Notify
    <3>1. worker'.pc = "recv"
      BY <2>6 DEF Notify, Idle
    <3> QED
      BY <1>00, <2>1, <2>2, <3>1
  <2>7. CASE CompareTargets /\ worker' = [worker EXCEPT !.pc = "load"]
    <3>1. worker'.pc = "load" /\ reqs # <<>> /\ Head(reqs).kind = "compare"
      BY <2>7 DEF CompareTargets, Serves, Req, ShapeInv
    <3> QED
      BY <1>00, <2>1, <2>2, <3>1
  <2> QED
    BY <1>5, <2>3, <2>4, <2>5, <2>6, <2>7 DEF Quiet, CancelScan, Pick, ClosePanel, Wake, uiOnly
<1>6. ASSUME ScanDone PROVE Numbered(reqs', evts', issued') /\ Where' /\ Pumps'
  <2>1. PICK r, e : /\ evts' = evts \o <<r, e>> /\ r.kind = "risks" /\ e.kind = "scan"
                    /\ r.id = Head(reqs).id /\ e.id = Head(reqs).id
    BY <1>6, ScanDoneEvents
  <2>2. reqs # <<>> /\ reqs' = Tail(reqs) /\ issued' = issued /\ pumping' = pumping
    BY <1>6, <1>00 DEF ScanDone, Mine, Finish, workerOnly
  <2>3. worker'.pc = "notify"
    BY <1>6 DEF ScanDone, Finish, Idle
  <2>4. evts' = Append(Append(evts, r), e)
    BY <1>0, <2>1, TwoEvents
  <2>5. r.kind \in Progress /\ e.kind \in Asked /\ r.kind \notin Asked /\ r.id \in 1 .. issued
    <3>1. Head(reqs).id \in 1 .. issued
      BY <1>0, <2>2, ChannelIs DEF Numbered
    <3>2. "risks" \in Progress /\ "scan" \in Asked
      BY DEF Progress, Asked, ScanAndDelta
    <3> QED
      BY <2>1, <3>1, <3>2, ApartKinds
  <2>6. Numbered(reqs, Append(evts, r), issued) /\ Channel(Append(evts, r))
    BY <1>0, <2>5, NumberedTell, ChannelAppend
  <2>7. Numbered(reqs', evts', issued')
    BY <2>1, <2>2, <2>4, <2>5, <2>6, NumberedAnswer
  <2>8. evts' # <<>>
    BY <2>4, <2>6, ChannelAppend
  <2> QED
    BY <1>00, <2>2, <2>3, <2>7, <2>8
<1>7. ASSUME StartWorker PROVE Numbered(reqs', evts', issued') /\ Where' /\ Pumps'
  <2>1. UNCHANGED <<issued, reqs, evts, pumping>> /\ worker'.pc = "recv"
    BY <1>7 DEF StartWorker, Idle, workerOnly
  <2> QED
    BY <1>0, <1>00, <2>1
<1>8. ASSUME WorkerDies PROVE Numbered(reqs', evts', issued') /\ Where' /\ Pumps'
  <2>1. UNCHANGED <<issued, evts, pumping>> /\ reqs' = <<>> /\ evts = <<>> /\ worker'.pc = "dead"
    BY <1>8, <1>00 DEF WorkerDies, workerOnly, ShapeInv
  <2>2. Numbered(<<>>, <<>>, issued)
    BY <1>0, OfEmpty DEF Numbered
  <2> QED
    BY <1>00, <2>1, <2>2
<1> HIDE DEF Where, Pumps
<1> QED
  BY <1>1, <1>2, <1>3, <1>4, <1>5, <1>6, <1>7, <1>8, StepKinds

----------------------------------------------------------------------------
(* No request outnumbers the clicks, no wake-up the answers.               *)

\* How many messages of some kinds a channel holds after it is written or read.
LEMMA LenOf ==
    ASSUME NEW s, Channel(s), NEW K
    PROVE  /\ Len(Of(s, K)) \in Nat /\ Len(Of(<<>>, K)) = 0
           /\ \A e : Len(Of(Append(s, e), K)) = IF e.kind \in K THEN Len(Of(s, K)) + 1 ELSE Len(Of(s, K))
           /\ s # <<>> => Len(Of(s, K)) = IF Head(s).kind \in K THEN Len(Of(Tail(s), K)) + 1 ELSE Len(Of(Tail(s), K))
           /\ s # <<>> => Len(Of(Tail(s), K)) \in Nat
<1>1. Channel(Of(s, K))
  BY OfAt
<1>2. Len(Of(s, K)) \in Nat
  BY <1>1, ChannelIs
<1>3. Len(Of(<<>>, K)) = 0
  BY OfEmpty
<1>4. ASSUME NEW e PROVE Len(Of(Append(s, e), K)) = IF e.kind \in K THEN Len(Of(s, K)) + 1 ELSE Len(Of(s, K))
  <2>1. Of(Append(s, e), K) = IF e.kind \in K THEN Append(Of(s, K), e) ELSE Of(s, K)
    BY OfAppend
  <2>2. Len(Append(Of(s, K), e)) = Len(Of(s, K)) + 1
    BY <1>1, ChannelAppend
  <2> QED
    BY <2>1, <2>2
<1>5. ASSUME s # <<>>
      PROVE  Len(Of(s, K)) = IF Head(s).kind \in K THEN Len(Of(Tail(s), K)) + 1 ELSE Len(Of(Tail(s), K))
  <2>1. Of(Tail(s), K) = IF Head(s).kind \in K THEN Tail(Of(s, K)) ELSE Of(s, K)
    BY <1>5, OfTail
  <2>2. CASE Head(s).kind \in K
    <3>1. Of(s, K) # <<>>
      BY <1>5, <2>2, OfTail
    <3>2. Len(Of(s, K)) = Len(Tail(Of(s, K))) + 1
      BY <1>1, <3>1, ChannelIs
    <3> QED
      BY <2>1, <2>2, <3>2
  <2>3. CASE Head(s).kind \notin K
    BY <2>1, <2>3
  <2> QED
    BY <2>2, <2>3
<1>6. s # <<>> => Len(Of(Tail(s), K)) \in Nat
  <2> SUFFICES ASSUME s # <<>> PROVE Len(Of(Tail(s), K)) \in Nat
    OBVIOUS
  <2>1. Channel(Tail(s))
    BY ChannelIs
  <2>2. Channel(Of(Tail(s), K))
    BY <2>1, OfAt
  <2> QED
    BY <2>2, ChannelIs
<1> QED
  BY <1>2, <1>3, <1>4, <1>5, <1>6

\* The three sums BoundInv bounds.
Within(i, l, o, r, e, m)   == i + l + 2 * o + r + e <= m
Announced(w, n, b, i)      == w + n + b <= i
Walked(f, x, n, full, pc)  == n + x <= f /\ f <= full + 1 /\ (pc # "rows" => f <= full)

\* A click pays for its request, a deletion for its reload.
LEMMA WithinStep ==
    ASSUME NEW i \in Nat, NEW l \in Nat, NEW o \in Nat, NEW r \in Nat, NEW e \in Nat, NEW m \in Nat,
           Within(i, l, o, r, e, m)
    PROVE  /\ \A x \in Nat : x = l - 1 => Within(i + 1, x, o, r, e, m)
           /\ \A x \in Nat : x = o - 1 => Within(i + 1, l, x, r, e, m) /\ Within(i + 1, l, x, r + 1, e, m)
           /\ \A x \in Nat : r = x + 1 => Within(i, l, o, x, e + 1, m)
           /\ \A x \in Nat : e = x + 1 => Within(i, l, o, r, x, m) /\ Within(i + 1, l, o, r, x, m)
           /\ Within(i, l, o, 0, e, m)
BY DEF Within

\* Every request is announced once, after its answer.
LEMMA AnnouncedStep ==
    ASSUME NEW w \in Nat, NEW n \in Nat, NEW b \in {0, 1}, NEW i \in Nat, Announced(w, n, b, i)
    PROVE  /\ Announced(w, n, b, i + 1) /\ Announced(w, n + 1, b, i + 1)
           /\ b = 0 => \A x \in Nat : n = x + 1 => Announced(w, x, 1, i)
           /\ b = 1 => Announced(w + 1, n, 0, i)
           /\ \A x \in Nat : x = w - 1 => Announced(x, n, b, i)
           /\ Announced(w, n, 0, i) /\ Announced(w, 0, 0, i)
BY DEF Announced

\* An object is walked before it is evaluated.
LEMMA WalkedStep ==
    ASSUME NEW f \in Nat, NEW x \in Nat, NEW n \in Nat, NEW full \in Nat, NEW pc, Walked(f, x, n, full, pc)
    PROVE  /\ \A p : Walked(0, 0, 0, full, p)
           /\ f = 0 => n = 0 /\ Walked(1, 1, n, full, "rows")
           /\ n + x < f => Walked(f, x, n + 1, full, pc) /\ Walked(f, x + 1, n, full, pc)
           /\ f < full => Walked(f + 1, x, n, full, pc)
           /\ Walked(f, x, n, full, "rows")
           /\ pc # "rows" => \A p : Walked(f, x, n, full, p)
BY DEF Walked

\* Every step stays within the bounds.
LEMMA BoundStep ==
    ASSUME ShapeInv, QueueInv, BoundInv, GuiAssumption, Window
    PROVE  BoundInv'
<1> DEFINE Del == {"delete"}
           R == Len(Of(reqs, Del))
           E == Len(Of(evts, Del))
           Busy == IF worker.pc = "notify" THEN 1 ELSE 0
           C == clicks \in [{"load", "other", "mark"} -> Nat]
           M == Within(issued, clicks["load"], clicks["other"], R, E, MaxId)
           V == wakeups \in Nat /\ Announced(wakeups, Len(reqs), Busy, issued)
           F == /\ worker.found \in Nat /\ worker.errors \in Nat /\ Channel(worker.rows)
                /\ Walked(worker.found, worker.errors, Len(worker.rows), Found, worker.pc)
<1>0. C /\ M /\ V /\ F
  BY DEF BoundInv, Within, Announced, Walked
<1> SUFFICES C' /\ M' /\ V' /\ F'
  BY DEF BoundInv, Within, Announced, Walked
<1>a. /\ issued \in Nat \ {0} /\ Channel(reqs) /\ Channel(evts) /\ Len(reqs) \in Nat /\ R \in Nat /\ E \in Nat
      /\ MaxId \in Nat /\ Found \in Nat /\ Busy \in {0, 1} /\ Len(worker.rows) \in Nat
      /\ clicks["load"] \in Nat /\ clicks["other"] \in Nat /\ clicks["mark"] \in Nat
  BY <1>0, LenOf, ChannelIs DEF QueueInv, Numbered, MaxId, GuiAssumption
<1>d. /\ \A e : Len(Of(Append(reqs, e), Del)) = IF e.kind = "delete" THEN R + 1 ELSE R
      /\ \A e : Len(Of(Append(evts, e), Del)) = IF e.kind = "delete" THEN E + 1 ELSE E
      /\ Len(Of(<<>>, Del)) = 0
  BY <1>a, LenOf
<1>e. reqs # <<>> => /\ Len(Of(Tail(reqs), Del)) \in Nat
                     /\ R = IF Head(reqs).kind = "delete" THEN Len(Of(Tail(reqs), Del)) + 1 ELSE Len(Of(Tail(reqs), Del))
  BY <1>a, LenOf
<1>f. evts # <<>> => /\ Len(Of(Tail(evts), Del)) \in Nat
                     /\ E = IF Head(evts).kind = "delete" THEN Len(Of(Tail(evts), Del)) + 1 ELSE Len(Of(Tail(evts), Del))
  BY <1>a, LenOf
<1>g. R' = Len(Of(reqs', Del)) /\ E' = Len(Of(evts', Del))
  OBVIOUS
<1>h. Channel(<<>>) /\ Len(<<>>) = 0
  BY OfEmpty
<1>i. Busy' = IF worker'.pc = "notify" THEN 1 ELSE 0
  OBVIOUS
<1> HIDE DEF R, E, Del, Busy
<1>b. ASSUME Clicked("other") \/ Clicked("load") \/ Clicked("mark") PROVE C'
  BY <1>0, <1>b DEF Clicked
<1>j. /\ \A x \in Nat : x = clicks["load"] - 1 => Within(issued + 1, x, clicks["other"], R, E, MaxId)
      /\ \A x \in Nat : x = clicks["other"] - 1 =>
           Within(issued + 1, clicks["load"], x, R, E, MaxId) /\ Within(issued + 1, clicks["load"], x, R + 1, E, MaxId)
      /\ \A x \in Nat : R = x + 1 => Within(issued, clicks["load"], clicks["other"], x, E + 1, MaxId)
      /\ \A x \in Nat : E = x + 1 => /\ Within(issued, clicks["load"], clicks["other"], R, x, MaxId)
                                    /\ Within(issued + 1, clicks["load"], clicks["other"], R, x, MaxId)
      /\ Within(issued, clicks["load"], clicks["other"], 0, E, MaxId)
  BY <1>0, <1>a, WithinStep
<1>k. /\ Announced(wakeups, Len(reqs), Busy, issued + 1) /\ Announced(wakeups, Len(reqs) + 1, Busy, issued + 1)
      /\ Busy = 0 => \A x \in Nat : Len(reqs) = x + 1 => Announced(wakeups, x, 1, issued)
      /\ Busy = 1 => Announced(wakeups + 1, Len(reqs), 0, issued)
      /\ \A x \in Nat : x = wakeups - 1 => Announced(x, Len(reqs), Busy, issued)
      /\ Announced(wakeups, Len(reqs), 0, issued) /\ Announced(wakeups, 0, 0, issued)
  <2>1. wakeups \in Nat /\ Len(reqs) \in Nat /\ Busy \in {0, 1} /\ issued \in Nat
        /\ Announced(wakeups, Len(reqs), Busy, issued)
    BY <1>0, <1>a
  <2> QED
    BY ONLY <2>1, AnnouncedStep
<1> DEFINE n == Len(worker.rows)
           f == worker.found
           x == worker.errors
<1>l. /\ \A p : Walked(0, 0, 0, Found, p)
      /\ f = 0 => n = 0 /\ Walked(1, 1, n, Found, "rows")
      /\ n + x < f => Walked(f, x, n + 1, Found, worker.pc) /\ Walked(f, x + 1, n, Found, worker.pc)
      /\ f < Found => Walked(f + 1, x, n, Found, worker.pc)
      /\ Walked(f, x, n, Found, "rows")
      /\ worker.pc # "rows" => \A p : Walked(f, x, n, Found, p)
  BY <1>0, <1>a, WalkedStep
<1>m. ASSUME worker'.found = 0, worker'.errors = 0, worker'.rows = <<>> PROVE F'
  <2>1. Channel(worker'.rows) /\ Len(worker'.rows) = 0
    BY <1>h, <1>m
  <2> QED
    BY <1>l, <1>m, <2>1
<1>c. ASSUME worker' = [Idle EXCEPT !.pc = "notify"] PROVE F' /\ Busy' = 1
  <2>1. worker'.found = 0 /\ worker'.errors = 0 /\ worker'.rows = <<>> /\ worker'.pc = "notify"
    BY <1>c DEF Idle
  <2> QED
    BY <1>i, <1>m, <2>1
<1>1. ASSUME NEW k, NEW a, Asks(k, a) PROVE C' /\ M' /\ V' /\ F'
  <2>1. k \in Asked /\ Send(k, a) /\ UNCHANGED <<evts, worker, wakeups>>
    BY <1>1 DEF Asks
  <2>2. F' /\ Busy' = Busy /\ E' = E
    BY <1>0, <2>1 DEF Busy, E
  <2> DEFINE q == [kind |-> k, id |-> issued + 1, arg |-> a]
  <2>3. /\ issued' = issued + 1
        /\ worker.pc = "dead" => reqs' = reqs
        /\ worker.pc # "dead" => reqs' = Append(reqs, q)
    BY <2>1, SendEffect
  <2>q. q.kind = k
    OBVIOUS
  <2> HIDE DEF q
  <2>4. Len(reqs') = Len(reqs) \/ Len(reqs') = Len(reqs) + 1
    BY <1>a, <2>3, ChannelAppend
  <2>5. V'
    BY <1>0, <1>k, <2>1, <2>2, <2>3, <2>4
  <2>6. R' = R \/ (k = "delete" /\ R' = R + 1)
    <3>1. CASE worker.pc = "dead"
      BY <2>3, <3>1 DEF R
    <3>2. CASE worker.pc # "dead"
      BY <1>d, <1>g, <2>3, <2>q, <3>2
    <3> QED
      BY <3>1, <3>2
  <2>7. CASE k = "runs" /\ LoadRuns
    <3>1. clicks' = [clicks EXCEPT !["load"] = @ - 1] /\ clicks["load"] > 0 /\ C'
      BY <1>b, <2>7 DEF LoadRuns, Clicked
    <3>2. clicks'["load"] = clicks["load"] - 1 /\ clicks'["other"] = clicks["other"] /\ clicks'["load"] \in Nat
      BY <1>0, <1>a, <3>1
    <3>3. R' = R
      BY <2>6, <2>7
    <3>4. M'
      BY <1>j, <2>2, <2>3, <3>2, <3>3
    <3> QED
      BY <2>2, <2>5, <3>1, <3>4
  <2>8. CASE CanAsk
    <3>1. clicks' = [clicks EXCEPT !["other"] = @ - 1] /\ clicks["other"] > 0 /\ C'
      BY <1>b, <2>8 DEF CanAsk, Clicked
    <3>2. clicks'["load"] = clicks["load"] /\ clicks'["other"] = clicks["other"] - 1 /\ clicks'["other"] \in Nat
      BY <1>0, <1>a, <3>1
    <3>3. M'
      BY <1>j, <2>2, <2>3, <2>6, <3>2
    <3> QED
      BY <2>2, <2>5, <3>1, <3>3
  <2> QED
    BY <1>1, <2>7, <2>8 DEF Asks, Ask, StartScan, Export, Compare, DeleteRun, ShowErrors
<1>2. ASSUME NEW e, Answers(e) PROVE C' /\ M' /\ V' /\ F'
  <2>1. reqs # <<>> /\ reqs' = Tail(reqs) /\ evts' = Append(evts, e) /\ e.kind = Head(reqs).kind
        /\ UNCHANGED <<clicks, issued, wakeups>> /\ worker' = [Idle EXCEPT !.pc = "notify"]
        /\ worker.pc \in {"recv", "load"}
    BY <1>2 DEF Answers, Finish, Emit, Req, workerOnly
  <2>2. F' /\ Busy' = 1
    BY <1>c, <2>1
  <2>3. Busy = 0
    BY <2>1 DEF Busy
  <2>4. Len(reqs) = Len(reqs') + 1 /\ Len(reqs') \in Nat
    <3>1. Len(reqs) = Len(Tail(reqs)) + 1 /\ Channel(Tail(reqs))
      BY <1>a, <2>1, ChannelIs
    <3> QED
      BY <2>1, <3>1, ChannelIs
  <2>5. \/ R' = R /\ E' = E
        \/ R = R' + 1 /\ E' = E + 1 /\ R' \in Nat
    <3>1. CASE e.kind = "delete"
      BY <1>d, <1>e, <1>g, <2>1, <3>1
    <3>2. CASE e.kind # "delete"
      BY <1>d, <1>e, <1>g, <2>1, <3>2
    <3> QED
      BY <3>1, <3>2
  <2>6. M'
    BY <1>0, <1>j, <2>1, <2>5
  <2>7. V'
    BY <1>0, <1>k, <2>1, <2>2, <2>3, <2>4
  <2> QED
    BY <1>0, <2>1, <2>2, <2>6, <2>7
<1>3. ASSUME NEW e, Tells(e) PROVE C' /\ M' /\ V' /\ F'
  <2>1. evts' = Append(evts, e) /\ e.kind # "delete" /\ UNCHANGED <<clicks, issued, reqs, wakeups>>
        /\ worker.pc \in {"scan", "rows"} /\ worker'.pc = "rows"
    BY <1>3 DEF Tells, Emit, workerOnly
  <2>2. E' = E /\ R' = R /\ Busy' = Busy
    BY <1>d, <1>g, <1>i, <2>1 DEF R, Busy
  <2>3. C' /\ M' /\ V'
    BY <1>0, <2>1, <2>2
  <2>4. CASE ScanRejected
    <3>1. f = 0 /\ worker'.found = 1 /\ worker'.errors = 1 /\ worker'.rows = worker.rows
      BY <2>4 DEF ScanRejected, ShapeInv
    <3>2. F'
      BY <1>0, <1>l, <2>1, <3>1
    <3> QED
      BY <2>3, <3>2
  <2>5. CASE EvaluateRow
    <3>1. PICK row : \/ worker' = [worker EXCEPT !.rows = Append(@, row)]
                     \/ worker' = [worker EXCEPT !.errors = @ + 1]
      BY <2>5 DEF EvaluateRow
    <3>2. n + x < f /\ worker.pc = "rows"
      BY <2>5 DEF EvaluateRow, Evaluated, Mine
    <3>3. CASE worker' = [worker EXCEPT !.rows = Append(@, row)]
      <4>1. worker'.found = worker.found /\ worker'.errors = worker.errors /\ worker'.rows = Append(worker.rows, row)
        BY <3>3 DEF ShapeInv
      <4>2. Channel(worker'.rows) /\ Len(worker'.rows) = Len(worker.rows) + 1
        BY <1>0, <4>1, ChannelAppend
      <4>3. F'
        BY <1>0, <1>l, <2>1, <3>2, <4>1, <4>2
      <4> QED
        BY <2>3, <4>3
    <3>4. CASE worker' = [worker EXCEPT !.errors = @ + 1]
      <4>1. worker'.found = worker.found /\ worker'.errors = worker.errors + 1 /\ worker'.rows = worker.rows
        BY <3>4 DEF ShapeInv
      <4>2. F'
        BY <1>0, <1>l, <2>1, <3>2, <4>1
      <4> QED
        BY <2>3, <4>2
    <3> QED
      BY <3>1, <3>3, <3>4
  <2> QED
    BY <1>3, <2>4, <2>5 DEF Tells
<1>4. ASSUME Sees PROVE C' /\ M' /\ V' /\ F'
  <2>1. evts # <<>> /\ evts' = Tail(evts) /\ UNCHANGED <<clicks, worker, wakeups>>
    BY <1>4 DEF Sees, pumpOnly, uiOnly
  <2>2. C' /\ F' /\ Busy' = Busy
    BY <1>0, <2>1 DEF Busy
  <2>3. E' \in Nat /\ E = IF Head(evts).kind = "delete" THEN E' + 1 ELSE E'
    BY <1>f, <1>g, <2>1
  <2>4. CASE UNCHANGED <<issued, reqs>>
    <3>1. R' = R
      BY <2>4 DEF R
    <3>2. M'
      BY <1>0, <1>j, <2>1, <2>3, <2>4, <3>1
    <3>3. V'
      BY <1>0, <2>1, <2>2, <2>4
    <3> QED
      BY <2>2, <3>2, <3>3
  <2>5. CASE Event.kind = "delete" /\ Send("runs", None)
    <3> DEFINE q == [kind |-> "runs", id |-> issued + 1, arg |-> None]
    <3>1. "runs" \in Asked
      BY DEF Asked, ScanAndDelta
    <3>2. /\ issued' = issued + 1
          /\ worker.pc = "dead" => reqs' = reqs
          /\ worker.pc # "dead" => reqs' = Append(reqs, q)
      BY <2>5, <3>1, SendEffect
    <3>q. q.kind # "delete"
      OBVIOUS
    <3> HIDE DEF q
    <3>3. Len(reqs') = Len(reqs) \/ Len(reqs') = Len(reqs) + 1
      BY <1>a, <3>2, ChannelAppend
    <3>4. R' = R
      <4>1. CASE worker.pc = "dead"
        BY <3>2, <4>1 DEF R
      <4>2. CASE worker.pc # "dead"
        BY <1>d, <1>g, <3>2, <3>q, <4>2
      <4> QED
        BY <4>1, <4>2
    <3>5. E = E' + 1
      BY <2>3, <2>5 DEF Event
    <3>6. M'
      BY <1>j, <2>1, <2>3, <3>2, <3>4, <3>5
    <3>7. V'
      BY <1>0, <1>k, <2>1, <2>2, <3>2, <3>3
    <3> QED
      BY <2>2, <3>6, <3>7
  <2> QED
    BY <1>4, <2>4, <2>5 DEF Sees
<1>5. ASSUME Quiet PROVE C' /\ M' /\ V' /\ F'
  <2>1. UNCHANGED <<issued, reqs, evts>> /\ R' = R /\ E' = E
    BY <1>5 DEF Quiet, R, E
  <2>2. CASE CancelScan
    <3>1. UNCHANGED <<clicks, wakeups, worker>>
      BY <2>2 DEF CancelScan
    <3> QED
      BY <1>0, <2>1, <3>1 DEF Busy
  <2>3. CASE (\E side \in {"old", "new"}, r \in delta.runs : Pick(side, r)) \/ ClosePanel
    <3>1. Clicked("mark") /\ UNCHANGED <<wakeups, worker>>
      BY <2>3 DEF Pick, ClosePanel
    <3>2. clicks'["load"] = clicks["load"] /\ clicks'["other"] = clicks["other"]
      BY <1>0, <3>1 DEF Clicked
    <3> QED
      BY <1>0, <1>b, <2>1, <3>1, <3>2 DEF Busy
  <2>4. CASE ScanBegins
    <3>1. worker'.found = 0 /\ worker'.errors = 0 /\ worker'.rows = <<>> /\ worker'.pc = "scan" /\ worker.pc = "recv"
          /\ UNCHANGED <<clicks, wakeups>>
      BY <2>4 DEF ScanBegins, Idle, Serves, workerOnly
    <3>2. F' /\ Busy' = Busy
      BY <1>i, <1>m, <3>1 DEF Busy
    <3> QED
      BY <1>0, <2>1, <3>1, <3>2
  <2>5. CASE WalkOn
    <3>1. f < Found /\ worker'.found = worker.found + 1 /\ worker'.errors = worker.errors
          /\ worker'.rows = worker.rows /\ worker'.pc = worker.pc /\ UNCHANGED <<clicks, wakeups>>
      BY <2>5 DEF WalkOn, workerOnly, ShapeInv
    <3>2. F' /\ Busy' = Busy
      BY <1>0, <1>i, <1>l, <3>1 DEF Busy
    <3> QED
      BY <1>0, <2>1, <3>1, <3>2
  <2>6. CASE WalkEnds
    <3>1. worker'.found = worker.found /\ worker'.errors = worker.errors /\ worker'.rows = worker.rows
          /\ worker'.pc = "rows" /\ worker.pc = "scan" /\ UNCHANGED <<clicks, wakeups>>
      BY <2>6 DEF WalkEnds, Mine, workerOnly, ShapeInv
    <3>2. F' /\ Busy' = Busy
      BY <1>0, <1>i, <1>l, <3>1 DEF Busy
    <3> QED
      BY <1>0, <2>1, <3>1, <3>2
  <2>7. CASE Notify
    <3>1. worker'.found = 0 /\ worker'.errors = 0 /\ worker'.rows = <<>> /\ worker'.pc = "recv" /\ worker.pc = "notify"
          /\ wakeups' = wakeups + 1 /\ UNCHANGED clicks
      BY <2>7 DEF Notify, Idle, workerOnly
    <3>2. F' /\ Busy' = 0 /\ Busy = 1
      BY <1>i, <1>m, <3>1 DEF Busy
    <3>3. V'
      BY <1>0, <1>k, <2>1, <3>1, <3>2
    <3> QED
      BY <1>0, <2>1, <3>1, <3>2, <3>3
  <2>8. CASE Wake
    <3>1. wakeups > 0 /\ wakeups' = wakeups - 1 /\ UNCHANGED <<clicks, worker>>
      BY <2>8 DEF Wake, uiOnly
    <3>2. F' /\ Busy' = Busy
      BY <1>0, <3>1 DEF Busy
    <3>3. wakeups' \in Nat
      BY <1>0, <3>1
    <3>4. V'
      BY <1>k, <2>1, <3>1, <3>2, <3>3
    <3> QED
      BY <1>0, <2>1, <3>1, <3>2, <3>4
  <2>9. CASE CompareTargets /\ worker' = [worker EXCEPT !.pc = "load"]
    <3>1. worker'.found = worker.found /\ worker'.errors = worker.errors /\ worker'.rows = worker.rows
          /\ worker'.pc = "load" /\ worker.pc = "recv" /\ UNCHANGED <<clicks, wakeups>>
      BY <2>9 DEF CompareTargets, Serves, workerOnly, ShapeInv
    <3>2. F' /\ Busy' = Busy
      BY <1>0, <1>i, <1>l, <3>1 DEF Busy
    <3> QED
      BY <1>0, <2>1, <3>1, <3>2
  <2> QED
    BY <1>5, <2>2, <2>3, <2>4, <2>5, <2>6, <2>7, <2>8, <2>9 DEF Quiet
<1>6. ASSUME ScanDone PROVE C' /\ M' /\ V' /\ F'
  <2>1. PICK r, e : evts' = evts \o <<r, e>> /\ r.kind = "risks" /\ e.kind = "scan"
    BY <1>6, ScanDoneEvents
  <2>2. reqs # <<>> /\ reqs' = Tail(reqs) /\ Head(reqs).kind = "scan" /\ UNCHANGED <<clicks, issued, wakeups>>
        /\ worker' = [Idle EXCEPT !.pc = "notify"] /\ worker.pc = "rows"
    BY <1>6 DEF ScanDone, Mine, Finish, workerOnly, QueueInv
  <2>3. evts' = Append(Append(evts, r), e) /\ Channel(Append(evts, r))
    <3>1. evts \o <<r, e>> = Append(Append(evts, r), e)
      BY <1>a, TwoEvents
    <3> QED
      BY <1>a, <2>1, <3>1, ChannelAppend
  <2>4. F' /\ Busy' = 1
    BY <1>c, <2>2
  <2>5. Len(reqs) = Len(reqs') + 1 /\ Len(reqs') \in Nat
    <3>1. Len(reqs) = Len(Tail(reqs)) + 1 /\ Channel(Tail(reqs))
      BY <1>a, <2>2, ChannelIs
    <3> QED
      BY <2>2, <3>1, ChannelIs
  <2>6. R' = R
    BY <1>e, <1>g, <2>2
  <2>7. E' = E
    <3>1. Len(Of(Append(evts, r), Del)) = E
      BY <1>d, <2>1
    <3>2. ~ (e.kind \in Del)
      BY <2>1 DEF Del
    <3>3. Len(Of(Append(Append(evts, r), e), Del)) = Len(Of(Append(evts, r), Del))
      BY <2>3, <3>2, LenOf
    <3> QED
      BY <1>g, <2>3, <3>1, <3>3
  <2>8. Busy = 0
    BY <2>2 DEF Busy
  <2>9. V'
    BY <1>0, <1>k, <2>2, <2>4, <2>5, <2>8
  <2> QED
    BY <1>0, <2>2, <2>4, <2>6, <2>7, <2>9
<1>7. ASSUME StartWorker PROVE C' /\ M' /\ V' /\ F'
  <2>1. worker'.found = 0 /\ worker'.errors = 0 /\ worker'.rows = <<>> /\ worker'.pc = "recv" /\ worker.pc = "start"
        /\ UNCHANGED <<clicks, issued, reqs, evts, wakeups>>
    BY <1>7 DEF StartWorker, Idle, workerOnly
  <2>2. F' /\ Busy' = Busy /\ R' = R /\ E' = E
    BY <1>i, <1>m, <2>1 DEF Busy, R, E
  <2> QED
    BY <1>0, <2>1, <2>2
<1>8. ASSUME WorkerDies PROVE C' /\ M' /\ V' /\ F'
  <2>1. worker'.found = worker.found /\ worker'.errors = worker.errors /\ worker'.rows = worker.rows
        /\ worker'.pc = "dead" /\ worker.pc = "start" /\ reqs' = <<>> /\ UNCHANGED <<clicks, issued, evts, wakeups>>
    BY <1>8 DEF WorkerDies, workerOnly, ShapeInv
  <2>2. Len(reqs') = 0 /\ R' = 0 /\ E' = E /\ Busy' = 0
    BY <1>d, <1>g, <1>h, <1>i, <2>1 DEF E
  <2>3. V'
    BY <1>0, <1>k, <2>1, <2>2
  <2>4. F'
    BY <1>0, <1>l, <2>1
  <2>5. M'
    BY <1>j, <2>1, <2>2
  <2> QED
    BY <1>0, <2>1, <2>3, <2>4, <2>5
<1> HIDE DEF C, M, V, F
<1> QED
  BY <1>1, <1>2, <1>3, <1>4, <1>5, <1>6, <1>7, <1>8, StepKinds

----------------------------------------------------------------------------
(* The window implements the service its tabs rely on.                     *)

\* Everything starts in order.
LEMMA CoreInit ==
    ASSUME Init, GuiAssumption
    PROVE  ShapeInv /\ QueueInv /\ BoundInv
<1>1. ShapeInv
  <2>1. DOMAIN worker = {"pc", "id", "rows", "found", "errors", "cancelled"} /\ worker.pc = "start"
        /\ worker.cancelled = FALSE
    BY DEF Init, Idle
  <2>2. DOMAIN tab = Tabs /\ \A t \in Tabs : DOMAIN tab[t] = {"running", "asked", "shown"}
    BY DEF Init
  <2>3. \A r \in DOMAIN store : store[r].partial \in BOOLEAN
    BY DEF Init, StoredRun
  <2>4. DOMAIN scan = {"running", "done", "id", "rows", "errors", "risks", "run", "cancelled",
                       "isError", "cancelClicked", "export"}
    BY DEF Init
  <2>5. DOMAIN delta = {"loading", "runs", "old", "new", "result", "title", "errors"}
        /\ delta.old = None /\ delta.new = None
    BY DEF Init
  <2>6. cancel \in BOOLEAN /\ lock \in {Nobody, "worker", "cli"} /\ (deleting # {} <=> lock = "worker")
    BY DEF Init, Nobody
  <2> QED
    BY <2>1, <2>2, <2>3, <2>4, <2>5, <2>6 DEF ShapeInv
<1>2. Channel(<<>>) /\ Len(<<>>) = 0 /\ <<Preload>> = Append(<<>>, Preload)
  BY OfEmpty
<1>3. Channel(<<Preload>>) /\ Len(<<Preload>>) = 1
  <2>1. Channel(Append(<<>>, Preload)) /\ Len(Append(<<>>, Preload)) = Len(<<>>) + 1
    BY <1>2, ChannelAppend
  <2> QED
    BY <1>2, <2>1
<1>4. reqs = <<Preload>> /\ evts = <<>> /\ issued = 1 /\ worker.pc = "start" /\ pumping = FALSE
  BY DEF Init, Idle
<1>5. QueueInv
  <2>1. \A i \in DOMAIN reqs : i = 1 /\ reqs[i].kind \in Asked /\ reqs[i].id = 1
    BY <1>4 DEF Preload, Asked, GuiAssumption
  <2>2. DOMAIN evts = {}
    BY <1>4
  <2>3. Numbered(reqs, evts, issued)
    BY <1>2, <1>3, <1>4, <2>1, <2>2 DEF Numbered
  <2> QED
    BY <1>4, <2>3 DEF QueueInv
<1>6. BoundInv
  <2>1. Len(Of(evts, {"delete"})) = 0
    BY <1>2, <1>4, LenOf
  <2>2. Preload.kind \notin {"delete"}
    BY DEF Preload
  <2>3. Len(Of(reqs, {"delete"})) = 0
    <3>1. Len(Of(Append(<<>>, Preload), {"delete"})) = Len(Of(<<>>, {"delete"}))
      BY <1>2, <2>2, LenOf
    <3> QED
      BY <1>2, <1>4, <2>1, <3>1
  <2>4. clicks \in [{"load", "other", "mark"} -> Nat] /\ clicks["load"] = MaxLoads /\ clicks["other"] = MaxRequests
    BY DEF Init, GuiAssumption
  <2>5. worker.rows = <<>> /\ worker.found = 0 /\ worker.errors = 0 /\ wakeups = 0 /\ Found \in Nat
        /\ MaxLoads \in Nat /\ MaxRequests \in Nat
    BY DEF Init, Idle, GuiAssumption
  <2>6. MaxId = 2 * MaxRequests + MaxLoads + 1
    BY DEF MaxId
  <2>7. issued + clicks["load"] + 2 * clicks["other"] + Len(Of(reqs, {"delete"})) + Len(Of(evts, {"delete"})) <= MaxId
    <3>1. 1 + MaxLoads + 2 * MaxRequests + 0 + 0 <= 2 * MaxRequests + MaxLoads + 1
      BY <2>5
    <3> QED
      BY <1>4, <2>1, <2>3, <2>4, <2>6, <3>1
  <2>8. wakeups + Len(reqs) + (IF worker.pc = "notify" THEN 1 ELSE 0) <= issued
    BY <1>3, <1>4, <2>5
  <2>9. Channel(worker.rows) /\ Len(worker.rows) = 0
    BY <1>2, <2>5
  <2> QED
    BY <1>4, <2>4, <2>5, <2>7, <2>8, <2>9 DEF BoundInv
<1> QED
  BY <1>1, <1>5, <1>6

\* The second window touches the history and its own clicks only.
LEMMA OtherKeeps ==
    ASSUME OtherWindow
    PROVE  UNCHANGED <<issued, reqs, evts, wakeups, pumping, worker, dbOpen, cancel, last,
                       deleting, lock, reading, tab, scan, delta>>
BY DEF OtherWindow, SecondWindow, ui

\* It takes a run out of the history and remembers what can have been read of it.
LEMMA OtherDeletes ==
    ASSUME OtherWindow
    PROVE  \E r \in DOMAIN store :
             /\ DOMAIN store' = DOMAIN store \ {r} /\ \A q \in DOMAIN store' : store'[q] = store[q]
             /\ DOMAIN elsewhere' = DOMAIN elsewhere \cup {r}
             /\ elsewhere'[r] = ReadAs(r) \cup (IF r \in Compared THEN {<<>>} ELSE {})
             /\ \A q \in DOMAIN elsewhere : q # r => elsewhere'[q] = elsewhere[q]
BY DEF OtherWindow, SecondWindow

\* Fields, queues and bounds stay as they are.
LEMMA OtherKeepsCore ==
    ASSUME ShapeInv, QueueInv, BoundInv, GuiAssumption, OtherWindow
    PROVE  (ShapeInv /\ QueueInv /\ BoundInv)'
<1>1. UNCHANGED <<issued, reqs, evts, wakeups, pumping, worker, cancel, deleting, lock, tab, scan, delta>>
  BY OtherKeeps
<1>2. ShapeInv'
  <2>1. \A r \in DOMAIN store' : store'[r].partial \in BOOLEAN
    BY OtherDeletes DEF ShapeInv
  <2> QED
    BY <1>1, <2>1 DEF ShapeInv
<1>3. QueueInv'
  BY <1>1 DEF QueueInv
<1>4. BoundInv'
  <2> DEFINE R == Len(Of(reqs, {"delete"}))
             E == Len(Of(evts, {"delete"}))
  <2>1. clicks["other"] > 0 /\ clicks' = [clicks EXCEPT !["other"] = @ - 1]
    BY DEF OtherWindow, SecondWindow
  <2>2. clicks \in [{"load", "other", "mark"} -> Nat]
    BY DEF BoundInv
  <2>3. /\ clicks' \in [{"load", "other", "mark"} -> Nat] /\ clicks'["load"] = clicks["load"]
        /\ clicks'["other"] \in Nat /\ clicks["other"] = clicks'["other"] + 1 /\ clicks["load"] \in Nat
    BY <2>1, <2>2
  <2>4. Channel(reqs) /\ Channel(evts) /\ issued \in Nat
    BY DEF QueueInv, Numbered
  <2>5. R \in Nat /\ E \in Nat /\ MaxId \in Nat
    BY <2>4, LenOf, GuiAssumption DEF GuiAssumption, MaxId
  <2>6. issued + clicks["load"] + 2 * clicks["other"] + R + E <= MaxId
    BY DEF BoundInv
  <2> HIDE DEF R, E
  <2>7. issued + clicks'["load"] + 2 * clicks'["other"] + R + E <= MaxId
    BY <2>3, <2>4, <2>5, <2>6
  <2> QED
    BY <1>1, <2>3, <2>7 DEF BoundInv, R, E
<1> QED
  BY <1>2, <1>3, <1>4

\* And stays in order.
LEMMA CoreStep ==
    ASSUME ShapeInv, QueueInv, BoundInv, GuiAssumption, [Next]_vars
    PROVE  (ShapeInv /\ QueueInv /\ BoundInv)'
<1>1. CASE Window
  BY <1>1, ShapeStep, QueueStep, BoundStep
<1>2. CASE UNCHANGED vars
  <2>1. UNCHANGED <<clicks, issued, reqs, evts, wakeups, pumping, worker, cancel, store, deleting, lock, tab, scan, delta>>
    BY <1>2 DEF vars, sqlite, ui
  <2>2. ShapeInv'
    BY <2>1 DEF ShapeInv
  <2>3. QueueInv'
    BY <2>1 DEF QueueInv
  <2>4. BoundInv'
    BY <2>1 DEF BoundInv
  <2> QED
    BY <2>2, <2>3, <2>4
<1>3. CASE OtherWindow
  BY <1>3, OtherKeepsCore
<1> QED
  BY <1>1, <1>2, <1>3 DEF Next

\* Fields, queues and bounds hold in every reachable state.
LEMMA CoreAlways == Spec => [](ShapeInv /\ QueueInv /\ BoundInv)
<1>1. Init => ShapeInv /\ QueueInv /\ BoundInv
  BY CoreInit, GuiAssumption
<1>2. (ShapeInv /\ QueueInv /\ BoundInv) /\ [Next]_vars => (ShapeInv /\ QueueInv /\ BoundInv)'
  BY CoreStep, GuiAssumption
<1> QED
  BY <1>1, <1>2, PTL DEF Spec

\* Which make up the type of the state.
LEMMA CoreType ==
    ASSUME ShapeInv, QueueInv, BoundInv
    PROVE  TypeOK
<1>1. issued \in Nat \ {0} /\ Len(reqs) \in Nat /\ Len(worker.rows) \in Nat /\ MaxId \in Nat /\ Found \in Nat
      /\ Len(Of(reqs, {"delete"})) \in Nat /\ Len(Of(evts, {"delete"})) \in Nat /\ wakeups \in Nat
      /\ clicks["load"] \in Nat /\ clicks["other"] \in Nat /\ worker.errors \in Nat /\ worker.found \in Nat
  <2>1. Channel(reqs) /\ Channel(evts) /\ issued \in Nat \ {0} /\ Channel(worker.rows)
    BY DEF QueueInv, Numbered, BoundInv
  <2>2. MaxId \in Nat /\ Found \in Nat
    BY GuiAssumption DEF GuiAssumption, MaxId
  <2>3. Len(reqs) \in Nat /\ Len(worker.rows) \in Nat
    BY <2>1, ChannelIs
  <2>4. Len(Of(reqs, {"delete"})) \in Nat /\ Len(Of(evts, {"delete"})) \in Nat
    BY <2>1, LenOf
  <2>5. wakeups \in Nat /\ clicks["load"] \in Nat /\ clicks["other"] \in Nat /\ worker.errors \in Nat
        /\ worker.found \in Nat
    BY DEF BoundInv
  <2> QED
    BY <2>1, <2>2, <2>3, <2>4, <2>5
<1>2. issued <= MaxId
  <2> DEFINE l == clicks["load"]
             o == clicks["other"]
             x == Len(Of(reqs, {"delete"}))
             y == Len(Of(evts, {"delete"}))
  <2>1. Within(issued, l, o, x, y, MaxId)
    BY DEF BoundInv, Within
  <2>2. issued \in Nat /\ l \in Nat /\ o \in Nat /\ x \in Nat /\ y \in Nat /\ MaxId \in Nat
    BY <1>1
  <2>3. \A i, a, b, c, d, m \in Nat : Within(i, a, b, c, d, m) => i <= m
    BY DEF Within
  <2> HIDE DEF l, o, x, y
  <2> QED
    BY <2>1, <2>2, <2>3
<1>3. wakeups <= issued
  <2>1. wakeups + Len(reqs) + (IF worker.pc = "notify" THEN 1 ELSE 0) <= issued
    BY DEF BoundInv
  <2> QED
    BY <1>1, <2>1
<1>4. worker.found \in 0 .. Found + 1 /\ Len(worker.rows) <= worker.found
  <2>1. Len(worker.rows) + worker.errors <= worker.found /\ worker.found <= Found + 1
    BY DEF BoundInv
  <2> QED
    BY <1>1, <2>1
<1> QED
  BY <1>1, <1>2, <1>3, <1>4 DEF TypeOK, ShapeInv, QueueInv

\* The state of the window has its type: the requests never outnumber the clicks and the
\* reloads that deletions cause, there are no more wake-ups than answers, a walk stays within
\* its tree, and the marks of the Delta tab are on runs it lists (spawn_worker, notify,
\* handle_runs_loaded, handle_run_deleted).
THEOREM WindowTypeCorrect == Spec => []TypeOK
<1>1. ShapeInv /\ QueueInv /\ BoundInv => TypeOK
  BY CoreType
<1> QED
  BY <1>1, CoreAlways, PTL

\* The numbers of the messages in a channel.
LEMMA IdsOf ==
    ASSUME NEW s, Channel(s)
    PROVE  /\ Ids(<<>>) = <<>>
           /\ \A e : Ids(Append(s, e)) = Append(Ids(s), e.id)
           /\ s # <<>> => Ids(s) # <<>> /\ Ids(Tail(s)) = Tail(Ids(s)) /\ Head(Ids(s)) = Head(s).id
<1> DEFINE x == Ids(s)
<1>1. Len(s) \in Nat /\ DOMAIN s = 1 .. Len(s)
  BY ChannelIs
<1>2. ASSUME NEW u, Channel(u) PROVE Channel(Ids(u)) /\ Len(Ids(u)) = Len(u) /\ \A i \in 1 .. Len(u) : Ids(u)[i] = u[i].id
  <2> DEFINE v == Ids(u)
             S == {u[i].id : i \in 1 .. Len(u)}
  <2>1. Len(u) \in Nat /\ DOMAIN u = 1 .. Len(u)
    BY <1>2, ChannelIs
  <2>2. v = [i \in 1 .. Len(u) |-> u[i].id]
    BY <2>1 DEF Ids
  <2>3. v \in [1 .. Len(u) -> S]
    BY <2>2
  <2>4. DOMAIN v = 1 .. Len(u) /\ \A i \in 1 .. Len(u) : v[i] = u[i].id
    BY <2>2
  <2> HIDE DEF v, S
  <2>5. v \in Seq(S) /\ Len(v) = Len(u)
    BY <2>1, <2>3
  <2>6. Channel(v)
    BY <2>4, <2>5 DEF Channel, In
  <2> QED
    BY <2>4, <2>5, <2>6 DEF v
<1>3. Ids(<<>>) = <<>>
  BY DEF Ids
<1>4. ASSUME NEW e PROVE Ids(Append(s, e)) = Append(Ids(s), e.id)
  <2> DEFINE t == Append(s, e)
             y == Append(x, e.id)
  <2>1. Channel(t) /\ Len(t) = Len(s) + 1 /\ t[Len(s) + 1] = e /\ \A i \in 1 .. Len(s) : t[i] = s[i]
    BY <1>1, ChannelAppend
  <2>2. Channel(x) /\ Len(x) = Len(s) /\ \A i \in 1 .. Len(s) : x[i] = s[i].id
    BY <1>2
  <2>3. Channel(y) /\ Len(y) = Len(s) + 1 /\ y[Len(s) + 1] = e.id /\ \A i \in 1 .. Len(s) : y[i] = x[i]
    <3>1. DOMAIN x = 1 .. Len(s)
      BY <2>2, ChannelIs
    <3> QED
      BY <2>2, <3>1, ChannelAppend
  <2> HIDE DEF t, x, y
  <2>4. Channel(Ids(t)) /\ Len(Ids(t)) = Len(s) + 1 /\ \A i \in 1 .. Len(s) + 1 : Ids(t)[i] = t[i].id
    BY <1>2, <2>1
  <2>5. \A i \in 1 .. Len(s) + 1 : Ids(t)[i] = y[i]
    <3> SUFFICES ASSUME NEW i \in 1 .. Len(s) + 1 PROVE Ids(t)[i] = y[i]
      OBVIOUS
    <3>1. CASE i = Len(s) + 1
      BY <1>1, <2>1, <2>3, <2>4, <3>1
    <3>2. CASE i # Len(s) + 1
      <4>1. i \in 1 .. Len(s)
        BY <1>1, <3>2
      <4> QED
        BY <2>1, <2>2, <2>3, <2>4, <4>1
    <3> QED
      BY <3>1, <3>2
  <2>6. Ids(t) = y
    BY <2>3, <2>4, <2>5, SameChannel
  <2> QED
    BY <2>6 DEF t, x, y
<1>5. ASSUME s # <<>> PROVE Ids(s) # <<>> /\ Ids(Tail(s)) = Tail(Ids(s)) /\ Head(Ids(s)) = Head(s).id
  <2> DEFINE t == Tail(s)
             y == Tail(x)
  <2>1. Channel(t) /\ Len(s) = Len(t) + 1 /\ Head(s) = s[1] /\ \A i \in DOMAIN t : t[i] = s[i + 1]
    BY <1>5, ChannelIs
  <2>2. Len(t) \in Nat /\ DOMAIN t = 1 .. Len(t)
    BY <2>1, ChannelIs
  <2>3. Channel(x) /\ Len(x) = Len(s) /\ \A i \in 1 .. Len(s) : x[i] = s[i].id
    BY <1>2
  <2>4. x # <<>>
    BY <2>1, <2>2, <2>3
  <2>5. Channel(y) /\ Len(x) = Len(y) + 1 /\ Head(x) = x[1] /\ \A i \in DOMAIN y : y[i] = x[i + 1]
    BY <2>3, <2>4, ChannelIs
  <2>6. Len(y) \in Nat /\ DOMAIN y = 1 .. Len(y)
    BY <2>5, ChannelIs
  <2> HIDE DEF t, x, y
  <2>7. Channel(Ids(t)) /\ Len(Ids(t)) = Len(t) /\ \A i \in 1 .. Len(t) : Ids(t)[i] = t[i].id
    BY <1>2, <2>1
  <2>8. Len(Ids(t)) = Len(y)
    <3>1. Len(s) = Len(t) + 1 /\ Len(t) \in Nat
      BY <2>1, <2>2
    <3>2. Len(s) = Len(y) + 1 /\ Len(y) \in Nat
      BY <2>3, <2>5, <2>6
    <3> QED
      BY <2>7, <3>1, <3>2
  <2>9. \A i \in 1 .. Len(Ids(t)) : Ids(t)[i] = y[i]
    <3> SUFFICES ASSUME NEW i \in 1 .. Len(t) PROVE Ids(t)[i] = y[i]
      BY <2>7
    <3>1. i \in DOMAIN t /\ i \in DOMAIN y /\ i + 1 \in 1 .. Len(s)
      BY <2>1, <2>2, <2>6, <2>7, <2>8
    <3>2. Ids(t)[i] = t[i].id /\ t[i] = s[i + 1] /\ y[i] = x[i + 1] /\ x[i + 1] = s[i + 1].id
      BY <2>1, <2>3, <2>5, <2>7, <3>1
    <3> QED
      BY <3>2
  <2>10. Ids(t) = y
    BY <2>5, <2>7, <2>8, <2>9, SameChannel
  <2>11. Head(x) = Head(s).id
    <3>1. 1 \in 1 .. Len(s)
      BY <2>1, <2>2
    <3> QED
      BY <2>1, <2>3, <2>5, <3>1
  <2> QED
    BY <2>4, <2>10, <2>11 DEF t, x, y
<1> QED
  BY <1>3, <1>4, <1>5

\* Queues, wake-ups and the handlers of several steps amount to the service the tabs rely
\* on: every request is answered once, in the order the requests were made, and every answer
\* is seen once, in that order (spawn_worker, pump_worker_events).
THEOREM ServesInOrderAlways == Spec => ServesInOrder
<1> DEFINE W == Ids(reqs)
           A == Ids(Of(evts, Asked))
           G == worker.pc = "dead"
<1>1. Init => RS!Init
  <2> SUFFICES ASSUME Init PROVE RS!Init
    OBVIOUS
  <2>1. reqs = <<Preload>> /\ evts = <<>> /\ worker.pc = "start"
    BY DEF Init, Idle
  <2>2. Ids(<<Preload>>) = <<1>>
    BY DEF Ids, Preload
  <2>3. Of(<<>>, Asked) = <<>> /\ Channel(<<>>)
    BY OfEmpty
  <2>4. Ids(<<>>) = <<>>
    BY <2>3, IdsOf
  <2> QED
    BY <2>1, <2>2, <2>3, <2>4 DEF RS!Init
<1>2. ASSUME ShapeInv, QueueInv, TypeOK', [Next]_vars PROVE [RS!Next]_RS!vars
  <2>1. Channel(reqs) /\ Channel(evts) /\ Channel(Of(evts, Asked)) /\ issued \in Nat
    BY <1>2, OfAt DEF QueueInv, Numbered
  <2>2. issued' \in 1 .. MaxId
    BY <1>2 DEF TypeOK
  <2> DEFINE Stays    == W' = W /\ A' = A /\ (G' <=> G)
             Accepts  == ~ G /\ \E r \in 1 .. MaxId : W' = Append(W, r)
  <2>3. Stays => [RS!Next]_RS!vars
    BY DEF RS!vars
  <2>4. Accepts /\ A' = A /\ (G' <=> G) => RS!Next
    BY DEF RS!Next, RS!Accept, RS!Accepted
  <2>5. W # <<>> /\ W' = Tail(W) /\ A' = Append(A, Head(W)) /\ (G' <=> G) => RS!Next
    BY DEF RS!Next, RS!Answer
  <2>6. A # <<>> /\ A' = Tail(A) /\ (Accepts \/ W' = W) /\ (G' <=> G) => RS!Next
    BY DEF RS!Next, RS!See, RS!Accepted
  <2>7. ~ G /\ A = <<>> /\ G' /\ W' = <<>> /\ A' = A => RS!Next
    BY DEF RS!Next, RS!Vanish
  <2>w. /\ W' = Ids(reqs') /\ A' = Ids(Of(evts', Asked))
        /\ reqs' = reqs => W' = W
        /\ evts' = evts => A' = A
    OBVIOUS
  <2> HIDE DEF W, A, G
  <2>8. ASSUME NEW k, NEW a, k \in Asked, Send(k, a) PROVE Accepts \/ (G /\ W' = W)
    <3> DEFINE q == [kind |-> k, id |-> issued + 1, arg |-> a]
    <3>1. /\ issued' = issued + 1
          /\ worker.pc = "dead" => reqs' = reqs
          /\ worker.pc # "dead" => reqs' = Append(reqs, q)
      BY <1>2, <2>8, SendEffect
    <3>2. q.id = issued'
      BY <3>1
    <3> HIDE DEF q
    <3>3. CASE worker.pc = "dead"
      BY <2>w, <3>1, <3>3 DEF G
    <3>4. CASE worker.pc # "dead"
      <4>1. W' = Append(W, issued')
        BY <2>1, <2>w, <3>1, <3>2, <3>4, IdsOf DEF W
      <4> QED
        BY <2>2, <3>4, <4>1 DEF G
    <3> QED
      BY <3>3, <3>4
  <2>9. ASSUME NEW k, NEW a, Asks(k, a) PROVE [RS!Next]_RS!vars
    <3>1. k \in Asked /\ Send(k, a) /\ UNCHANGED <<evts, worker>>
      BY <2>9 DEF Asks
    <3>2. A' = A /\ (G' <=> G)
      BY <2>w, <3>1 DEF G
    <3> QED
      BY <2>3, <2>4, <2>8, <3>1, <3>2
  <2>10. ASSUME NEW e, Answers(e) PROVE [RS!Next]_RS!vars
    <3>1. reqs # <<>> /\ reqs' = Tail(reqs) /\ evts' = Append(evts, e) /\ e.kind \in Asked /\ e.id = Head(reqs).id
          /\ worker.pc # "dead"
      BY <2>10 DEF Answers, Finish, Emit, Req
    <3>2. ~ G /\ ~ G'
      <4>1. worker'.pc = "notify"
        BY <2>10 DEF Answers, Finish, Idle
      <4> QED
        BY <3>1, <4>1 DEF G
    <3>3. W # <<>> /\ W' = Tail(W) /\ Head(W) = e.id
      BY <2>1, <2>w, <3>1, IdsOf DEF W
    <3>4. A' = Append(A, e.id)
      <4>1. Of(evts', Asked) = Append(Of(evts, Asked), e)
        BY <2>1, <3>1, OfAppend
      <4> QED
        BY <2>1, <2>w, <4>1, IdsOf DEF A
    <3> QED
      BY <2>5, <3>2, <3>3, <3>4
  <2>11. ASSUME NEW e, Tells(e) PROVE [RS!Next]_RS!vars
    <3>1. evts' = Append(evts, e) /\ e.kind \notin Asked /\ reqs' = reqs /\ worker.pc # "dead" /\ worker'.pc # "dead"
      <4>1. e.kind \in Progress
        BY <2>11 DEF Tells, Progress
      <4> QED
        BY <2>11, <4>1, ApartKinds, GuiAssumption DEF Tells, Emit
    <3>2. Of(evts', Asked) = Of(evts, Asked)
      BY <2>1, <3>1, OfAppend
    <3>3. W' = W /\ A' = A /\ (G' <=> G)
      BY <2>w, <3>1, <3>2 DEF A, G
    <3> QED
      BY <2>3, <3>3
  <2>12. ASSUME Sees PROVE [RS!Next]_RS!vars
    <3>1. evts # <<>> /\ evts' = Tail(evts) /\ worker' = worker
      BY <2>12 DEF Sees, pumpOnly, uiOnly
    <3>2. G' <=> G
      BY <3>1 DEF G
    <3>3. ~ G
      BY <1>2, <3>1 DEF G, QueueInv
    <3>4. CASE Head(evts).kind \in Asked
      <4>1. Of(evts', Asked) = Tail(Of(evts, Asked)) /\ Of(evts, Asked) # <<>>
        BY <2>1, <3>1, <3>4, OfTail
      <4>2. A # <<>> /\ A' = Tail(A)
        BY <2>1, <2>w, <4>1, IdsOf DEF A
      <4>3. Accepts \/ W' = W
        <5>1. "runs" \in Asked
          BY DEF Asked, ScanAndDelta
        <5>2. UNCHANGED <<issued, reqs>> \/ Send("runs", None)
          BY <2>12 DEF Sees
        <5> QED
          BY <2>8, <2>w, <5>1, <5>2
      <4> QED
        BY <2>6, <3>2, <4>2, <4>3
    <3>5. CASE Head(evts).kind \notin Asked
      <4>1. Of(evts', Asked) = Of(evts, Asked)
        BY <2>1, <3>1, <3>5, OfTail
      <4>2. "delete" \in Asked
        BY DEF Asked, ScanAndDelta
      <4>3. reqs' = reqs
        BY <2>12, <3>5, <4>2 DEF Sees, Event
      <4>4. W' = W /\ A' = A
        BY <2>w, <4>1, <4>3 DEF A
      <4> QED
        BY <2>3, <3>2, <4>4
    <3> QED
      BY <3>4, <3>5
  <2>13. ASSUME Quiet PROVE [RS!Next]_RS!vars
    <3>1. W' = W /\ A' = A
      BY <2>13, <2>w DEF Quiet
    <3>2. G' <=> G
      <4>1. CASE worker' = worker
        BY <4>1 DEF G
      <4>2. CASE ScanBegins \/ Notify
        <5>1. ASSUME ScanBegins PROVE worker.pc = "recv" /\ worker'.pc = "scan"
          BY <5>1 DEF ScanBegins, Idle, Serves
        <5>2. ASSUME Notify PROVE worker.pc = "notify" /\ worker'.pc = "recv"
          BY <5>2 DEF Notify, Idle
        <5> QED
          BY <4>2, <5>1, <5>2 DEF G
      <4>3. CASE WalkOn \/ WalkEnds
        BY <1>2, <4>3 DEF WalkOn, WalkEnds, Mine, ShapeInv, G
      <4>4. CASE CompareTargets /\ worker' = [worker EXCEPT !.pc = "load"]
        BY <1>2, <4>4 DEF CompareTargets, Serves, ShapeInv, G
      <4> QED
        BY <2>13, <4>1, <4>2, <4>3, <4>4 DEF Quiet, CancelScan, Pick, ClosePanel, Wake, uiOnly
    <3> QED
      BY <2>3, <3>1, <3>2
  <2>14. ASSUME ScanDone PROVE [RS!Next]_RS!vars
    <3>1. PICK r, e : evts' = evts \o <<r, e>> /\ r.kind = "risks" /\ e.kind = "scan" /\ e.id = Head(reqs).id
      BY <2>14, ScanDoneEvents
    <3>2. reqs # <<>> /\ reqs' = Tail(reqs) /\ worker.pc = "rows" /\ worker'.pc = "notify"
      BY <1>2, <2>14 DEF ScanDone, Mine, Finish, Idle, QueueInv
    <3>3. evts' = Append(Append(evts, r), e) /\ Channel(Append(evts, r))
      <4>1. evts \o <<r, e>> = Append(Append(evts, r), e)
        BY <2>1, TwoEvents
      <4> QED
        BY <2>1, <3>1, <4>1, ChannelAppend
    <3>4. "risks" \notin Asked /\ "scan" \in Asked
      BY ApartKinds, GuiAssumption DEF Asked, ScanAndDelta, Progress
    <3>5. Of(Append(evts, r), Asked) = Of(evts, Asked)
      BY <2>1, <3>1, <3>4, OfAppend
    <3>6. Of(evts', Asked) = Append(Of(evts, Asked), e)
      <4>1. e.kind \in Asked
        BY <3>1, <3>4
      <4>2. Of(Append(Append(evts, r), e), Asked) = Append(Of(Append(evts, r), Asked), e)
        BY <3>3, <4>1, OfAppend
      <4> QED
        BY <3>3, <3>5, <4>2
    <3>7. W # <<>> /\ W' = Tail(W) /\ Head(W) = e.id
      BY <2>1, <2>w, <3>1, <3>2, IdsOf DEF W
    <3>8. A' = Append(A, e.id)
      BY <2>1, <2>w, <3>6, IdsOf DEF A
    <3> QED
      BY <2>5, <3>2, <3>7, <3>8 DEF G
  <2>15. ASSUME StartWorker PROVE [RS!Next]_RS!vars
    <3>1. UNCHANGED <<reqs, evts>> /\ worker.pc = "start" /\ worker'.pc = "recv"
      BY <2>15 DEF StartWorker, Idle
    <3> QED
      BY <2>3, <2>w, <3>1 DEF G
  <2>16. ASSUME WorkerDies PROVE [RS!Next]_RS!vars
    <3>1. evts = <<>> /\ evts' = evts /\ reqs' = <<>> /\ worker.pc = "start" /\ worker'.pc = "dead"
      BY <1>2, <2>16 DEF WorkerDies, ShapeInv, QueueInv
    <3>2. A = <<>> /\ A' = A /\ W' = <<>>
      BY <2>1, <2>w, <3>1, OfEmpty, IdsOf DEF A
    <3> QED
      BY <2>7, <3>1, <3>2 DEF G
  <2>17. ASSUME UNCHANGED vars \/ OtherWindow PROVE [RS!Next]_RS!vars
    <3>1. UNCHANGED <<reqs, evts, worker>>
      BY <2>17, OtherKeeps DEF vars
    <3> QED
      BY <2>3, <2>w, <3>1 DEF G
  <2>18. ASSUME Window PROVE [RS!Next]_RS!vars
    BY <1>2, <2>9, <2>10, <2>11, <2>12, <2>13, <2>14, <2>15, <2>16, <2>18, GuiAssumption, StepKinds
  <2> QED
    BY <1>2, <2>17, <2>18 DEF Next
<1> QED
  BY <1>1, <1>2, CoreAlways, WindowTypeCorrect, PTL DEF Spec, ServesInOrder, RS!Spec

----------------------------------------------------------------------------
(* What a step does to the messages under way.                             *)

\* Sending adds a message, taking removes the first.
LEMMA InChannel ==
    ASSUME NEW s, Channel(s)
    PROVE  /\ \A e : In(Append(s, e)) = In(s) \cup {e}
           /\ s # <<>> => Head(s) \in In(s) /\ In(s) = In(Tail(s)) \cup {Head(s)}
           /\ In(<<>>) = {}
<1>1. ASSUME NEW e PROVE In(Append(s, e)) = In(s) \cup {e}
  <2> DEFINE t == Append(s, e)
  <2>1. /\ Len(s) \in Nat /\ DOMAIN s = 1 .. Len(s) /\ DOMAIN t = 1 .. Len(s) + 1
        /\ \A i \in DOMAIN s : i \in DOMAIN t /\ t[i] = s[i]
        /\ t[Len(s) + 1] = e
        /\ \A i \in DOMAIN t : i \in DOMAIN s \/ i = Len(s) + 1
    BY ChannelAppend, ChannelIs
  <2> HIDE DEF t
  <2>2. Len(s) + 1 \in DOMAIN t
    BY <2>1
  <2>3. In(t) = In(s) \cup {e}
    BY <2>1, <2>2 DEF In
  <2> QED
    BY <2>3 DEF t
<1>2. ASSUME s # <<>> PROVE Head(s) \in In(s) /\ In(s) = In(Tail(s)) \cup {Head(s)}
  <2> DEFINE t == Tail(s)
  <2>1. /\ Len(s) \in Nat /\ Len(s) > 0 /\ DOMAIN s = 1 .. Len(s) /\ 1 \in DOMAIN s /\ Head(s) = s[1]
        /\ DOMAIN t = 1 .. Len(s) - 1
        /\ \A i \in DOMAIN t : i + 1 \in DOMAIN s /\ t[i] = s[i + 1]
    BY <1>2, ChannelIs
  <2> HIDE DEF t
  <2>2. \A i \in DOMAIN s : i = 1 \/ (i - 1 \in DOMAIN t /\ s[i] = t[i - 1])
    <3> SUFFICES ASSUME NEW i \in DOMAIN s, i # 1 PROVE i - 1 \in DOMAIN t /\ s[i] = t[i - 1]
      OBVIOUS
    <3>1. i - 1 \in DOMAIN t /\ (i - 1) + 1 = i
      BY <2>1
    <3> QED
      BY <2>1, <3>1
  <2>3. In(s) = In(t) \cup {s[1]}
    BY <2>1, <2>2 DEF In
  <2> QED
    BY <2>1, <2>3 DEF t, In
<1>3. In(<<>>) = {}
  BY DEF In
<1> QED
  BY <1>1, <1>2, <1>3

\* The order of the requests, message by message.
LEMMA Messages ==
    ASSUME QueueInv
    PROVE  /\ issued \in Nat /\ Channel(reqs) /\ Channel(evts)
           /\ \A m \in In(reqs) : m.kind \in Asked /\ m.id \in Nat /\ m.id <= issued /\ m.id # 0
           /\ \A m \in In(evts) : m.kind \in Asked \cup Progress /\ m.id \in Nat /\ m.id <= issued /\ m.id # 0
           /\ \A m \in In(evts), o \in In(reqs) : m.kind \in Asked => m.id < o.id
           /\ reqs # <<>> => /\ Head(reqs) \in In(reqs) /\ In(reqs) = In(Tail(reqs)) \cup {Head(reqs)}
                             /\ \A o \in In(Tail(reqs)) : Head(reqs).id < o.id
           /\ evts # <<>> => /\ Head(evts) \in In(evts) /\ In(evts) = In(Tail(evts)) \cup {Head(evts)}
                             /\ Head(evts).kind \in Asked =>
                                  \A o \in In(Tail(evts)) : o.kind \in Asked => Head(evts).id < o.id
<1>1. Numbered(reqs, evts, issued)
  BY DEF QueueInv
<1>2. Channel(reqs) /\ Channel(evts) /\ issued \in Nat
  BY <1>1 DEF Numbered
<1>3. /\ \A m \in In(reqs) : m.kind \in Asked /\ m.id \in 1 .. issued
      /\ \A m \in In(evts) : m.kind \in Asked \cup Progress /\ m.id \in 1 .. issued
      /\ \A m \in In(evts), o \in In(reqs) : m.kind \in Asked => m.id < o.id
  BY <1>1 DEF Numbered, In
<1>4. ASSUME reqs # <<>>
      PROVE  /\ Head(reqs) \in In(reqs) /\ In(reqs) = In(Tail(reqs)) \cup {Head(reqs)}
             /\ \A o \in In(Tail(reqs)) : Head(reqs).id < o.id
  <2>1. /\ 1 \in DOMAIN reqs /\ Head(reqs) = reqs[1] /\ DOMAIN Tail(reqs) \subseteq Nat \ {0}
        /\ \A i \in DOMAIN Tail(reqs) : i + 1 \in DOMAIN reqs /\ Tail(reqs)[i] = reqs[i + 1]
    BY <1>2, <1>4, ChannelIs
  <2>2. ASSUME NEW i \in DOMAIN Tail(reqs) PROVE Head(reqs).id < Tail(reqs)[i].id
    <3>1. i + 1 \in DOMAIN reqs /\ Tail(reqs)[i] = reqs[i + 1] /\ 1 < i + 1
      BY <2>1
    <3> QED
      BY <1>1, <2>1, <3>1 DEF Numbered
  <2>3. \A o \in In(Tail(reqs)) : Head(reqs).id < o.id
    BY <2>2 DEF In
  <2> QED
    BY <1>2, <1>4, <2>3, InChannel
<1>5. ASSUME evts # <<>>
      PROVE  /\ Head(evts) \in In(evts) /\ In(evts) = In(Tail(evts)) \cup {Head(evts)}
             /\ Head(evts).kind \in Asked => \A o \in In(Tail(evts)) : o.kind \in Asked => Head(evts).id < o.id
  <2>1. /\ 1 \in DOMAIN evts /\ Head(evts) = evts[1] /\ DOMAIN Tail(evts) \subseteq Nat \ {0}
        /\ \A i \in DOMAIN Tail(evts) : i + 1 \in DOMAIN evts /\ Tail(evts)[i] = evts[i + 1]
    BY <1>2, <1>5, ChannelIs
  <2>2. ASSUME NEW i \in DOMAIN Tail(evts), Head(evts).kind \in Asked, Tail(evts)[i].kind \in Asked
        PROVE  Head(evts).id < Tail(evts)[i].id
    <3>1. i + 1 \in DOMAIN evts /\ Tail(evts)[i] = evts[i + 1] /\ 1 < i + 1
      BY <2>1
    <3> QED
      BY <1>1, <2>1, <2>2, <3>1 DEF Numbered
  <2>3. Head(evts).kind \in Asked => \A o \in In(Tail(evts)) : o.kind \in Asked => Head(evts).id < o.id
    BY <2>2 DEF In
  <2> QED
    BY <1>2, <1>5, <2>3, InChannel
<1>6. \A n \in 1 .. issued : n \in Nat /\ n <= issued /\ n # 0
  BY <1>2
<1> QED
  BY <1>2, <1>3, <1>4, <1>5, <1>6

\* A request is one more message, unless the worker is dead.
LEMMA SendAdds ==
    ASSUME QueueInv, NEW k \in Asked, NEW a, Send(k, a)
    PROVE  /\ issued' = issued + 1
           /\ worker.pc = "dead" => reqs' = reqs
           /\ worker.pc # "dead" =>
                \E m : m.kind = k /\ m.id = issued + 1 /\ m.arg = a /\ In(reqs') = In(reqs) \cup {m}
<1> DEFINE q == [kind |-> k, id |-> issued + 1, arg |-> a]
<1>1. /\ issued' = issued + 1
      /\ worker.pc = "dead" => reqs' = reqs
      /\ worker.pc # "dead" => reqs' = Append(reqs, q)
  BY SendEffect
<1>2. q.kind = k /\ q.id = issued + 1 /\ q.arg = a
  OBVIOUS
<1> HIDE DEF q
<1>3. In(Append(reqs, q)) = In(reqs) \cup {q}
  BY Messages, InChannel
<1> QED
  BY <1>1, <1>2, <1>3

\* An answer takes the place of its request.
LEMMA AnswersMove ==
    ASSUME QueueInv, NEW e, Answers(e)
    PROVE  /\ issued' = issued /\ worker.pc \in {"recv", "load"} /\ worker' = [Idle EXCEPT !.pc = "notify"]
           /\ \E h : /\ h = Head(reqs) /\ In(reqs) = In(reqs') \cup {h} /\ e.kind = h.kind /\ e.id = h.id
                     /\ \A o \in In(reqs') : h.id < o.id
           /\ In(evts') = In(evts) \cup {e} /\ e.kind \in Asked \ {"scan"}
<1>1. /\ reqs # <<>> /\ reqs' = Tail(reqs) /\ evts' = Append(evts, e) /\ e.kind \in Asked \ {"scan"}
      /\ e.kind = Head(reqs).kind /\ e.id = Head(reqs).id
      /\ issued' = issued /\ worker.pc \in {"recv", "load"} /\ worker' = [Idle EXCEPT !.pc = "notify"]
  BY DEF Answers, Finish, Emit, Req, workerOnly
<1>2. In(reqs) = In(Tail(reqs)) \cup {Head(reqs)} /\ \A o \in In(Tail(reqs)) : Head(reqs).id < o.id
  BY <1>1, Messages
<1>3. In(Append(evts, e)) = In(evts) \cup {e}
  BY Messages, InChannel
<1> QED
  BY <1>1, <1>2, <1>3

\* What is told of a scan is one more message.
LEMMA TellsAdd ==
    ASSUME QueueInv, NEW e, Tells(e)
    PROVE  /\ issued' = issued /\ reqs' = reqs /\ In(evts') = In(evts) \cup {e}
           /\ e.kind \in Progress /\ e.id = Head(reqs).id /\ Head(reqs).kind = "scan" /\ Head(reqs) \in In(reqs)
           /\ worker.pc \in {"scan", "rows"} /\ worker'.pc = "rows"
<1>1. /\ evts' = Append(evts, e) /\ e.kind \in Progress /\ e.id = Head(reqs).id /\ reqs' = reqs /\ issued' = issued
      /\ worker.pc \in {"scan", "rows"} /\ worker'.pc = "rows"
  BY DEF Tells, Emit, Req, workerOnly, Progress
<1>2. reqs # <<>> /\ Head(reqs).kind = "scan"
  BY <1>1 DEF QueueInv
<1>3. In(Append(evts, e)) = In(evts) \cup {e}
  BY Messages, InChannel
<1> QED
  BY <1>1, <1>2, <1>3, Messages

\* The pump takes the oldest event; the news of a deletion adds a request.
LEMMA SeesTakes ==
    ASSUME QueueInv, Sees
    PROVE  /\ worker' = worker /\ worker.pc \notin {"start", "dead"} /\ evts # <<>>
           /\ \E h : /\ h = Head(evts) /\ In(evts) = In(evts') \cup {h}
                     /\ h.kind \in Asked => \A o \in In(evts') : o.kind \in Asked => h.id < o.id
           /\ \/ issued' = issued /\ reqs' = reqs
              \/ /\ issued' = issued + 1 /\ Head(evts).kind = "delete"
                 /\ \E m : m.kind = "runs" /\ m.id = issued + 1 /\ In(reqs') = In(reqs) \cup {m}
<1>1. evts # <<>> /\ evts' = Tail(evts) /\ worker' = worker
  BY DEF Sees, pumpOnly, uiOnly
<1>2. worker.pc \notin {"start", "dead"}
  BY <1>1 DEF QueueInv
<1>3. \E h : /\ h = Head(evts) /\ In(evts) = In(evts') \cup {h}
             /\ h.kind \in Asked => \A o \in In(evts') : o.kind \in Asked => h.id < o.id
  BY <1>1, Messages
<1>4. "runs" \in Asked
  BY DEF Asked, ScanAndDelta
<1>5. \/ issued' = issued /\ reqs' = reqs
      \/ /\ issued' = issued + 1 /\ Head(evts).kind = "delete"
         /\ \E m : m.kind = "runs" /\ m.id = issued + 1 /\ In(reqs') = In(reqs) \cup {m}
  <2>1. (issued' = issued /\ reqs' = reqs) \/ (Head(evts).kind = "delete" /\ Send("runs", None))
    BY DEF Sees, Event
  <2> QED
    BY <1>2, <1>4, <2>1, SendAdds
<1> QED
  BY <1>1, <1>2, <1>3, <1>5

\* A scan that ends leaves its findings and its summary.
LEMMA ScanDoneMoves ==
    ASSUME QueueInv, ScanDone
    PROVE  /\ issued' = issued /\ worker.pc = "rows" /\ worker' = [Idle EXCEPT !.pc = "notify"]
           /\ \E h : /\ h = Head(reqs) /\ In(reqs) = In(reqs') \cup {h} /\ h.kind = "scan"
                     /\ \A o \in In(reqs') : h.id < o.id
           /\ \E r, e : \E run \in {None, worker.id} :
                /\ evts' = Append(Append(evts, r), e) /\ In(evts') = In(evts) \cup {r, e}
                /\ r.kind = "risks" /\ e.kind = "scan" /\ r.id = Head(reqs).id /\ e.id = Head(reqs).id
                /\ r.value = <<worker.id>>
                /\ e.value = <<[run |-> run, cancelled |-> worker.cancelled, errors |-> worker.errors]>>
                /\ Persisted("root", worker.rows, worker.cancelled, run)
<1>1. /\ worker.pc = "rows" /\ reqs' = Tail(reqs) /\ issued' = issued /\ worker' = [Idle EXCEPT !.pc = "notify"]
  BY DEF ScanDone, Mine, Finish, workerOnly
<1>2. reqs # <<>> /\ Head(reqs).kind = "scan"
  BY <1>1 DEF QueueInv
<1>3. In(reqs) = In(Tail(reqs)) \cup {Head(reqs)} /\ \A o \in In(Tail(reqs)) : Head(reqs).id < o.id
  BY <1>2, Messages
<1>4. PICK r, e : \E run \in {None, worker.id} :
               /\ evts' = evts \o <<r, e>> /\ r.kind = "risks" /\ e.kind = "scan"
               /\ r.id = Head(reqs).id /\ e.id = Head(reqs).id
               /\ r.value = <<worker.id>>
               /\ e.value = <<[run |-> run, cancelled |-> worker.cancelled, errors |-> worker.errors]>>
               /\ Persisted("root", worker.rows, worker.cancelled, run)
  BY ScanDoneEvents
<1>5. evts \o <<r, e>> = Append(Append(evts, r), e)
  BY Messages, TwoEvents
<1>6. In(Append(Append(evts, r), e)) = In(evts) \cup {r, e}
  <2>1. Channel(evts) /\ Channel(Append(evts, r))
    BY Messages, ChannelAppend
  <2>2. In(Append(evts, r)) = In(evts) \cup {r} /\ In(Append(Append(evts, r), e)) = In(Append(evts, r)) \cup {e}
    BY <2>1, InChannel
  <2> QED
    BY <2>2
<1> QED
  BY <1>1, <1>2, <1>3, <1>4, <1>5, <1>6

\* A worker that has died stays dead.
LEMMA DeadStays ==
    ASSUME ShapeInv, QueueInv, GuiAssumption, Window, worker'.pc # "dead"
    PROVE  worker.pc # "dead"
<1> SUFFICES ASSUME worker.pc = "dead" PROVE FALSE
  OBVIOUS
<1>1. evts = <<>> /\ reqs = <<>>
  BY DEF QueueInv
<1>2. worker' = worker
  <2>1. CASE \E k, a : Asks(k, a)
    BY <2>1 DEF Asks
  <2>2. CASE \E e : Answers(e)
    BY <1>1, <2>2 DEF Answers
  <2>3. CASE \E e : Tells(e)
    BY <2>3 DEF Tells
  <2>4. CASE Sees
    BY <1>1, <2>4 DEF Sees
  <2>5. CASE Quiet
    BY <2>5 DEF Quiet, CancelScan, Pick, ClosePanel, ScanBegins, WalkOn, WalkEnds, Notify, Wake, CompareTargets,
                Serves, Mine, uiOnly
  <2>6. CASE ScanDone
    BY <2>6 DEF ScanDone, Mine
  <2>7. CASE StartWorker \/ WorkerDies
    BY <2>7 DEF StartWorker, WorkerDies
  <2> QED
    BY <2>1, <2>2, <2>3, <2>4, <2>5, <2>6, <2>7, StepKinds
<1> QED
  BY <1>2

----------------------------------------------------------------------------
(* Every tab shows the answer to its latest request.                       *)

\* What the invariant of a tab says of the requests R, the events E and what the tab holds.
Latest(t, R, E, running, asked, shown) ==
    /\ \A m \in R \cup E : m.kind = t => m.id <= asked
    /\ \/ ~ running /\ shown = asked /\ \A m \in R \cup E : m.kind # t
       \/ \E m \in R \cup E : m.kind = t /\ m.id = asked

\* It is the invariant.
LEMMA LatestIs ==
    ASSUME NEW t
    PROVE  TabInv(t) <=> /\ tab[t].asked \in 0 .. issued
                         /\ worker.pc # "dead" =>
                              Latest(t, In(reqs), In(evts), tab[t].running, tab[t].asked, tab[t].shown)
BY DEF TabInv, Latest, InQueue, InFlight

\* Messages of other kinds come, go and move as they like.
LEMMA LatestOther ==
    ASSUME NEW t, NEW R, NEW E, NEW R2, NEW E2, NEW running, NEW asked, NEW shown,
           Latest(t, R, E, running, asked, shown),
           \A m : m.kind = t => (m \in R2 \cup E2 <=> m \in R \cup E)
    PROVE  Latest(t, R2, E2, running, asked, shown)
BY DEF Latest

\* Every step keeps it.
LEMMA TabStep ==
    ASSUME ShapeInv, QueueInv, GuiAssumption, Window, NEW t \in Tabs, TabInv(t)
    PROVE  TabInv(t)'
<1>0. /\ tab[t].asked \in 0 .. issued /\ issued \in Nat /\ issued \in 0 .. issued
      /\ worker.pc # "dead" => Latest(t, In(reqs), In(evts), tab[t].running, tab[t].asked, tab[t].shown)
  BY LatestIs, Messages
<1>00. worker'.pc # "dead" => worker.pc # "dead"
  BY DeadStays
<1>000. t \in Asked /\ t \notin ScanAndDelta /\ t \notin Progress /\ t # "scan" /\ t # "runs"
  BY ApartKinds DEF Asked, ScanAndDelta
<1> SUFFICES /\ tab'[t].asked \in 0 .. issued'
             /\ worker'.pc # "dead" =>
                  Latest(t, In(reqs'), In(evts'), tab'[t].running, tab'[t].asked, tab'[t].shown)
  BY DEF TabInv, Latest, InQueue, InFlight, In
<1>1. ASSUME tab'[t] = tab[t], issued' = issued \/ issued' = issued + 1,
             \A m : m.kind = t => (m \in In(reqs') \cup In(evts') <=> m \in In(reqs) \cup In(evts))
      PROVE  /\ tab'[t].asked \in 0 .. issued'
             /\ worker'.pc # "dead" =>
                  Latest(t, In(reqs'), In(evts'), tab'[t].running, tab'[t].asked, tab'[t].shown)
  <2>1. tab'[t].asked \in 0 .. issued'
    BY <1>0, <1>1
  <2>2. worker'.pc # "dead" => Latest(t, In(reqs'), In(evts'), tab[t].running, tab[t].asked, tab[t].shown)
    BY <1>0, <1>00, <1>1, LatestOther
  <2> QED
    BY <1>1, <2>1, <2>2
<1> DEFINE Goal == /\ tab'[t].asked \in 0 .. issued'
                   /\ worker'.pc # "dead" =>
                        Latest(t, In(reqs'), In(evts'), tab'[t].running, tab'[t].asked, tab'[t].shown)
<1> HIDE DEF Goal
<1>2. ASSUME NEW k, NEW a, Asks(k, a) PROVE Goal
  <2>1. k \in Asked /\ Send(k, a) /\ evts' = evts /\ worker' = worker
    BY <1>2 DEF Asks
  <2>2. /\ issued' = issued + 1
        /\ worker.pc = "dead" => reqs' = reqs
        /\ worker.pc # "dead" => \E m : m.kind = k /\ m.id = issued + 1 /\ In(reqs') = In(reqs) \cup {m}
    BY <2>1, SendAdds
  <2>3. CASE k = t
    <3>1. /\ tab' = [tab EXCEPT ![t] = [running |-> Reached, asked |-> IF Reached THEN issued + 1 ELSE @.asked,
                                        shown |-> IF t \in Guarded THEN None ELSE @.shown]]
      BY <1>000, <1>2, <2>3 DEF Asks, Ask, Next1, ScanAndDelta
    <3>2. tab'[t].asked = IF worker.pc # "dead" THEN issued + 1 ELSE tab[t].asked
      BY <3>1 DEF ShapeInv, Reached
    <3>3. CASE worker.pc = "dead"
      BY <1>0, <2>1, <2>2, <3>2, <3>3 DEF Goal
    <3>4. CASE worker.pc # "dead"
      <4>1. PICK m : m.kind = t /\ m.id = issued + 1 /\ In(reqs') = In(reqs) \cup {m}
        BY <2>2, <2>3, <3>4
      <4>2. \A o \in In(reqs') \cup In(evts') : o.kind = t => o.id <= issued + 1
        BY <1>0, <2>1, <4>1, Messages
      <4>3. Latest(t, In(reqs'), In(evts'), tab'[t].running, tab'[t].asked, tab'[t].shown)
        BY <3>2, <3>4, <4>1, <4>2 DEF Latest
      <4> QED
        BY <1>0, <2>2, <3>2, <3>4, <4>3 DEF Goal
    <3> QED
      BY <3>3, <3>4
  <2>4. CASE k # t
    <3>1. tab'[t] = tab[t]
      BY <1>2, <2>4 DEF Asks, Ask, StartScan, Export, LoadRuns, Compare, DeleteRun, ShowErrors, ui, ShapeInv
    <3>2. \A m : m.kind = t => (m \in In(reqs') \cup In(evts') <=> m \in In(reqs) \cup In(evts))
      BY <2>1, <2>2, <2>4
    <3> QED
      BY <1>1, <2>2, <3>1, <3>2 DEF Goal
  <2> QED
    BY <2>3, <2>4
<1>3. ASSUME NEW e, Answers(e) PROVE Goal
  <2>1. tab' = tab
    BY <1>3 DEF Answers, workerOnly, ui
  <2>2. PICK h : /\ h = Head(reqs) /\ In(reqs) = In(reqs') \cup {h} /\ e.kind = h.kind /\ e.id = h.id
                 /\ \A o \in In(reqs') : h.id < o.id
    BY <1>3, AnswersMove
  <2>3. issued' = issued /\ In(evts') = In(evts) \cup {e} /\ worker'.pc = "notify" /\ worker.pc # "dead"
    BY <1>3, AnswersMove DEF Idle
  <2>4. h.kind = t => h.id <= tab[t].asked
    BY <1>0, <2>2, <2>3 DEF Latest
  <2>5. Latest(t, In(reqs'), In(evts'), tab[t].running, tab[t].asked, tab[t].shown)
    BY <1>0, <2>2, <2>3, <2>4 DEF Latest
  <2> QED
    BY <1>0, <2>1, <2>3, <2>5 DEF Goal
<1>4. ASSUME NEW e, Tells(e) PROVE Goal
  <2>1. tab' = tab
    BY <1>4 DEF Tells, workerOnly, ui
  <2>2. issued' = issued /\ reqs' = reqs /\ In(evts') = In(evts) \cup {e} /\ e.kind # t
    BY <1>000, <1>4, TellsAdd
  <2> QED
    BY <1>1, <2>1, <2>2 DEF Goal
<1>5. ASSUME Sees PROVE Goal
  <2>1. worker' = worker /\ worker.pc # "dead"
    BY <1>5, SeesTakes
  <2>2. PICK h : /\ h = Head(evts) /\ In(evts) = In(evts') \cup {h}
                 /\ h.kind \in Asked => \A o \in In(evts') : o.kind \in Asked => h.id < o.id
    BY <1>5, SeesTakes
  <2>3. \/ issued' = issued /\ reqs' = reqs
        \/ /\ issued' = issued + 1 /\ h.kind = "delete"
           /\ \E m : m.kind = "runs" /\ m.id = issued + 1 /\ In(reqs') = In(reqs) \cup {m}
    BY <1>5, <2>2, SeesTakes
  <2>4. \A m : m.kind = t => (m \in In(reqs') <=> m \in In(reqs))
    BY <1>000, <2>3
  <2>5. CASE h.kind # t
    <3>1. tab'[t] = tab[t]
      BY <1>000, <1>5, <2>2, <2>5 DEF Sees, ShowAnswer, ShowProgress, ShowScanDone, ShowExport, ShowRuns, ShowDelta,
                   ShowRunErrors, ShowDeleted, Event, ShapeInv
    <3>2. \A m : m.kind = t => (m \in In(reqs') \cup In(evts') <=> m \in In(reqs) \cup In(evts))
      BY <2>2, <2>4, <2>5
    <3> QED
      BY <1>1, <2>3, <3>1, <3>2 DEF Goal
  <2>6. CASE h.kind = t
    <3>1. tab' = [tab EXCEPT ![t] = [@ EXCEPT !.running = FALSE, !.shown = h.id]] /\ issued' = issued /\ reqs' = reqs
      BY <1>000, <1>5, <2>2, <2>6 DEF Sees, ShowAnswer, Event, Progress, ScanAndDelta
    <3>2. ~ tab'[t].running /\ tab'[t].shown = h.id /\ tab'[t].asked = tab[t].asked
      BY <3>1 DEF ShapeInv
    <3>3. h \in In(evts) /\ h.id <= tab[t].asked /\ h.id \in Nat /\ tab[t].asked \in Nat
      BY <1>0, <2>1, <2>2, <2>6, Messages DEF Latest
    <3>4. \A o \in In(reqs') \cup In(evts') : o.kind = t => h.id < o.id /\ o.id \in Nat /\ o.id <= tab[t].asked
      BY <1>0, <1>000, <2>1, <2>2, <2>6, <3>1, <3>3, Messages DEF Latest
    <3>5. Latest(t, In(reqs'), In(evts'), tab'[t].running, tab'[t].asked, tab'[t].shown)
      <4>1. CASE h.id = tab[t].asked
        <5>1. \A o \in In(reqs') \cup In(evts') : o.kind # t
          BY <3>3, <3>4, <4>1
        <5> QED
          BY <3>2, <4>1, <5>1 DEF Latest
      <4>2. CASE h.id # tab[t].asked
        <5>1. \E m \in In(reqs) \cup In(evts) : m.kind = t /\ m.id = tab[t].asked
          BY <1>0, <2>1, <2>6, <3>3 DEF Latest
        <5>2. \E m \in In(reqs') \cup In(evts') : m.kind = t /\ m.id = tab[t].asked
          BY <2>2, <3>1, <4>2, <5>1
        <5> QED
          BY <3>2, <3>4, <5>2 DEF Latest
      <4> QED
        BY <4>1, <4>2
    <3> QED
      BY <1>0, <3>1, <3>2, <3>5 DEF Goal
  <2> QED
    BY <2>5, <2>6
<1>6. ASSUME Quiet \/ StartWorker PROVE Goal
  <2>1. UNCHANGED <<issued, reqs, evts, tab>>
    BY <1>6 DEF Quiet, StartWorker, workerOnly, ui
  <2> QED
    BY <1>1, <2>1 DEF Goal
<1>7. ASSUME ScanDone PROVE Goal
  <2>1. tab' = tab
    BY <1>7 DEF ScanDone, workerOnly, ui
  <2>2. issued' = issued /\ \E h : In(reqs) = In(reqs') \cup {h} /\ h.kind = "scan"
    BY <1>7, ScanDoneMoves
  <2>3. \E r, e : In(evts') = In(evts) \cup {r, e} /\ r.kind = "risks" /\ e.kind = "scan"
    BY <1>7, ScanDoneMoves
  <2>4. t # "risks"
    BY <1>000 DEF Progress
  <2> QED
    BY <1>000, <1>1, <2>1, <2>2, <2>3, <2>4 DEF Goal
<1>8. ASSUME WorkerDies PROVE Goal
  <2>1. tab' = tab /\ issued' = issued /\ worker'.pc = "dead"
    BY <1>8 DEF WorkerDies, workerOnly, ui, ShapeInv
  <2> QED
    BY <1>0, <2>1 DEF Goal
<1> QED
  BY <1>2, <1>3, <1>4, <1>5, <1>6, <1>7, <1>8, StepKinds DEF Goal

\* The invariant of the tabs holds in every reachable state.
LEMMA TabsAlways == Spec => []TabsInv
<1>1. Init => TabsInv
  <2> SUFFICES ASSUME Init, NEW t \in Tabs PROVE TabInv(t)
    BY DEF TabsInv
  <2>1. In(evts) = {} /\ In(reqs) = {Preload} /\ issued = 1
    BY DEF Init, In
  <2>2. Preload.kind = "identities" /\ Preload.id = 1
    BY DEF Preload
  <2>3. /\ tab[t].asked = (IF t = "identities" THEN 1 ELSE None) /\ ~ tab[t].running /\ tab[t].shown = None
    BY DEF Init
  <2>4. Latest(t, In(reqs), In(evts), tab[t].running, tab[t].asked, tab[t].shown)
    BY <2>1, <2>2, <2>3 DEF Latest
  <2>5. tab[t].asked \in 0 .. issued
    BY <2>1, <2>3 DEF None
  <2> QED
    BY <2>4, <2>5, LatestIs
<1>2. (ShapeInv /\ QueueInv /\ BoundInv) /\ TabsInv /\ [Next]_vars => TabsInv'
  <2> SUFFICES ASSUME ShapeInv, QueueInv, TabsInv, [Next]_vars PROVE TabsInv'
    OBVIOUS
  <2>1. CASE Window
    BY <2>1, TabStep, GuiAssumption DEF TabsInv
  <2>2. CASE UNCHANGED vars \/ OtherWindow
    <3>1. UNCHANGED <<issued, reqs, evts, worker, tab>>
      BY <2>2, OtherKeeps DEF vars, ui
    <3> QED
      BY <3>1 DEF TabsInv, TabInv, InQueue, InFlight
  <2> QED
    BY <2>1, <2>2 DEF Next
<1> QED
  BY <1>1, <1>2, CoreAlways, PTL DEF Spec

\* Once every answer has been seen, every tab shows the answer to its latest request, however
\* the clicks, the worker and the event pump took turns: no answer to an earlier request
\* overwrites it and none is missing (apply_result, handle_trustees_done, handle_done).
THEOREM TabsShowLatestAlways == Spec => []TabsShowLatest
<1>1. TabsInv => TabsShowLatest
  <2> SUFFICES ASSUME TabsInv, Settled, NEW t \in Tabs
               PROVE  ~ tab[t].running /\ tab[t].shown = tab[t].asked
    BY DEF TabsShowLatest
  <2>1. In(reqs) \cup In(evts) = {} /\ worker.pc # "dead"
    BY DEF Settled, In
  <2>2. TabInv(t)
    BY DEF TabsInv
  <2> QED
    BY <2>1, <2>2 DEF TabInv
<1> QED
  BY <1>1, TabsAlways, PTL

----------------------------------------------------------------------------
(* An open error panel shows the errors of the run it names.               *)

\* The invariant of the panel, said of the requests R and the events E.
LastIn(S, m) == m \in S /\ m.kind = "errors" /\ \A o \in S : o.kind = "errors" => o.id <= m.id
NoErrors(S)     == \A m \in S : m.kind # "errors"
Panel(R, E, title, errors) ==
    title # None =>
        /\ \A m \in R : LastIn(R, m) => m.arg = title
        /\ NoErrors(R) => \A m \in E : LastIn(E, m) /\ m.ok => m.value = <<title>>
        /\ NoErrors(R) /\ NoErrors(E) => errors = title

\* It is the invariant.
LEMMA PanelIs ==
    PanelInv <=> /\ worker.pc \in {"start", "dead"} => delta.runs = {} /\ delta.title = None
                 /\ Panel(In(reqs), In(evts), delta.title, delta.errors)
BY DEF PanelInv, Panel, LastIn, LastOf, NoErrors, InQueue, InFlight

\* Messages of other kinds do not matter to it, and a closed panel says nothing.
LEMMA PanelOther ==
    ASSUME NEW R, NEW E, NEW title, NEW errors, Panel(R, E, title, errors), NEW R2, NEW E2, NEW title2,
           title2 \in {title, None},
           \A m : m.kind = "errors" => (m \in R2 <=> m \in R) /\ (m \in E2 <=> m \in E)
    PROVE  Panel(R2, E2, title2, errors)
<1>1. CASE title2 = None
  BY <1>1 DEF Panel
<1>2. CASE title2 = title /\ title # None
  <2>1. (NoErrors(R2) <=> NoErrors(R)) /\ (NoErrors(E2) <=> NoErrors(E))
    BY DEF NoErrors
  <2>2. \A m : (LastIn(R2, m) <=> LastIn(R, m)) /\ (LastIn(E2, m) <=> LastIn(E, m))
    BY DEF LastIn
  <2>3. \A m \in R2 : LastIn(R2, m) => m.arg = title
    BY <1>2, <2>2 DEF Panel, LastIn
  <2>4. NoErrors(R2) => \A m \in E2 : LastIn(E2, m) /\ m.ok => m.value = <<title>>
    BY <1>2, <2>1, <2>2 DEF Panel, LastIn
  <2>5. NoErrors(R2) /\ NoErrors(E2) => errors = title
    BY <1>2, <2>1 DEF Panel
  <2> QED
    BY <1>2, <2>3, <2>4, <2>5 DEF Panel
<1> QED
  BY <1>1, <1>2

\* Every step keeps it.
LEMMA PanelStep ==
    ASSUME ShapeInv, QueueInv, GuiAssumption, Window, PanelInv
    PROVE  PanelInv'
<1> DEFINE Goal == /\ worker'.pc \in {"start", "dead"} => delta'.runs = {} /\ delta'.title = None
                   /\ Panel(In(reqs'), In(evts'), delta'.title, delta'.errors)
<1>0. /\ worker.pc \in {"start", "dead"} => delta.runs = {} /\ delta.title = None
      /\ Panel(In(reqs), In(evts), delta.title, delta.errors)
  BY PanelIs
<1> SUFFICES Goal
  BY DEF PanelInv, Panel, LastIn, LastOf, NoErrors, InQueue, InFlight, In
<1> HIDE DEF Goal
<1>00. "errors" \in Asked /\ "errors" \notin Tabs /\ "errors" \notin Progress
  BY GuiAssumption DEF GuiAssumption, Asked, ScanAndDelta, Progress
<1>1. ASSUME worker'.pc \in {"start", "dead"} => worker.pc \in {"start", "dead"} /\ delta'.runs = delta.runs,
             delta'.title \in {delta.title, None}, delta'.errors = delta.errors,
             \A m : m.kind = "errors" =>
                 (m \in In(reqs') <=> m \in In(reqs)) /\ (m \in In(evts') <=> m \in In(evts))
      PROVE  Goal
  <2>1. Panel(In(reqs'), In(evts'), delta'.title, delta.errors)
    BY <1>0, <1>1, PanelOther
  <2> QED
    BY <1>0, <1>1, <2>1 DEF Goal
<1>2. ASSUME NEW k, NEW a, Asks(k, a) PROVE Goal
  <2>1. k \in Asked /\ Send(k, a) /\ evts' = evts /\ worker' = worker
    BY <1>2 DEF Asks
  <2>2. /\ issued' = issued + 1
        /\ worker.pc = "dead" => reqs' = reqs
        /\ worker.pc # "dead" =>
             \E m : m.kind = k /\ m.id = issued + 1 /\ m.arg = a /\ In(reqs') = In(reqs) \cup {m}
    BY <2>1, SendAdds
  <2>3. CASE k = "errors"
    <3>1. a \in delta.runs /\ delta' = [delta EXCEPT !.title = IF Reached THEN a ELSE None, !.errors = None]
      BY <1>00, <1>2, <2>3 DEF Asks, ShowErrors
    <3>2. worker.pc \notin {"start", "dead"}
      BY <1>0, <3>1
    <3>3. delta'.title = a
      BY <3>1, <3>2 DEF ShapeInv, Reached
    <3>4. PICK m : m.kind = "errors" /\ m.id = issued + 1 /\ m.arg = a /\ In(reqs') = In(reqs) \cup {m}
      BY <2>2, <2>3, <3>2
    <3>5. ~ NoErrors(In(reqs'))
      BY <3>4 DEF NoErrors
    <3>6. ASSUME NEW o \in In(reqs'), LastIn(In(reqs'), o) PROVE o.arg = a
      <4>1. m.id <= o.id
        BY <3>4, <3>6 DEF LastIn
      <4>2. o \in In(reqs) => o.id \in Nat /\ o.id <= issued /\ issued \in Nat
        BY Messages
      <4>3. o = m
        BY <3>4, <4>1, <4>2
      <4> QED
        BY <3>4, <4>3
    <3>7. Panel(In(reqs'), In(evts'), delta'.title, delta'.errors)
      BY <3>3, <3>5, <3>6 DEF Panel
    <3> QED
      BY <2>1, <3>2, <3>7 DEF Goal
  <2>4. CASE k # "errors"
    <3>1. delta'.runs = delta.runs /\ delta'.title = delta.title /\ delta'.errors = delta.errors
      BY <1>2, <2>4 DEF Asks, Ask, StartScan, Export, LoadRuns, Compare, DeleteRun, ui, ShapeInv
    <3>2. \A m : m.kind = "errors" =>
             (m \in In(reqs') <=> m \in In(reqs)) /\ (m \in In(evts') <=> m \in In(evts))
      BY <2>1, <2>2, <2>4
    <3> QED
      BY <1>1, <2>1, <3>1, <3>2
  <2> QED
    BY <2>3, <2>4
<1>3. ASSUME NEW e, Answers(e) PROVE Goal
  <2>1. delta' = delta
    BY <1>3 DEF Answers, workerOnly, ui
  <2>2. PICK h : /\ h = Head(reqs) /\ In(reqs) = In(reqs') \cup {h} /\ e.kind = h.kind /\ e.id = h.id
                 /\ \A o \in In(reqs') : h.id < o.id
    BY <1>3, AnswersMove
  <2>3. In(evts') = In(evts) \cup {e} /\ worker'.pc = "notify"
    BY <1>3, AnswersMove DEF Idle
  <2>4. CASE e.kind # "errors"
    BY <1>1, <2>1, <2>2, <2>3, <2>4
  <2>5. CASE e.kind = "errors" /\ delta.title # None
    <3>1. \A o \in In(evts) : o.kind = "errors" => o.id < h.id /\ o.id \in Nat
      BY <1>00, <2>2, Messages
    <3>2. h \in In(reqs) /\ h.id \in Nat /\ \A o \in In(reqs') : o.id \in Nat
      BY <2>2, Messages
    <3>3. e.ok => e.value = <<h.arg>>
      <4>1. ListRunErrors
        BY <1>00, <1>3, <2>5 DEF Answers
      <4>2. \/ evts' = Append(evts, Ok("errors", Req.arg))
            \/ evts' = Append(evts, Err("errors"))
        BY <4>1 DEF ListRunErrors, Emit
      <4>3. evts' = Append(evts, e) /\ Channel(evts)
        BY <1>3, Messages DEF Answers, Emit
      <4>4. e = Ok("errors", Req.arg) \/ e = Err("errors")
        <5>1. \A x, y : Append(evts, x) = Append(evts, y) => x = y
          BY <4>3, ChannelAppend
        <5> QED
          BY <4>2, <4>3, <5>1
      <4>5. Ok("errors", Req.arg).value = <<h.arg>> /\ ~ Err("errors").ok
        BY <2>2 DEF Ok, Err, Req
      <4> QED
        BY <4>4, <4>5
    <3>4. ASSUME NEW m \in In(reqs'), LastIn(In(reqs'), m) PROVE m.arg = delta.title
      <4>1. LastIn(In(reqs), m)
        BY <2>2, <3>2, <3>4 DEF LastIn
      <4> QED
        BY <1>0, <2>5, <4>1 DEF Panel, LastIn
    <3>5. ASSUME NoErrors(In(reqs')), NEW m \in In(evts'), LastIn(In(evts'), m), m.ok PROVE m.value = <<delta.title>>
      <4>1. m = e
        <5>1. e.id <= m.id
          BY <2>3, <2>5, <3>5 DEF LastIn
        <5>2. m \in In(evts) => m.id < h.id /\ m.id \in Nat
          BY <3>1, <3>5 DEF LastIn
        <5> QED
          BY <2>2, <2>3, <3>2, <5>1, <5>2
      <4>2. LastIn(In(reqs), h)
        BY <2>2, <2>5, <3>2, <3>5 DEF LastIn, NoErrors
      <4>3. h.arg = delta.title
        BY <1>0, <2>5, <4>2 DEF Panel, LastIn
      <4> QED
        BY <3>3, <3>5, <4>1, <4>3
    <3>6. ~ NoErrors(In(evts'))
      BY <2>3, <2>5 DEF NoErrors
    <3>7. Panel(In(reqs'), In(evts'), delta.title, delta.errors)
      BY <3>4, <3>5, <3>6 DEF Panel
    <3> QED
      BY <2>1, <2>3, <3>7 DEF Goal
  <2>6. CASE delta.title = None
    BY <2>1, <2>3, <2>6 DEF Goal, Panel
  <2> QED
    BY <2>4, <2>5, <2>6
<1>4. ASSUME NEW e, Tells(e) PROVE Goal
  <2>1. delta' = delta
    BY <1>4 DEF Tells, workerOnly, ui
  <2>2. reqs' = reqs /\ In(evts') = In(evts) \cup {e} /\ e.kind # "errors" /\ worker'.pc = "rows"
    BY <1>00, <1>4, TellsAdd
  <2> QED
    BY <1>1, <2>1, <2>2
<1>5. ASSUME Sees PROVE Goal
  <2>1. worker' = worker /\ worker.pc \notin {"start", "dead"}
    BY <1>5, SeesTakes
  <2>2. PICK h : /\ h = Head(evts) /\ In(evts) = In(evts') \cup {h}
                 /\ h.kind \in Asked => \A o \in In(evts') : o.kind \in Asked => h.id < o.id
    BY <1>5, SeesTakes
  <2>3. \A m : m.kind = "errors" => (m \in In(reqs') <=> m \in In(reqs))
    BY <1>5, SeesTakes
  <2>4. CASE h.kind # "errors"
    <3>1. delta'.title \in {delta.title, None} /\ delta'.errors = delta.errors
      <4>1. CASE ShowAnswer \/ ShowProgress \/ ShowScanDone \/ ShowExport
        BY <4>1 DEF ShowAnswer, ShowProgress, ShowScanDone, ShowExport
      <4>2. CASE ShowRuns
        BY <4>2 DEF ShowRuns, ShapeInv
      <4>3. CASE ShowDelta
        BY <4>3 DEF ShowDelta, ShapeInv
      <4>4. CASE ShowDeleted
        BY <4>4 DEF ShowDeleted, ShapeInv
      <4> QED
        BY <1>5, <2>2, <2>4, <4>1, <4>2, <4>3, <4>4 DEF Sees, Event
    <3> QED
      BY <1>1, <2>1, <2>2, <2>3, <2>4, <3>1
  <2>5. CASE h.kind = "errors"
    <3>1. delta' = IF h.ok THEN [delta EXCEPT !.errors = h.value[1]] ELSE [delta EXCEPT !.title = None]
      BY <1>00, <1>5, <2>2, <2>5 DEF Sees, ShowRunErrors, Event, Value, Progress
    <3>2. CASE ~ h.ok \/ delta.title = None
      <4>1. delta'.title = None
        BY <3>1, <3>2 DEF ShapeInv
      <4> QED
        BY <2>1, <4>1 DEF Goal, Panel
    <3>3. CASE h.ok /\ delta.title # None
      <4>1. delta'.title = delta.title /\ delta'.errors = h.value[1]
        BY <3>1, <3>3 DEF ShapeInv
      <4>2. (NoErrors(In(reqs')) <=> NoErrors(In(reqs))) /\ \A m : LastIn(In(reqs'), m) <=> LastIn(In(reqs), m)
        BY <2>3 DEF NoErrors, LastIn
      <4>3. \A m : LastIn(In(evts'), m) => LastIn(In(evts), m)
        <5>1. h \in In(evts) /\ h.id \in Nat
          BY <2>2, Messages
        <5>2. \A o \in In(evts') : o.kind = "errors" => h.id < o.id /\ o.id \in Nat
          BY <1>00, <2>2, <2>5, Messages
        <5> QED
          BY <2>2, <5>1, <5>2 DEF LastIn
      <4>4. NoErrors(In(evts')) => LastIn(In(evts), h)
        BY <2>2, <2>5, Messages DEF NoErrors, LastIn
      <4>5. \A m \in In(reqs') : LastIn(In(reqs'), m) => m.arg = delta.title
        BY <1>0, <3>3, <4>2 DEF Panel, LastIn
      <4>6. NoErrors(In(reqs')) => \A m \in In(evts') : LastIn(In(evts'), m) /\ m.ok => m.value = <<delta.title>>
        BY <1>0, <3>3, <4>2, <4>3 DEF Panel, LastIn
      <4>7. NoErrors(In(reqs')) /\ NoErrors(In(evts')) => h.value[1] = delta.title
        <5>1. NoErrors(In(reqs')) /\ NoErrors(In(evts')) => h.value = <<delta.title>>
          BY <1>0, <3>3, <4>2, <4>4 DEF Panel, LastIn
        <5> QED
          BY <5>1
      <4>8. Panel(In(reqs'), In(evts'), delta'.title, delta'.errors)
        BY <4>1, <4>5, <4>6, <4>7 DEF Panel
      <4> QED
        BY <2>1, <4>8 DEF Goal
    <3> QED
      BY <3>2, <3>3
  <2> QED
    BY <2>4, <2>5
<1>6. ASSUME Quiet PROVE Goal
  <2>1. UNCHANGED <<reqs, evts>>
    BY <1>6 DEF Quiet
  <2>2. /\ delta'.title \in {delta.title, None} /\ delta'.errors = delta.errors /\ delta'.runs = delta.runs
        /\ worker'.pc \in {"start", "dead"} => worker.pc \in {"start", "dead"}
    <3>1. CASE CancelScan \/ Wake
      BY <3>1 DEF CancelScan, Wake, uiOnly, ui
    <3>2. ASSUME NEW side \in {"old", "new"}, NEW r \in delta.runs, Pick(side, r)
          PROVE  delta'.title = delta.title /\ delta'.errors = delta.errors /\ delta'.runs = delta.runs
                 /\ worker' = worker
      BY <3>2 DEF Pick, ShapeInv
    <3>3. CASE ClosePanel
      BY <3>3 DEF ClosePanel, ShapeInv
    <3>4. CASE ScanBegins \/ Notify
      <4>1. delta' = delta
        BY <3>4 DEF ScanBegins, Notify, workerOnly, ui
      <4>2. worker'.pc \in {"scan", "recv"}
        <5>1. ScanBegins => worker'.pc = "scan"
          BY DEF ScanBegins, Idle
        <5>2. Notify => worker'.pc = "recv"
          BY DEF Notify, Idle
        <5> QED
          BY <3>4, <5>1, <5>2
      <4> QED
        BY <4>1, <4>2
    <3>6. CASE WalkOn \/ WalkEnds
      BY <3>6 DEF WalkOn, WalkEnds, Mine, workerOnly, ui, ShapeInv
    <3>5. CASE CompareTargets /\ worker' = [worker EXCEPT !.pc = "load"]
      BY <3>5 DEF CompareTargets, workerOnly, ui, ShapeInv
    <3> QED
      BY <1>6, <3>1, <3>2, <3>3, <3>4, <3>5, <3>6 DEF Quiet
  <2> QED
    BY <1>1, <2>1, <2>2
<1>7. ASSUME ScanDone PROVE Goal
  <2>1. delta' = delta /\ worker'.pc = "notify"
    BY <1>7, ScanDoneMoves DEF ScanDone, workerOnly, ui, Idle
  <2>2. \E h : In(reqs) = In(reqs') \cup {h} /\ h.kind = "scan"
    BY <1>7, ScanDoneMoves
  <2>3. \E r, e : In(evts') = In(evts) \cup {r, e} /\ r.kind = "risks" /\ e.kind = "scan"
    BY <1>7, ScanDoneMoves
  <2> QED
    BY <1>1, <2>1, <2>2, <2>3
<1>8. ASSUME StartWorker PROVE Goal
  <2>1. delta' = delta /\ reqs' = reqs /\ evts' = evts /\ worker'.pc = "recv"
    BY <1>8 DEF StartWorker, workerOnly, ui, Idle
  <2> QED
    BY <1>1, <2>1
<1>9. ASSUME WorkerDies PROVE Goal
  <2>1. delta' = delta /\ worker.pc = "start"
    BY <1>9 DEF WorkerDies, workerOnly, ui
  <2> QED
    BY <1>0, <2>1 DEF Goal, Panel
<1> QED
  BY <1>2, <1>3, <1>4, <1>5, <1>6, <1>7, <1>8, <1>9, StepKinds

\* An error panel that is open once every answer has been seen shows the errors of the run it
\* names, although the event does not say whose errors it carries: the panel may have been
\* opened for another run, closed or left behind by a deletion while its request waited
\* (handle_run_errors_loaded, handle_run_deleted).
THEOREM PanelIsTrueAlways == Spec => []PanelIsTrue
<1>1. Init => PanelInv
  <2> SUFFICES ASSUME Init PROVE PanelInv
    OBVIOUS
  <2>1. delta.runs = {} /\ delta.title = None
    BY DEF Init
  <2> QED
    BY <2>1 DEF PanelInv
<1>2. (ShapeInv /\ QueueInv /\ BoundInv) /\ PanelInv /\ [Next]_vars => PanelInv'
  <2> SUFFICES ASSUME ShapeInv, QueueInv, PanelInv, [Next]_vars PROVE PanelInv'
    OBVIOUS
  <2>1. CASE Window
    BY <2>1, PanelStep, GuiAssumption
  <2>2. CASE UNCHANGED vars \/ OtherWindow
    <3>1. UNCHANGED <<reqs, evts, worker, delta>>
      BY <2>2, OtherKeeps DEF vars, ui
    <3> QED
      BY <3>1 DEF PanelInv, InQueue, InFlight, LastOf
  <2> QED
    BY <2>1, <2>2 DEF Next
<1>3. PanelInv => PanelIsTrue
  <2> SUFFICES ASSUME PanelInv, Settled, delta.title # None PROVE delta.errors = delta.title
    BY DEF PanelIsTrue
  <2>1. In(reqs) = {} /\ In(evts) = {}
    BY DEF Settled, In
  <2> QED
    BY <2>1 DEF PanelInv, InQueue, InFlight
<1> QED
  BY <1>1, <1>2, <1>3, CoreAlways, PTL DEF Spec

----------------------------------------------------------------------------
(* What a step does to the Scan tab.                                       *)

\* Start clears everything about the last scan.
LEMMA StartClears ==
    ASSUME ShapeInv, GuiAssumption, NEW a, Asks("scan", a)
    PROVE  /\ ~ scan.running /\ ~ scan'.done /\ scan'.id = issued + 1 /\ scan'.rows = <<>> /\ scan'.risks = None
           /\ scan'.running = (worker.pc # "dead") /\ scan'.cancelClicked = "no" /\ scan'.export = NoExport
           /\ ~ cancel'
<1>1. StartScan
  BY DEF Asks, GuiAssumption, ScanAndDelta
<1>2. /\ ~ scan.running /\ cancel' = FALSE
      /\ scan' = [scan EXCEPT !.running = Reached, !.done = FALSE, !.id = Next1, !.rows = <<>>,
                            !.errors = 0, !.run = None, !.risks = None,
                            !.cancelled = FALSE, !.isError = ~ Reached,
                            !.cancelClicked = "no", !.export = NoExport]
  BY <1>1 DEF StartScan
<1>3. DOMAIN scan = {"running", "done", "id", "rows", "errors", "risks", "run", "cancelled",
                      "isError", "cancelClicked", "export"}
  BY DEF ShapeInv
<1>4. scan'.done = FALSE /\ scan'.id = Next1 /\ scan'.rows = <<>> /\ scan'.risks = None /\ scan'.running = Reached
  BY <1>2, <1>3
<1>5. scan'.cancelClicked = "no" /\ scan'.export = NoExport
  BY <1>2, <1>3
<1> QED
  BY <1>2, <1>4, <1>5 DEF Next1, Reached

\* The fields that say which scan the tab shows and how it stands, without the export.
SameScan ==
    /\ scan'.running = scan.running /\ scan'.done = scan.done /\ scan'.id = scan.id /\ scan'.rows = scan.rows
    /\ scan'.errors = scan.errors /\ scan'.risks = scan.risks /\ scan'.run = scan.run
    /\ scan'.cancelled = scan.cancelled /\ scan'.isError = scan.isError
    /\ scan'.cancelClicked = scan.cancelClicked

\* No other request touches it; asking for an export takes the old one back.
LEMMA AskKeepsScan ==
    ASSUME ShapeInv, GuiAssumption, NEW k, NEW a, Asks(k, a), k # "scan"
    PROVE  /\ SameScan /\ cancel' = cancel
           /\ IF k = "export" THEN scan'.export = NoExport /\ Send(k, scan.id) ELSE scan'.export = scan.export
<1>1. CASE k = "export"
  <2>1. Export
    BY <1>1, ApartKinds DEF Asks, ScanAndDelta
  <2>2. scan' = [scan EXCEPT !.export = NoExport] /\ Send("export", scan.id) /\ cancel' = cancel
    BY <2>1 DEF Export
  <2>3. SameScan /\ scan'.export = NoExport
    BY <2>2 DEF ShapeInv, SameScan
  <2> QED
    BY <1>1, <2>1, <2>2, <2>3
<1>2. CASE k # "export"
  <2>1. scan' = scan /\ cancel' = cancel
    BY <1>2 DEF Asks, Ask, LoadRuns, Compare, DeleteRun, ShowErrors, ui
  <2> QED
    BY <1>2, <2>1 DEF SameScan
<1> QED
  BY <1>1, <1>2

\* What the tab makes of the event the pump takes.
LEMMA SeenScan ==
    ASSUME ShapeInv, GuiAssumption, Sees
    PROVE  LET h == Head(evts) IN
           /\ scan'.id = scan.id /\ scan'.cancelClicked = scan.cancelClicked /\ cancel' = cancel /\ last' = last
           /\ store' = store
           /\ scan'.rows = IF h.kind = "scan item" THEN Append(scan.rows, h.value[1]) ELSE scan.rows
           /\ scan'.risks = IF h.kind = "risks" THEN h.value[1] ELSE scan.risks
           /\ scan'.export = IF h.kind = "export" THEN IF h.ok THEN h.value[1] ELSE NoExport ELSE scan.export
           /\ h.kind # "scan" => /\ scan'.running = scan.running /\ scan'.done = scan.done /\ scan'.run = scan.run
                                 /\ scan'.cancelled = scan.cancelled /\ scan'.isError = scan.isError
                                 /\ h.kind # "scan error" => scan'.errors = scan.errors
           /\ h.kind = "scan" => /\ ~ scan'.running /\ scan'.done /\ scan'.run = h.value[1].run
                                 /\ scan'.cancelled = h.value[1].cancelled /\ scan'.errors = h.value[1].errors
                                 /\ h.value[1].run = None => scan'.isError
<1> DEFINE h == Head(evts)
<1>0. cancel' = cancel /\ last' = last /\ store' = store
  BY DEF Sees, pumpOnly, uiOnly, sqlite
<1>1. DOMAIN scan = {"running", "done", "id", "rows", "errors", "risks", "run", "cancelled",
                      "isError", "cancelClicked", "export"}
  BY DEF ShapeInv
<1>2. CASE h.kind \in Progress
  <2>1. scan' = [scan EXCEPT
          !.rows   = IF h.kind = "scan item" THEN Append(scan.rows, h.value[1]) ELSE scan.rows,
          !.errors = IF h.kind = "scan error" THEN scan.errors + 1 ELSE scan.errors,
          !.risks  = IF h.kind = "risks" THEN h.value[1] ELSE scan.risks]
    BY <1>2, ApartKinds DEF Sees, ShowProgress, Event, Value, Progress
  <2>2. /\ scan'.id = scan.id /\ scan'.cancelClicked = scan.cancelClicked /\ scan'.export = scan.export
        /\ scan'.running = scan.running /\ scan'.done = scan.done /\ scan'.run = scan.run
        /\ scan'.cancelled = scan.cancelled /\ scan'.isError = scan.isError
    BY <1>1, <2>1
  <2>3. /\ scan'.rows = IF h.kind = "scan item" THEN Append(scan.rows, h.value[1]) ELSE scan.rows
        /\ scan'.risks = IF h.kind = "risks" THEN h.value[1] ELSE scan.risks
        /\ scan'.errors = IF h.kind = "scan error" THEN scan.errors + 1 ELSE scan.errors
    BY <1>1, <2>1
  <2>4. h.kind # "scan" /\ h.kind # "export"
    BY <1>2 DEF Progress
  <2> QED
    BY <1>0, <2>2, <2>3, <2>4
<1>3. CASE h.kind = "scan"
  <2>1. scan' = [scan EXCEPT !.running = FALSE, !.done = TRUE, !.errors = h.value[1].errors,
                            !.run = h.value[1].run, !.cancelled = h.value[1].cancelled,
                            !.isError = h.value[1].cancelled \/ h.value[1].run = None]
    BY <1>3, ApartKinds DEF Sees, ShowScanDone, Event, Value, Progress, ScanAndDelta
  <2>2. /\ scan'.id = scan.id /\ scan'.cancelClicked = scan.cancelClicked /\ scan'.export = scan.export
        /\ scan'.rows = scan.rows /\ scan'.risks = scan.risks
    BY <1>1, <2>1
  <2>3. /\ ~ scan'.running /\ scan'.done /\ scan'.run = h.value[1].run
        /\ scan'.cancelled = h.value[1].cancelled /\ scan'.errors = h.value[1].errors
        /\ h.value[1].run = None => scan'.isError
    BY <1>1, <2>1
  <2> QED
    BY <1>0, <1>3, <2>2, <2>3
<1>4. CASE h.kind = "export"
  <2>1. scan' = [scan EXCEPT !.export = IF h.ok THEN h.value[1] ELSE NoExport]
    BY <1>4, ApartKinds DEF Sees, ShowExport, Event, Value, Progress, ScanAndDelta
  <2>2. SameScan /\ scan'.export = IF h.ok THEN h.value[1] ELSE NoExport
    BY <1>1, <2>1 DEF SameScan
  <2> QED
    BY <1>0, <1>4, <2>2 DEF SameScan
<1>5. CASE h.kind \notin Progress \cup {"scan", "export"}
  <2>1. scan' = scan
    BY <1>5 DEF Sees, ShowAnswer, ShowRuns, ShowDelta, ShowRunErrors, ShowDeleted, Event
  <2> QED
    BY <1>0, <1>5, <2>1 DEF Progress
<1> QED
  BY <1>2, <1>3, <1>4, <1>5

\* The other steps leave the tab alone, but for the note a Cancel makes.
LEMMA QuietKeepsScan ==
    ASSUME ShapeInv, Quiet
    PROVE  \/ CancelScan /\ worker' = worker /\ cancel' /\ scan.running
              /\ scan' = [scan EXCEPT !.cancelClicked =
                             IF BeforeWalk \/ scan.cancelClicked = "early" THEN "early" ELSE "late"]
           \/ scan' = scan /\ cancel' = cancel /\ worker' = worker
           \/ /\ scan' = scan /\ cancel' = cancel
              /\ \/ worker.pc = "recv" /\ Head(reqs).kind = "scan" /\ reqs # <<>>
                    /\ worker' = [Idle EXCEPT !.pc = "scan", !.id = Head(reqs).id]
                 \/ WalkOn
                 \/ WalkEnds
                 \/ worker.pc = "notify" /\ worker' = Idle
                 \/ worker.pc = "recv" /\ worker' = [worker EXCEPT !.pc = "load"]
<1>1. CASE CancelScan
  BY <1>1 DEF CancelScan
<1>2. CASE (\E side \in {"old", "new"}, r \in delta.runs : Pick(side, r)) \/ ClosePanel \/ Wake
  <2>1. scan' = scan /\ cancel' = cancel /\ worker' = worker
    BY <1>2 DEF Pick, ClosePanel, Wake, uiOnly, ui
  <2> QED
    BY <2>1
<1>3. CASE ScanBegins
  BY <1>3 DEF ScanBegins, Serves, Req, workerOnly, ui
<1>4. CASE WalkOn \/ WalkEnds
  <2>1. scan' = scan /\ cancel' = cancel
    BY <1>4 DEF WalkOn, WalkEnds, workerOnly, ui
  <2> QED
    BY <1>4, <2>1
<1>5. CASE Notify
  BY <1>5 DEF Notify, workerOnly, ui
<1>6. CASE CompareTargets /\ worker' = [worker EXCEPT !.pc = "load"]
  BY <1>6 DEF CompareTargets, Serves, workerOnly, ui
<1> QED
  BY <1>1, <1>2, <1>3, <1>4, <1>5, <1>6 DEF Quiet

----------------------------------------------------------------------------
(* One scan at a time.                                                     *)

\* Nothing about a scan follows its summary.
LEMMA SummaryChannel ==
    ASSUME NEW s, Channel(s), SummaryLast(s)
    PROVE  /\ \A e : e.kind \notin Scanning \/ (\A m \in In(s) : m.kind # "scan") => SummaryLast(Append(s, e))
           /\ s # <<>> => /\ SummaryLast(Tail(s))
                          /\ Head(s).kind = "scan" => \A m \in In(Tail(s)) : m.kind \notin Scanning
<1>1. ASSUME NEW e, e.kind \notin Scanning \/ (\A m \in In(s) : m.kind # "scan") PROVE SummaryLast(Append(s, e))
  <2> DEFINE t == Append(s, e)
  <2>1. /\ Len(s) \in Nat /\ DOMAIN s = 1 .. Len(s) /\ DOMAIN t = 1 .. Len(s) + 1
        /\ \A i \in DOMAIN s : i \in DOMAIN t /\ t[i] = s[i]
        /\ t[Len(s) + 1] = e
        /\ \A i \in DOMAIN t : i \in DOMAIN s \/ i = Len(s) + 1
    BY ChannelAppend, ChannelIs
  <2> HIDE DEF t
  <2>2. ASSUME NEW i \in DOMAIN t, NEW j \in DOMAIN t, t[i].kind = "scan", i < j PROVE t[j].kind \notin Scanning
    <3>1. i \in DOMAIN s /\ t[i] = s[i] /\ s[i] \in In(s)
      BY <2>1, <2>2 DEF In
    <3>2. CASE j \in DOMAIN s
      BY <2>1, <2>2, <3>1, <3>2 DEF SummaryLast
    <3>3. CASE j = Len(s) + 1
      BY <1>1, <2>1, <2>2, <3>1, <3>3
    <3> QED
      BY <2>1, <3>2, <3>3
  <2> QED
    BY <2>2 DEF t, SummaryLast
<1>2. ASSUME s # <<>>
      PROVE  /\ SummaryLast(Tail(s))
             /\ Head(s).kind = "scan" => \A m \in In(Tail(s)) : m.kind \notin Scanning
  <2> DEFINE t == Tail(s)
  <2>1. /\ Len(s) \in Nat /\ Len(s) > 0 /\ DOMAIN s = 1 .. Len(s) /\ 1 \in DOMAIN s /\ Head(s) = s[1]
        /\ DOMAIN t = 1 .. Len(s) - 1
        /\ \A i \in DOMAIN t : i + 1 \in DOMAIN s /\ t[i] = s[i + 1]
    BY <1>2, ChannelIs
  <2> HIDE DEF t
  <2>2. ASSUME NEW i \in DOMAIN t, NEW j \in DOMAIN t, t[i].kind = "scan", i < j PROVE t[j].kind \notin Scanning
    <3>1. i + 1 \in DOMAIN s /\ j + 1 \in DOMAIN s /\ i + 1 < j + 1 /\ t[i] = s[i + 1] /\ t[j] = s[j + 1]
      BY <2>1, <2>2
    <3> QED
      BY <2>2, <3>1 DEF SummaryLast
  <2>3. ASSUME Head(s).kind = "scan", NEW j \in DOMAIN t PROVE t[j].kind \notin Scanning
    <3>1. j + 1 \in DOMAIN s /\ 1 < j + 1 /\ t[j] = s[j + 1]
      BY <2>1
    <3> QED
      BY <2>1, <2>3, <3>1 DEF SummaryLast
  <2> QED
    BY <2>2, <2>3 DEF t, SummaryLast, In
<1> QED
  BY <1>1, <1>2

\* What the invariant says, over the requests R and the events E.
OneScan(R, E, id, running) ==
    /\ \A m \in R : m.kind = "scan" <=> m.id = id
    /\ \A m \in E : m.kind \in Scanning => m.id = id /\ running
    /\ (\E m \in R : m.kind = "scan") => running /\ \A m \in E : m.kind # "scan"

\* A tab that waits for no scan may start one.
LEMMA NoScan ==
    ASSUME QueueInv, ScanInv, ~ scan.running
    PROVE  /\ \A m \in In(reqs) : m.kind # "scan"
           /\ \A m \in In(evts) : m.kind \notin Scanning
           /\ worker.pc \notin {"scan", "rows"} /\ worker.id = None
<1>1. \A m \in In(reqs) : m.kind # "scan"
  BY DEF ScanInv, InQueue
<1>2. \A m \in In(evts) : m.kind \notin Scanning
  BY DEF ScanInv
<1>3. worker.pc \notin {"scan", "rows"}
  BY <1>1, Messages DEF QueueInv
<1> QED
  BY <1>1, <1>2, <1>3 DEF ScanInv

\* Every step keeps it.
LEMMA ScanStep ==
    ASSUME ShapeInv, QueueInv, GuiAssumption, Window, ScanInv
    PROVE  ScanInv'
<1> DEFINE Goal == /\ scan'.id \in 0 .. issued' /\ (scan'.done => ~ scan'.running /\ scan'.id # None)
                   /\ OneScan(In(reqs'), In(evts'), scan'.id, scan'.running)
                   /\ SummaryLast(evts')
                   /\ worker'.id = IF worker'.pc \in {"scan", "rows"} THEN scan'.id ELSE None
<1>0. /\ scan.id \in 0 .. issued /\ (scan.done => ~ scan.running /\ scan.id # None)
      /\ OneScan(In(reqs), In(evts), scan.id, scan.running) /\ SummaryLast(evts)
      /\ worker.id = IF worker.pc \in {"scan", "rows"} THEN scan.id ELSE None
  BY DEF ScanInv, OneScan, InQueue, InFlight
<1>00. issued \in Nat /\ Channel(reqs) /\ Channel(evts) /\ scan.id \in Nat /\ scan.id <= issued
  BY <1>0, Messages
<1>000. "scan" \in Asked /\ "runs" \in Asked /\ \A k \in Asked : k \in Scanning => k = "scan"
  BY ApartKinds DEF Asked, ScanAndDelta, Scanning
<1> SUFFICES Goal
  BY DEF ScanInv, OneScan, InQueue, InFlight, In, SummaryLast
<1> HIDE DEF Goal
<1>1. ASSUME NEW k, NEW a, Asks(k, a) PROVE Goal
  <2>1. k \in Asked /\ Send(k, a) /\ evts' = evts /\ worker' = worker
    BY <1>1 DEF Asks
  <2>2. /\ issued' = issued + 1
        /\ worker.pc = "dead" => reqs' = reqs
        /\ worker.pc # "dead" => \E m : m.kind = k /\ m.id = issued + 1 /\ In(reqs') = In(reqs) \cup {m}
    BY <2>1, SendAdds
  <2>3. CASE k = "scan"
    <3>1. ~ scan.running /\ ~ scan'.done /\ scan'.id = issued + 1 /\ scan'.running = (worker.pc # "dead")
      BY <1>1, <2>3, StartClears
    <3>2. /\ \A m \in In(reqs) : m.kind # "scan" /\ m.id # issued + 1
          /\ \A m \in In(evts) : m.kind \notin Scanning /\ m.kind # "scan"
          /\ worker.pc \notin {"scan", "rows"} /\ worker.id = None
      BY <1>00, <3>1, NoScan, Messages DEF Scanning
    <3>3. OneScan(In(reqs'), In(evts'), scan'.id, scan'.running)
      <4>1. CASE worker.pc = "dead"
        BY <2>1, <2>2, <3>1, <3>2, <4>1 DEF OneScan
      <4>2. CASE worker.pc # "dead"
        BY <2>1, <2>2, <2>3, <3>1, <3>2, <4>2 DEF OneScan
      <4> QED
        BY <4>1, <4>2
    <3> QED
      BY <1>0, <1>00, <2>1, <2>2, <3>1, <3>2, <3>3 DEF Goal
  <2>4. CASE k # "scan"
    <3>1. scan'.running = scan.running /\ scan'.done = scan.done /\ scan'.id = scan.id
      BY <1>1, <2>4, AskKeepsScan DEF SameScan
    <3>2. OneScan(In(reqs'), In(evts'), scan.id, scan.running)
      <4>1. CASE worker.pc = "dead"
        BY <1>0, <2>1, <2>2, <4>1
      <4>2. CASE worker.pc # "dead"
        BY <1>0, <1>00, <2>1, <2>2, <2>4, <4>2 DEF OneScan
      <4> QED
        BY <4>1, <4>2
    <3> QED
      BY <1>0, <1>00, <2>1, <2>2, <3>1, <3>2 DEF Goal
  <2> QED
    BY <2>3, <2>4
<1>2. ASSUME NEW e, Answers(e) PROVE Goal
  <2>1. scan' = scan /\ evts' = Append(evts, e)
    BY <1>2 DEF Answers, Emit, workerOnly, ui
  <2>2. \E h : In(reqs) = In(reqs') \cup {h}
    BY <1>2, AnswersMove
  <2>3. /\ issued' = issued /\ In(evts') = In(evts) \cup {e} /\ worker'.pc = "notify" /\ worker'.id = None
        /\ e.kind \in Asked \ {"scan"}
    BY <1>2, AnswersMove DEF Idle
  <2>4. e.kind \notin Scanning
    BY <1>000, <2>3
  <2>5. OneScan(In(reqs'), In(evts'), scan.id, scan.running)
    BY <1>0, <2>2, <2>3, <2>4 DEF OneScan, Scanning
  <2>6. SummaryLast(evts')
    BY <1>0, <1>00, <2>1, <2>4, SummaryChannel
  <2> QED
    BY <1>0, <2>1, <2>3, <2>5, <2>6 DEF Goal
<1>3. ASSUME NEW e, Tells(e) PROVE Goal
  <2>1. scan' = scan /\ evts' = Append(evts, e)
    BY <1>3 DEF Tells, Emit, workerOnly, ui
  <2>2. /\ issued' = issued /\ reqs' = reqs /\ In(evts') = In(evts) \cup {e} /\ e.kind # "scan"
        /\ e.id = Head(reqs).id /\ Head(reqs).kind = "scan" /\ Head(reqs) \in In(reqs)
        /\ worker.pc \in {"scan", "rows"} /\ worker'.pc = "rows"
    BY <1>3, TellsAdd DEF Progress
  <2>3. e.id = scan.id /\ scan.running /\ \A m \in In(evts) : m.kind # "scan"
    BY <1>0, <2>2 DEF OneScan
  <2>4. OneScan(In(reqs'), In(evts'), scan.id, scan.running)
    BY <1>0, <2>2, <2>3 DEF OneScan
  <2>5. SummaryLast(evts')
    BY <1>0, <1>00, <2>1, <2>3, SummaryChannel
  <2>6. worker'.id = worker.id
    BY <1>3 DEF Tells, ScanRejected, EvaluateRow, ShapeInv
  <2> QED
    BY <1>0, <2>1, <2>2, <2>4, <2>5, <2>6 DEF Goal
<1>4. ASSUME Sees PROVE Goal
  <2>1. worker' = worker /\ evts # <<>> /\ evts' = Tail(evts)
    BY <1>4, SeesTakes DEF Sees
  <2>2. PICK h : h = Head(evts) /\ In(evts) = In(evts') \cup {h}
    BY <1>4, SeesTakes
  <2>3. \/ issued' = issued /\ reqs' = reqs
        \/ /\ issued' = issued + 1
           /\ \E m : m.kind = "runs" /\ m.id = issued + 1 /\ In(reqs') = In(reqs) \cup {m}
    BY <1>4, SeesTakes
  <2>4. scan'.id = scan.id /\ (h.kind # "scan" => scan'.running = scan.running /\ scan'.done = scan.done)
        /\ (h.kind = "scan" => ~ scan'.running /\ scan'.done)
    BY <1>4, <2>2, SeenScan
  <2>5. SummaryLast(evts') /\ (h.kind = "scan" => \A m \in In(evts') : m.kind \notin Scanning)
    BY <1>0, <1>00, <2>1, <2>2, SummaryChannel
  <2>6. OneScan(In(reqs'), In(evts), scan.id, scan.running)
    BY <1>0, <1>00, <2>3 DEF OneScan
  <2>7. CASE h.kind # "scan"
    <3>1. OneScan(In(reqs'), In(evts'), scan'.id, scan'.running)
      BY <2>2, <2>4, <2>6, <2>7 DEF OneScan
    <3> QED
      BY <1>0, <1>00, <2>1, <2>3, <2>4, <2>5, <2>7, <3>1 DEF Goal
  <2>8. CASE h.kind = "scan"
    <3>1. h \in In(evts) /\ h.id # 0 /\ h.id = scan.id
      BY <1>0, <2>2, <2>8, Messages DEF OneScan, Scanning
    <3>2. \A m \in In(reqs') : m.kind # "scan"
      BY <2>6, <2>8, <3>1 DEF OneScan
    <3>3. OneScan(In(reqs'), In(evts'), scan'.id, scan'.running)
      BY <2>4, <2>5, <2>6, <2>8, <3>2 DEF OneScan
    <3> QED
      BY <1>0, <1>00, <2>1, <2>3, <2>4, <2>5, <2>8, <3>1, <3>3 DEF Goal, None
  <2> QED
    BY <2>7, <2>8
<1>5. ASSUME Quiet PROVE Goal
  <2>1. UNCHANGED <<issued, reqs, evts>>
    BY <1>5 DEF Quiet
  <2>2. scan'.id = scan.id /\ scan'.running = scan.running /\ scan'.done = scan.done
    BY <1>5, QuietKeepsScan DEF ShapeInv
  <2>3. worker'.id = IF worker'.pc \in {"scan", "rows"} THEN scan.id ELSE None
    <3>1. CASE worker' = worker
      BY <1>0, <3>1
    <3>2. CASE Head(reqs).kind = "scan" /\ reqs # <<>> /\ worker' = [Idle EXCEPT !.pc = "scan", !.id = Head(reqs).id]
      <4>1. worker'.pc = "scan" /\ worker'.id = Head(reqs).id
        BY <3>2 DEF Idle
      <4>2. Head(reqs).id = scan.id
        BY <1>0, <3>2, Messages DEF OneScan
      <4> QED
        BY <4>1, <4>2
    <3>3. CASE WalkOn
      <4>1. worker'.pc = worker.pc /\ worker'.id = worker.id
        BY <3>3 DEF WalkOn, ShapeInv
      <4> QED
        BY <1>0, <4>1
    <3>4. CASE WalkEnds
      <4>1. worker.pc = "scan" /\ worker'.pc = "rows" /\ worker'.id = worker.id
        BY <3>4 DEF WalkEnds, Mine, ShapeInv
      <4> QED
        BY <1>0, <4>1
    <3>5. CASE worker' = Idle
      BY <3>5 DEF Idle
    <3>6. CASE worker.pc = "recv" /\ worker' = [worker EXCEPT !.pc = "load"]
      <4>1. worker'.pc = "load" /\ worker'.id = worker.id
        BY <3>6 DEF ShapeInv
      <4> QED
        BY <1>0, <3>6, <4>1
    <3> QED
      BY <1>5, <3>1, <3>2, <3>3, <3>4, <3>5, <3>6, QuietKeepsScan
  <2> QED
    BY <1>0, <2>1, <2>2, <2>3 DEF Goal
<1>6. ASSUME ScanDone PROVE Goal
  <2>1. scan' = scan
    BY <1>6 DEF ScanDone, workerOnly, ui
  <2>2. issued' = issued /\ worker.pc = "rows" /\ worker'.pc = "notify" /\ worker'.id = None
    BY <1>6, ScanDoneMoves DEF Idle
  <2>3. PICK h : /\ h = Head(reqs) /\ In(reqs) = In(reqs') \cup {h} /\ h.kind = "scan"
                 /\ \A o \in In(reqs') : h.id < o.id
    BY <1>6, ScanDoneMoves
  <2>4. PICK r, e : /\ evts' = Append(Append(evts, r), e) /\ In(evts') = In(evts) \cup {r, e}
                    /\ r.kind = "risks" /\ e.kind = "scan" /\ r.id = h.id /\ e.id = h.id
    BY <1>6, <2>3, ScanDoneMoves
  <2>5. h.id = scan.id /\ scan.running /\ \A m \in In(evts) : m.kind # "scan"
    BY <1>0, <2>3 DEF OneScan
  <2>6. \A o \in In(reqs') : o.kind # "scan"
    <3>1. \A o \in In(reqs') : o.id # scan.id
      BY <2>3, <2>5, Messages
    <3> QED
      BY <1>0, <2>3, <3>1 DEF OneScan
  <2>7. OneScan(In(reqs'), In(evts'), scan.id, scan.running)
    BY <1>0, <2>3, <2>4, <2>5, <2>6 DEF OneScan
  <2>8. SummaryLast(evts')
    <3>1. Channel(Append(evts, r)) /\ SummaryLast(Append(evts, r))
      BY <1>0, <1>00, <2>5, ChannelAppend, SummaryChannel
    <3>2. \A m \in In(Append(evts, r)) : m.kind # "scan"
      <4>1. In(Append(evts, r)) = In(evts) \cup {r}
        BY <1>00, InChannel
      <4> QED
        BY <2>4, <2>5, <4>1
    <3> QED
      BY <2>4, <3>1, <3>2, SummaryChannel
  <2> QED
    BY <1>0, <2>1, <2>2, <2>7, <2>8 DEF Goal
<1>7. ASSUME StartWorker PROVE Goal
  <2>1. scan' = scan /\ reqs' = reqs /\ evts' = evts /\ worker'.pc = "recv" /\ worker'.id = None /\ issued' = issued
    BY <1>7 DEF StartWorker, workerOnly, ui, Idle
  <2> QED
    BY <1>0, <2>1 DEF Goal
<1>8. ASSUME WorkerDies PROVE Goal
  <2>1. scan' = scan /\ reqs' = <<>> /\ evts' = evts /\ issued' = issued /\ worker.pc = "start"
        /\ worker'.pc = "dead" /\ worker'.id = worker.id
    BY <1>8 DEF WorkerDies, workerOnly, ui, ShapeInv
  <2>2. OneScan(In(reqs'), In(evts'), scan.id, scan.running)
    BY <1>0, <1>00, <2>1, InChannel DEF OneScan
  <2> QED
    BY <1>0, <2>1, <2>2 DEF Goal
<1> QED
  BY <1>1, <1>2, <1>3, <1>4, <1>5, <1>6, <1>7, <1>8, StepKinds

----------------------------------------------------------------------------
(* The rows of a scan, on their way and on screen.                         *)

\* The values of the messages in a channel.
LEMMA ValuesOf ==
    ASSUME NEW s, Channel(s)
    PROVE  /\ Channel(Values(s)) /\ Len(Values(s)) = Len(s) /\ \A i \in 1 .. Len(s) : Values(s)[i] = s[i].value[1]
<1> DEFINE v == Values(s)
           S == {s[i].value[1] : i \in 1 .. Len(s)}
<1>1. Len(s) \in Nat /\ DOMAIN s = 1 .. Len(s)
  BY ChannelIs
<1>2. v = [i \in 1 .. Len(s) |-> s[i].value[1]]
  BY <1>1 DEF Values
<1>3. v \in [1 .. Len(s) -> S]
  BY <1>2
<1>4. DOMAIN v = 1 .. Len(s) /\ \A i \in 1 .. Len(s) : v[i] = s[i].value[1]
  BY <1>2
<1> HIDE DEF v, S
<1>5. v \in Seq(S) /\ Len(v) = Len(s)
  BY <1>1, <1>3
<1>6. Channel(v)
  BY <1>4, <1>5 DEF Channel, In
<1> QED
  BY <1>4, <1>5, <1>6 DEF v

\* One channel after the other.
LEMMA Joined ==
    ASSUME NEW a, NEW b, Channel(a), Channel(b)
    PROVE  /\ Channel(a \o b) /\ Len(a \o b) = Len(a) + Len(b)
           /\ \A i \in 1 .. Len(a) : (a \o b)[i] = a[i]
           /\ \A i \in 1 .. Len(b) : (a \o b)[Len(a) + i] = b[i]
           /\ b = <<>> => a \o b = a
<1> DEFINE S == In(a) \cup In(b)
           c == a \o b
<1>1. a \in Seq(S) /\ b \in Seq(S)
  BY DEF Channel, In
<1> HIDE DEF S
<1>2. /\ c \in Seq(S) /\ Len(c) = Len(a) + Len(b) /\ Len(a) \in Nat /\ Len(b) \in Nat
      /\ \A i \in 1 .. Len(a) : c[i] = a[i]
      /\ \A i \in 1 .. Len(b) : c[Len(a) + i] = b[i]
  BY <1>1
<1>3. b = <<>> => c = a
  BY <1>1
<1> HIDE DEF c
<1>4. Channel(c)
  <2>1. c \in Seq(S)
    BY <1>2
  <2> QED
    BY <2>1 DEF Channel, In
<1> QED
  BY <1>2, <1>3, <1>4 DEF c

\* What is joined and then extended is extended and then joined.
LEMMA JoinAppend ==
    ASSUME NEW a, NEW b, Channel(a), Channel(b), NEW x
    PROVE  /\ a \o Append(b, x) = Append(a \o b, x)
           /\ b # <<>> => a \o b = Append(a, Head(b)) \o Tail(b)
<1> DEFINE S == In(a) \cup In(b) \cup {x}
<1>1. a \in Seq(S) /\ b \in Seq(S) /\ x \in S
  BY DEF Channel, In
<1> HIDE DEF S
<1>2. a \o Append(b, x) = Append(a \o b, x)
  BY <1>1
<1>3. ASSUME b # <<>> PROVE a \o b = Append(a, Head(b)) \o Tail(b)
  <2>1. Head(b) \in S /\ Tail(b) \in Seq(S) /\ Len(b) = Len(Tail(b)) + 1 /\ b[1] = Head(b)
        /\ Len(Tail(b)) \in Nat
        /\ \A i \in 1 .. Len(Tail(b)) : Tail(b)[i] = b[i + 1]
    BY <1>1, <1>3
  <2> DEFINE p == Append(a, Head(b))
             l == a \o b
             r == p \o Tail(b)
  <2>2. /\ p \in Seq(S) /\ Len(p) = Len(a) + 1 /\ Len(a) \in Nat /\ p[Len(a) + 1] = Head(b)
        /\ \A i \in 1 .. Len(a) : p[i] = a[i]
    BY <1>1, <2>1
  <2>3. Channel(a) /\ Channel(b) /\ Channel(p) /\ Channel(Tail(b))
    BY <1>3, ChannelIs, ChannelAppend
  <2> HIDE DEF p
  <2>4. /\ Channel(l) /\ Len(l) = Len(a) + Len(b)
        /\ \A i \in 1 .. Len(a) : l[i] = a[i]
        /\ \A i \in 1 .. Len(b) : l[Len(a) + i] = b[i]
    BY <2>3, Joined
  <2>5. /\ Channel(r) /\ Len(r) = Len(p) + Len(Tail(b))
        /\ \A i \in 1 .. Len(p) : r[i] = p[i]
        /\ \A i \in 1 .. Len(Tail(b)) : r[Len(p) + i] = Tail(b)[i]
    BY <2>3, Joined
  <2> HIDE DEF l, r
  <2>6. Len(l) = Len(r) /\ Len(l) \in Nat
    BY <2>1, <2>2, <2>4, <2>5
  <2>7. ASSUME NEW i \in 1 .. Len(l) PROVE l[i] = r[i]
    <3>1. CASE i <= Len(a)
      <4>1. i \in 1 .. Len(a) /\ i \in 1 .. Len(p)
        BY <2>2, <2>6, <3>1
      <4> QED
        BY <2>2, <2>4, <2>5, <4>1
    <3>2. CASE i = Len(a) + 1
      <4>1. 1 \in 1 .. Len(b) /\ i \in 1 .. Len(p)
        BY <2>1, <2>2, <3>2
      <4>2. l[Len(a) + 1] = b[1] /\ r[i] = p[i]
        BY <2>4, <2>5, <4>1
      <4> QED
        BY <2>1, <2>2, <3>2, <4>2
    <3>3. CASE i > Len(a) + 1
      <4> DEFINE j == i - Len(p)
      <4>1. j \in 1 .. Len(Tail(b)) /\ j + 1 \in 1 .. Len(b) /\ i = Len(p) + j /\ i = Len(a) + (j + 1)
        BY <2>1, <2>2, <2>4, <2>6, <3>3
      <4> HIDE DEF j
      <4>2. l[Len(a) + (j + 1)] = b[j + 1] /\ r[Len(p) + j] = Tail(b)[j] /\ Tail(b)[j] = b[j + 1]
        BY <2>1, <2>4, <2>5, <4>1
      <4> QED
        BY <4>1, <4>2
    <3> QED
      BY <2>2, <2>6, <3>1, <3>2, <3>3
  <2>8. l = r
    BY <2>4, <2>5, <2>6, <2>7, SameChannel
  <2> QED
    BY <2>8 DEF l, r, p
<1> QED
  BY <1>2, <1>3

\* A row keeps its place from the moment it is sent until it is on screen.
LEMMA ArrivedIs ==
    ASSUME NEW rows, Channel(rows), NEW es, Channel(es)
    PROVE  /\ Channel(Arrived(rows, es))
           /\ \A i \in DOMAIN rows : rows[i] \in In(Arrived(rows, es))
           /\ \A e : Arrived(rows, Append(es, e)) =
                       IF e.kind = "scan item" THEN Append(Arrived(rows, es), e.value[1]) ELSE Arrived(rows, es)
           /\ es # <<>> => Arrived(IF Head(es).kind = "scan item" THEN Append(rows, Head(es).value[1]) ELSE rows, Tail(es))
                             = Arrived(rows, es)
           /\ (\A m \in In(es) : m.kind # "scan item") => Arrived(rows, es) = rows
<1> DEFINE K == {"scan item"}
           o == Of(es, K)
           v == Values(o)
<1>1. Channel(o)
  BY OfAt
<1> HIDE DEF o
<1>2. Channel(v) /\ Len(v) = Len(o) /\ \A i \in 1 .. Len(o) : v[i] = o[i].value[1]
  BY <1>1, ValuesOf
<1>3. Arrived(rows, es) = rows \o v
  BY DEF Arrived, o
<1> HIDE DEF v
<1>4. Channel(Arrived(rows, es)) /\ \A i \in DOMAIN rows : rows[i] \in In(Arrived(rows, es))
  <2> DEFINE c == rows \o v
  <2>1. Channel(c) /\ Len(c) = Len(rows) + Len(v) /\ \A i \in 1 .. Len(rows) : c[i] = rows[i]
    BY <1>2, Joined
  <2> HIDE DEF c
  <2>2. Len(rows) \in Nat /\ Len(v) \in Nat /\ DOMAIN rows = 1 .. Len(rows) /\ DOMAIN c = 1 .. Len(c)
    BY <1>2, <2>1, ChannelIs
  <2>3. \A i \in 1 .. Len(rows) : i \in DOMAIN c
    BY <2>1, <2>2
  <2>4. \A i \in DOMAIN rows : rows[i] \in In(c)
    BY <2>1, <2>2, <2>3 DEF In
  <2> QED
    BY <1>3, <2>1, <2>4 DEF c
<1>5. ASSUME NEW e PROVE Arrived(rows, Append(es, e)) =
                       IF e.kind = "scan item" THEN Append(Arrived(rows, es), e.value[1]) ELSE Arrived(rows, es)
  <2>1. Of(Append(es, e), K) = IF e.kind \in K THEN Append(o, e) ELSE o
    BY OfAppend DEF o
  <2>2. CASE e.kind # "scan item"
    BY <1>3, <2>1, <2>2 DEF Arrived, v
  <2>3. CASE e.kind = "scan item"
    <3> DEFINE p == Append(o, e)
               q == Append(v, e.value[1])
    <3>1. /\ Channel(p) /\ Len(p) = Len(o) + 1 /\ p[Len(o) + 1] = e /\ Len(o) \in Nat /\ DOMAIN o = 1 .. Len(o)
          /\ \A i \in DOMAIN o : p[i] = o[i]
      BY <1>1, ChannelAppend, ChannelIs
    <3>2. /\ Channel(q) /\ Len(q) = Len(v) + 1 /\ q[Len(v) + 1] = e.value[1] /\ DOMAIN v = 1 .. Len(v)
          /\ \A i \in DOMAIN v : q[i] = v[i]
      BY <1>2, ChannelAppend, ChannelIs
    <3> HIDE DEF p, q
    <3>3. Channel(Values(p)) /\ Len(Values(p)) = Len(p) /\ \A i \in 1 .. Len(p) : Values(p)[i] = p[i].value[1]
      BY <3>1, ValuesOf
    <3>4. ASSUME NEW i \in 1 .. Len(p) PROVE Values(p)[i] = q[i]
      <4>1. CASE i = Len(o) + 1
        BY <1>2, <3>1, <3>2, <3>3, <4>1
      <4>2. CASE i \in 1 .. Len(o)
        BY <1>2, <3>1, <3>2, <3>3, <4>2
      <4> QED
        BY <3>1, <4>1, <4>2
    <3>5. Values(p) = q
      BY <1>2, <3>1, <3>2, <3>3, <3>4, SameChannel
    <3>6. rows \o q = Append(rows \o v, e.value[1])
      BY <1>2, JoinAppend DEF q
    <3>7. Arrived(rows, Append(es, e)) = rows \o Values(p)
      BY <2>1, <2>3 DEF Arrived, p
    <3> QED
      BY <1>3, <2>3, <3>5, <3>6, <3>7
  <2> QED
    BY <2>2, <2>3
<1>6. ASSUME es # <<>>
      PROVE  Arrived(IF Head(es).kind = "scan item" THEN Append(rows, Head(es).value[1]) ELSE rows, Tail(es))
                             = Arrived(rows, es)
  <2>1. /\ Of(Tail(es), K) = IF Head(es).kind \in K THEN Tail(o) ELSE o
        /\ Head(es).kind \in K => o # <<>> /\ Head(o) = Head(es)
    BY <1>6, OfTail DEF o
  <2>2. CASE Head(es).kind # "scan item"
    BY <1>3, <2>1, <2>2 DEF Arrived, v
  <2>3. CASE Head(es).kind = "scan item"
    <3> DEFINE p == Tail(o)
               q == Tail(v)
    <3>1. o # <<>> /\ Head(o) = Head(es)
      BY <2>1, <2>3
    <3>2. /\ Channel(p) /\ Len(o) = Len(p) + 1 /\ Head(o) = o[1] /\ DOMAIN p = 1 .. Len(o) - 1 /\ Len(o) > 0
          /\ \A i \in DOMAIN p : p[i] = o[i + 1]
      BY <1>1, <3>1, ChannelIs
    <3>3. Len(p) \in Nat /\ Len(o) \in Nat /\ DOMAIN p = 1 .. Len(p)
      BY <1>1, <3>2, ChannelIs
    <3>4. v # <<>>
      BY <1>2, <3>2, <3>3
    <3>5. /\ Channel(q) /\ Len(v) = Len(q) + 1 /\ Head(v) = v[1] /\ DOMAIN q = 1 .. Len(v) - 1
          /\ \A i \in DOMAIN q : q[i] = v[i + 1]
      BY <1>2, <3>4, ChannelIs
    <3>51. Len(q) \in Nat
      BY <3>5, ChannelIs
    <3> HIDE DEF p, q
    <3>6. Channel(Values(p)) /\ Len(Values(p)) = Len(p) /\ \A i \in 1 .. Len(p) : Values(p)[i] = p[i].value[1]
      BY <3>2, ValuesOf
    <3>7. Len(q) = Len(p)
      BY <1>2, <3>2, <3>3, <3>5, <3>51
    <3>8. ASSUME NEW i \in 1 .. Len(p) PROVE Values(p)[i] = q[i]
      <4>1. i + 1 \in 1 .. Len(o) /\ i \in DOMAIN p /\ i \in DOMAIN q
        BY <1>2, <3>2, <3>3, <3>5
      <4>2. p[i] = o[i + 1] /\ q[i] = v[i + 1] /\ v[i + 1] = o[i + 1].value[1]
        BY <1>2, <3>2, <3>5, <4>1
      <4> QED
        BY <3>6, <4>2
    <3>9. Values(p) = q
      BY <3>5, <3>6, <3>7, <3>8, SameChannel
    <3>10. Head(v) = Head(es).value[1]
      <4>1. 1 \in 1 .. Len(o)
        BY <3>2, <3>3
      <4> QED
        BY <1>2, <3>1, <3>2, <3>5, <4>1
    <3>11. rows \o v = Append(rows, Head(v)) \o q
      BY <1>2, <3>4, JoinAppend DEF q
    <3>12. Of(Tail(es), K) = p
      BY <2>1, <2>3 DEF p
    <3> QED
      BY <1>3, <2>3, <3>9, <3>10, <3>11, <3>12 DEF Arrived
  <2> QED
    BY <2>2, <2>3
<1>7. ASSUME \A m \in In(es) : m.kind # "scan item" PROVE Arrived(rows, es) = rows
  <2>1. Positions(es, K) = {}
    BY <1>7 DEF Positions, In
  <2>2. Len(o) = 0
    BY <2>1, OfAt, FS_EmptySet DEF o
  <2>3. v = <<>>
    <3>1. Channel(<<>>) /\ Len(<<>>) = 0
      BY OfEmpty
    <3> QED
      BY <1>2, <2>2, <3>1, SameChannel
  <2> QED
    BY <1>2, <1>3, <2>3, Joined
<1> QED
  BY <1>4, <1>5, <1>6, <1>7

\* What the invariant of the rows says of what has arrived, A, and what the worker remembers, L.
RowsOk(A, L, R, E, w, id, done) ==
    /\ \A x \in In(A) : x.sig.effective_mask = id
    /\ \A m \in E : m.kind = "risks" => m.value = <<id>>
    /\ (\E m \in R : m.kind = "scan") => A = IF w.pc \in {"scan", "rows"} THEN w.rows ELSE <<>>
    /\ (\E m \in E : m.kind = "scan") \/ done => A = L

\* Every step keeps it.
LEMMA RowsStep ==
    ASSUME ShapeInv, QueueInv, BoundInv, GuiAssumption, Window, ScanInv, RowsInv
    PROVE  RowsInv'
<1> DEFINE A2 == Arrived(scan'.rows, evts')
           Goal == /\ Channel(scan'.rows) /\ Channel(last') /\ scan'.risks \in {None, scan'.id}
                   /\ RowsOk(A2, last', In(reqs'), In(evts'), worker', scan'.id, scan'.done)
           A == Arrived(scan.rows, evts)
<1>0. /\ Channel(scan.rows) /\ Channel(last) /\ scan.risks \in {None, scan.id}
      /\ RowsOk(A, last, In(reqs), In(evts), worker, scan.id, scan.done)
  BY DEF RowsInv, RowsOk, InQueue, InFlight, Arriving
<1>00. Channel(evts) /\ Channel(reqs) /\ Channel(A) /\ Channel(<<>>)
  BY <1>0, Messages, ArrivedIs, OfEmpty
<1> SUFFICES Goal
  BY DEF RowsInv, RowsOk, InQueue, InFlight, In, Arriving, Arrived, Of, Values, Positions, Rank, Channel
<1> HIDE DEF Goal, A, A2
<1>1. ASSUME NEW k, NEW a, Asks(k, a) PROVE Goal
  <2>1. k \in Asked /\ Send(k, a) /\ evts' = evts /\ worker' = worker /\ last' = last
    BY <1>1 DEF Asks
  <2>2. /\ worker.pc = "dead" => reqs' = reqs
        /\ worker.pc # "dead" => \E m : m.kind = k /\ In(reqs') = In(reqs) \cup {m}
    BY <2>1, SendAdds
  <2>3. CASE k = "scan"
    <3>1. ~ scan.running /\ ~ scan'.done /\ scan'.rows = <<>> /\ scan'.risks = None
      BY <1>1, <2>3, StartClears
    <3>2. /\ \A m \in In(evts) : m.kind # "risks" /\ m.kind # "scan" /\ m.kind # "scan item"
          /\ worker.pc \notin {"scan", "rows"}
      BY <3>1, NoScan DEF Scanning, Progress
    <3>3. A2 = <<>> /\ In(<<>>) = {}
      BY <1>00, <2>1, <3>1, <3>2, ArrivedIs, InChannel DEF A2
    <3>4. RowsOk(A2, last', In(reqs'), In(evts'), worker', scan'.id, scan'.done)
      BY <2>1, <3>1, <3>2, <3>3 DEF RowsOk
    <3> QED
      BY <1>0, <1>00, <2>1, <3>1, <3>4 DEF Goal
  <2>4. CASE k # "scan"
    <3>1. scan'.rows = scan.rows /\ scan'.risks = scan.risks /\ scan'.done = scan.done /\ scan'.id = scan.id
      BY <1>1, <2>4, AskKeepsScan DEF SameScan
    <3>2. A2 = A
      BY <2>1, <3>1 DEF A, A2
    <3>3. RowsOk(A, last, In(reqs'), In(evts), worker, scan.id, scan.done)
      BY <1>0, <2>2, <2>4 DEF RowsOk
    <3> QED
      BY <1>0, <2>1, <3>1, <3>2, <3>3 DEF Goal
  <2> QED
    BY <2>3, <2>4
<1>2. ASSUME NEW e, Answers(e) PROVE Goal
  <2>1. scan' = scan /\ evts' = Append(evts, e) /\ last' = last
    BY <1>2 DEF Answers, Emit, workerOnly, ui
  <2>2. \E h : In(reqs) = In(reqs') \cup {h}
    BY <1>2, AnswersMove
  <2>3. In(evts') = In(evts) \cup {e} /\ worker'.pc = "notify" /\ worker.pc \in {"recv", "load"}
        /\ e.kind \in Asked \ {"scan"}
    BY <1>2, AnswersMove DEF Idle
  <2>4. e.kind \notin Progress /\ e.kind # "risks" /\ e.kind # "scan item"
    BY <2>3, ApartKinds DEF Progress
  <2>5. A2 = A
    <3>1. Channel(scan.rows) /\ Channel(evts)
      BY <1>0, <1>00
    <3>2. Arrived(scan.rows, Append(evts, e)) = Arrived(scan.rows, evts)
      BY <2>4, <3>1, ArrivedIs
    <3> QED
      BY <2>1, <3>2 DEF A, A2
  <2>6. RowsOk(A, last, In(reqs'), In(evts'), worker', scan.id, scan.done)
    BY <1>0, <2>2, <2>3, <2>4 DEF RowsOk
  <2> QED
    BY <1>0, <2>1, <2>5, <2>6 DEF Goal
<1>3. ASSUME NEW e, Tells(e) PROVE Goal
  <2>1. scan' = scan /\ evts' = Append(evts, e) /\ last' = last
    BY <1>3 DEF Tells, Emit, workerOnly, ui
  <2>2. /\ reqs' = reqs /\ In(evts') = In(evts) \cup {e} /\ e.kind \in {"scan item", "scan error"}
        /\ Head(reqs).kind = "scan" /\ Head(reqs) \in In(reqs)
        /\ worker.pc \in {"scan", "rows"} /\ worker'.pc = "rows"
    BY <1>3, TellsAdd DEF Tells
  <2>3. scan.running /\ (\A m \in In(evts) : m.kind # "scan") /\ ~ scan.done /\ worker.id = scan.id
    BY <2>2 DEF ScanInv, InQueue, InFlight
  <2>4. A = worker.rows
    BY <1>0, <2>2 DEF RowsOk
  <2>5. A2 = IF e.kind = "scan item" THEN Append(A, e.value[1]) ELSE A
    <3>1. Channel(scan.rows) /\ Channel(evts)
      BY <1>0, <1>00
    <3>2. Arrived(scan.rows, Append(evts, e)) =
            IF e.kind = "scan item" THEN Append(Arrived(scan.rows, evts), e.value[1]) ELSE Arrived(scan.rows, evts)
      BY <3>1, ArrivedIs
    <3> QED
      BY <2>1, <3>2 DEF A, A2
  <2>6. \/ e.kind = "scan error" /\ worker'.rows = worker.rows
        \/ /\ e.kind = "scan item" /\ worker'.rows = Append(worker.rows, e.value[1])
           /\ e.value[1].sig.effective_mask = worker.id
    <3>1. \A x, y : Append(evts, x) = Append(evts, y) => x = y
      BY <1>00, ChannelAppend
    <3>2. CASE ScanRejected
      <4> DEFINE f == [Err("scan error") EXCEPT !.value = <<worker.id>>]
      <4>1. f.kind = "scan error" /\ evts' = Append(evts, f) /\ worker'.rows = worker.rows
        BY <3>2 DEF ScanRejected, Err, Emit, ShapeInv
      <4> HIDE DEF f
      <4> QED
        BY <2>1, <3>1, <4>1
    <3>3. CASE EvaluateRow
      <4> DEFINE row == Row(worker.id, Evaluated + 1)
                 f == Ok("scan item", row)
                 g == [Err("scan error") EXCEPT !.value = <<worker.id>>]
      <4>1. \/ evts' = Append(evts, f) /\ worker' = [worker EXCEPT !.rows = Append(@, row)]
            \/ evts' = Append(evts, g) /\ worker' = [worker EXCEPT !.errors = @ + 1]
        BY <3>3 DEF EvaluateRow, Emit
      <4>2. row.sig.effective_mask = worker.id
        BY DEF Row
      <4> HIDE DEF row
      <4>3. f.kind = "scan item" /\ f.value[1] = row /\ g.kind = "scan error"
        BY DEF Ok, Err
      <4> HIDE DEF f, g
      <4>4. CASE evts' = Append(evts, f) /\ worker' = [worker EXCEPT !.rows = Append(@, row)]
        <5>1. e = f /\ worker'.rows = Append(worker.rows, row)
          BY <2>1, <3>1, <4>4 DEF ShapeInv
        <5> QED
          BY <4>2, <4>3, <5>1
      <4>5. CASE evts' = Append(evts, g) /\ worker' = [worker EXCEPT !.errors = @ + 1]
        <5>1. e = g /\ worker'.rows = worker.rows
          BY <2>1, <3>1, <4>5 DEF ShapeInv
        <5> QED
          BY <4>3, <5>1
      <4> QED
        BY <4>1, <4>4, <4>5
    <3> QED
      BY <1>3, <3>2, <3>3 DEF Tells
  <2>7. A2 = worker'.rows /\ \A x \in In(A2) : x.sig.effective_mask = scan.id
    <3>1. CASE e.kind = "scan error"
      BY <1>0, <2>4, <2>5, <2>6, <3>1 DEF RowsOk
    <3>2. CASE e.kind = "scan item"
      <4>1. In(A2) = In(A) \cup {e.value[1]}
        BY <1>00, <2>5, <3>2, InChannel
      <4> QED
        BY <1>0, <2>3, <2>4, <2>5, <2>6, <3>2, <4>1 DEF RowsOk
    <3> QED
      BY <2>2, <3>1, <3>2
  <2>8. RowsOk(A2, last, In(reqs'), In(evts'), worker', scan.id, scan.done)
    BY <1>0, <2>2, <2>3, <2>7 DEF RowsOk
  <2> QED
    BY <1>0, <2>1, <2>8 DEF Goal
<1>4. ASSUME Sees PROVE Goal
  <2>1. worker' = worker /\ evts # <<>> /\ evts' = Tail(evts)
    BY <1>4, SeesTakes DEF Sees
  <2>2. PICK h : h = Head(evts) /\ In(evts) = In(evts') \cup {h}
    BY <1>4, SeesTakes
  <2>3. reqs' = reqs \/ \E m : m.kind = "runs" /\ In(reqs') = In(reqs) \cup {m}
    BY <1>4, SeesTakes
  <2>4. /\ scan'.id = scan.id /\ last' = last
        /\ scan'.rows = IF h.kind = "scan item" THEN Append(scan.rows, h.value[1]) ELSE scan.rows
        /\ scan'.risks = IF h.kind = "risks" THEN h.value[1] ELSE scan.risks
        /\ h.kind # "scan" => scan'.done = scan.done
    BY <1>4, <2>2, SeenScan
  <2>5. A2 = A
    <3>1. Channel(scan.rows) /\ Channel(evts)
      BY <1>0, <1>00
    <3>2. Arrived(IF Head(evts).kind = "scan item" THEN Append(scan.rows, Head(evts).value[1]) ELSE scan.rows, Tail(evts))
            = Arrived(scan.rows, evts)
      BY <2>1, <3>1, ArrivedIs
    <3> QED
      BY <2>1, <2>2, <2>4, <3>2 DEF A, A2
  <2>6. scan'.risks \in {None, scan.id}
    <3>1. h \in In(evts)
      BY <2>2
    <3>2. \A m \in In(evts) : m.kind = "risks" => m.value = <<scan.id>>
      BY <1>0 DEF RowsOk
    <3>3. CASE h.kind = "risks"
      <4>1. h.value = <<scan.id>>
        BY <3>1, <3>2, <3>3
      <4>2. h.value[1] = scan.id
        BY <4>1
      <4> QED
        BY <2>4, <3>3, <4>2
    <3>4. CASE h.kind # "risks"
      <4>1. scan.risks \in {None, scan.id}
        BY <1>0
      <4> QED
        BY <2>4, <3>4, <4>1
    <3> QED
      BY <3>3, <3>4
  <2>7. Channel(scan'.rows)
    <3>1. Channel(scan.rows)
      BY <1>0
    <3>2. Channel(Append(scan.rows, h.value[1]))
      BY <3>1, ChannelAppend
    <3> QED
      BY <2>4, <3>1, <3>2
  <2>8. RowsOk(A, last, In(reqs'), In(evts'), worker, scan.id, scan'.done)
    BY <1>0, <2>2, <2>3, <2>4 DEF RowsOk
  <2> QED
    BY <1>0, <2>1, <2>4, <2>5, <2>6, <2>7, <2>8 DEF Goal
<1>5. ASSUME Quiet PROVE Goal
  <2>1. UNCHANGED <<reqs, evts, last>>
    BY <1>5 DEF Quiet
  <2>2. scan'.id = scan.id /\ scan'.rows = scan.rows /\ scan'.risks = scan.risks /\ scan'.done = scan.done
    BY <1>5, QuietKeepsScan DEF ShapeInv
  <2>3. A2 = A
    BY <2>1, <2>2 DEF A, A2
  <2> DEFINE W(w) == IF w.pc \in {"scan", "rows"} THEN w.rows ELSE <<>>
  <2>4. W(worker') = W(worker)
    <3>1. CASE worker' = worker
      BY <3>1
    <3>2. CASE worker.pc = "recv" /\ worker' = [Idle EXCEPT !.pc = "scan", !.id = Head(reqs).id]
      <4>1. worker'.rows = <<>>
        BY <3>2 DEF Idle
      <4> QED
        BY <3>2, <4>1
    <3>3. CASE WalkOn
      <4>1. worker.pc = "scan" /\ worker'.pc = "scan" /\ worker'.rows = worker.rows
        BY <3>3 DEF WalkOn, Mine, ShapeInv
      <4> QED
        BY <4>1
    <3>4. CASE WalkEnds
      <4>1. worker.pc = "scan" /\ worker'.pc = "rows" /\ worker'.rows = worker.rows
        BY <3>4 DEF WalkEnds, Mine, ShapeInv
      <4> QED
        BY <4>1
    <3>5. CASE worker.pc = "notify" /\ worker' = Idle
      <4>1. worker'.pc = "recv"
        BY <3>5 DEF Idle
      <4> QED
        BY <3>5, <4>1
    <3>6. CASE worker.pc = "recv" /\ worker' = [worker EXCEPT !.pc = "load"]
      <4>1. worker'.pc = "load"
        BY <3>6 DEF ShapeInv
      <4> QED
        BY <3>6, <4>1
    <3> QED
      BY <1>5, <3>1, <3>2, <3>3, <3>4, <3>5, <3>6, QuietKeepsScan
  <2>5. RowsOk(A, last, In(reqs), In(evts), worker', scan.id, scan.done)
    BY <1>0, <2>4 DEF RowsOk
  <2> QED
    BY <1>0, <2>1, <2>2, <2>3, <2>5 DEF Goal
<1>6. ASSUME ScanDone PROVE Goal
  <2>1. scan' = scan /\ last' = worker.rows
    BY <1>6 DEF ScanDone, Keep, workerOnly, ui
  <2>2. worker.pc = "rows" /\ \E h : In(reqs) = In(reqs') \cup {h} /\ h.kind = "scan"
    BY <1>6, ScanDoneMoves
  <2>3. \A o \in In(reqs') : o.kind # "scan"
    <3>1. PICK h : /\ h = Head(reqs) /\ In(reqs) = In(reqs') \cup {h} /\ h.kind = "scan"
                   /\ \A o \in In(reqs') : h.id < o.id
      BY <1>6, ScanDoneMoves
    <3>2. \A o \in In(reqs') : o.id # h.id
      BY <3>1, Messages
    <3>3. \A m \in In(reqs) : m.kind = "scan" <=> m.id = scan.id
      BY DEF ScanInv
    <3> QED
      BY <3>1, <3>2, <3>3
  <2>4. PICK r, e : /\ evts' = Append(Append(evts, r), e) /\ In(evts') = In(evts) \cup {r, e}
                    /\ r.kind = "risks" /\ e.kind = "scan" /\ r.value = <<worker.id>>
    BY <1>6, ScanDoneMoves
  <2>5. A = worker.rows /\ worker.id = scan.id
    BY <1>0, <2>2 DEF RowsOk, ScanInv
  <2>6. A2 = A
    <3>1. Channel(Append(evts, r))
      BY <1>00, ChannelAppend
    <3>2. Arrived(scan.rows, Append(evts, r)) = A
      BY <1>0, <1>00, <2>4, ArrivedIs DEF A
    <3>3. Arrived(scan.rows, Append(Append(evts, r), e)) = Arrived(scan.rows, Append(evts, r))
      BY <1>0, <2>4, <3>1, ArrivedIs
    <3> QED
      BY <2>1, <2>4, <3>2, <3>3 DEF A2
  <2>7. RowsOk(A, last', In(reqs'), In(evts'), worker', scan.id, scan.done)
    BY <1>0, <2>1, <2>3, <2>4, <2>5 DEF RowsOk
  <2>8. Channel(last')
    BY <2>1 DEF BoundInv
  <2> QED
    BY <1>0, <2>1, <2>6, <2>7, <2>8 DEF Goal
<1>7. ASSUME StartWorker PROVE Goal
  <2>1. scan' = scan /\ reqs' = reqs /\ evts' = evts /\ worker'.pc = "recv" /\ worker.pc = "start" /\ last' = last
    BY <1>7 DEF StartWorker, workerOnly, ui, Idle
  <2>2. A2 = A
    BY <2>1 DEF A, A2
  <2>3. RowsOk(A, last, In(reqs), In(evts), worker', scan.id, scan.done)
    BY <1>0, <2>1 DEF RowsOk
  <2> QED
    BY <1>0, <2>1, <2>2, <2>3 DEF Goal
<1>8. ASSUME WorkerDies PROVE Goal
  <2>1. scan' = scan /\ reqs' = <<>> /\ evts' = evts /\ last' = last
    BY <1>8 DEF WorkerDies, workerOnly, ui
  <2>2. A2 = A
    BY <2>1 DEF A, A2
  <2>3. RowsOk(A, last, In(reqs'), In(evts), worker', scan.id, scan.done)
    BY <1>0, <1>00, <2>1, InChannel DEF RowsOk
  <2> QED
    BY <1>0, <2>1, <2>2, <2>3 DEF Goal
<1> QED
  BY <1>1, <1>2, <1>3, <1>4, <1>5, <1>6, <1>7, <1>8, StepKinds

\* What the invariant of the exports says of one of them.
ExportOk(x, n, id, L, R) ==
    /\ x.asked \in 0 .. n
    /\ x.asked = id /\ id # None => x.rows = L /\ \A m \in R : m.kind # "scan"

\* It does not notice what happens to other scans.
LEMMA ExportKept ==
    ASSUME NEW n \in Nat, NEW n2 \in Nat, n <= n2, NEW id, NEW L, NEW R, NEW R2,
           (\E m \in R2 : m.kind = "scan") => \E m \in R : m.kind = "scan",
           NEW x, ExportOk(x, n, id, L, R)
    PROVE  ExportOk(x, n2, id, L, R2)
BY DEF ExportOk

\* Every step keeps it.
LEMMA ExportStep ==
    ASSUME ShapeInv, QueueInv, GuiAssumption, Window, ScanInv, ExportInv
    PROVE  ExportInv'
<1> DEFINE AskedOk(R, n, id) == \A m \in R : m.kind = "export" =>
                                  m.arg \in 0 .. n /\ (m.arg = id => \A o \in R : o.kind = "scan" => o.id < m.id)
           Goal == /\ AskedOk(In(reqs'), issued', scan'.id)
                   /\ \A m \in In(evts') : m.kind = "export" /\ m.ok =>
                        ExportOk(m.value[1], issued', scan'.id, last', In(reqs'))
                   /\ ExportOk(scan'.export, issued', scan'.id, last', In(reqs'))
<1>0. /\ AskedOk(In(reqs), issued, scan.id)
      /\ \A m \in In(evts) : m.kind = "export" /\ m.ok => ExportOk(m.value[1], issued, scan.id, last, In(reqs))
      /\ ExportOk(scan.export, issued, scan.id, last, In(reqs))
  BY DEF ExportInv, Exported, ExportOk, InQueue
<1>00. issued \in Nat /\ Channel(reqs) /\ Channel(evts) /\ scan.id \in Nat /\ scan.id <= issued
       /\ \A m \in In(reqs) : m.kind = "scan" <=> m.id = scan.id
  BY Messages DEF ScanInv
<1>000. "runs" # "scan" /\ "export" \notin Progress /\ NoExport.asked = None /\ None = 0
  BY DEF Progress, NoExport, None
<1> SUFFICES Goal
  BY DEF ExportInv, Exported, ExportOk, InQueue, In
<1> HIDE DEF Goal
<1>1. ASSUME issued' \in Nat, issued <= issued', scan'.id = scan.id, last' = last, AskedOk(In(reqs'), issued', scan.id),
             (\E m \in In(reqs') : m.kind = "scan") => \E m \in In(reqs) : m.kind = "scan",
             \A m \in In(evts') : m.kind = "export" /\ m.ok => m \in In(evts),
             scan'.export = scan.export
      PROVE  Goal
  BY <1>0, <1>00, <1>1, ExportKept DEF Goal
<1>2. ASSUME NEW k, NEW a, Asks(k, a) PROVE Goal
  <2>1. k \in Asked /\ Send(k, a) /\ evts' = evts /\ last' = last
    BY <1>2 DEF Asks
  <2>2. issued' = issued + 1 /\ issued' \in Nat /\ issued <= issued'
    BY <1>00, <2>1, SendAdds
  <2>3. CASE k = "scan"
    <3>1. scan'.id = issued + 1 /\ scan'.export = NoExport
      BY <1>2, <2>3, StartClears
    <3>2. \A m \in In(reqs') : m.kind = "export" => m \in In(reqs)
      BY <2>1, <2>3, SendAdds
    <3>3. \A n \in 0 .. issued : n \in 0 .. issued' /\ n # issued + 1
      BY <1>00, <2>2
    <3>4. AskedOk(In(reqs'), issued', scan'.id)
      BY <1>0, <3>1, <3>2, <3>3
    <3>5. \A x : ExportOk(x, issued, scan.id, last, In(reqs)) => ExportOk(x, issued', scan'.id, last', In(reqs'))
      BY <3>1, <3>3 DEF ExportOk
    <3>6. ExportOk(NoExport, issued', scan'.id, last', In(reqs'))
      <4>1. 0 \in 0 .. issued' /\ issued + 1 # 0
        BY <1>00, <2>2
      <4> QED
        BY <1>000, <3>1, <4>1 DEF ExportOk
    <3> QED
      BY <1>0, <2>1, <3>1, <3>4, <3>5, <3>6 DEF Goal
  <2>4. CASE k # "scan"
    <3>1. scan'.id = scan.id /\ (k # "export" => scan'.export = scan.export)
          /\ (k = "export" => scan'.export = NoExport /\ Send(k, scan.id))
      BY <1>2, <2>4, AskKeepsScan DEF SameScan
    <3>2. (\E m \in In(reqs') : m.kind = "scan") => \E m \in In(reqs) : m.kind = "scan"
      BY <2>1, <2>4, SendAdds
    <3>3. ASSUME NEW b, Send(k, b), k = "export" => b \in 0 .. issued'
          PROVE  AskedOk(In(reqs'), issued', scan.id)
      <4>1. /\ worker.pc = "dead" => reqs' = reqs
            /\ worker.pc # "dead" => \E m : m.kind = k /\ m.id = issued + 1 /\ m.arg = b /\ In(reqs') = In(reqs) \cup {m}
        BY <2>1, <3>3, SendAdds
      <4>2. \A n \in 0 .. issued : n \in 0 .. issued'
        BY <1>00, <2>2
      <4>3. CASE worker.pc = "dead"
        BY <1>0, <4>1, <4>2, <4>3
      <4>4. CASE worker.pc # "dead"
        <5>1. PICK m : m.kind = k /\ m.id = issued + 1 /\ m.arg = b /\ In(reqs') = In(reqs) \cup {m}
          BY <4>1, <4>4
        <5>2. \A o \in In(reqs') : o.kind = "scan" => o \in In(reqs) /\ o.id < issued + 1
          BY <1>00, <2>4, <5>1, Messages
        <5>3. m.kind = "export" => m.arg \in 0 .. issued' /\ \A o \in In(reqs') : o.kind = "scan" => o.id < m.id
          BY <3>3, <5>1, <5>2
        <5>4. ASSUME NEW x \in In(reqs), x.kind = "export"
              PROVE  x.arg \in 0 .. issued' /\ (x.arg = scan.id => \A o \in In(reqs') : o.kind = "scan" => o.id < x.id)
          BY <1>0, <4>2, <5>2, <5>4
        <5> QED
          BY <5>1, <5>3, <5>4
      <4> QED
        BY <4>3, <4>4
    <3> HIDE DEF AskedOk
    <3>4. AskedOk(In(reqs'), issued', scan.id)
      <4>1. CASE k = "export"
        <5>1. scan.id \in 0 .. issued'
          BY <1>00, <2>2
        <5> QED
          BY <3>1, <3>3, <4>1, <5>1
      <4>2. CASE k # "export"
        BY <2>1, <3>3, <4>2
      <4> QED
        BY <4>1, <4>2
    <3>5. CASE k # "export"
      BY <1>1, <2>1, <2>2, <3>1, <3>2, <3>4, <3>5
    <3>6. CASE k = "export"
      <4>1. ExportOk(NoExport, issued', scan.id, last, In(reqs'))
        <5>1. 0 \in 0 .. issued'
          BY <2>2
        <5> QED
          BY <1>000, <5>1 DEF ExportOk
      <4>2. \A x : ExportOk(x, issued, scan.id, last, In(reqs)) => ExportOk(x, issued', scan.id, last, In(reqs'))
        BY <1>00, <2>2, <3>2, ExportKept
      <4> QED
        BY <1>0, <2>1, <3>1, <3>4, <3>6, <4>1, <4>2 DEF Goal
    <3> QED
      BY <3>5, <3>6
  <2> QED
    BY <2>3, <2>4
<1>3. ASSUME NEW e, Answers(e) PROVE Goal
  <2>1. scan' = scan /\ last' = last /\ evts' = Append(evts, e)
    BY <1>3 DEF Answers, Emit, workerOnly, ui
  <2>2. PICK h : /\ h = Head(reqs) /\ In(reqs) = In(reqs') \cup {h} /\ e.kind = h.kind /\ e.id = h.id
                 /\ \A o \in In(reqs') : h.id < o.id
    BY <1>3, AnswersMove
  <2>3. issued' = issued /\ In(evts') = In(evts) \cup {e}
    BY <1>3, AnswersMove
  <2>4. AskedOk(In(reqs'), issued', scan'.id)
    BY <1>0, <2>1, <2>2, <2>3
  <2>5. (\E m \in In(reqs') : m.kind = "scan") => \E m \in In(reqs) : m.kind = "scan"
    BY <2>2
  <2>6. ASSUME e.kind = "export", e.ok PROVE ExportOk(e.value[1], issued, scan.id, last, In(reqs'))
    <3>1. ExportReport
      BY <1>3, <2>6, ApartKinds DEF Answers, ScanAndDelta
    <3> DEFINE v == [asked |-> h.arg, rows |-> last]
    <3>2. v.asked = h.arg /\ v.rows = last
      OBVIOUS
    <3> HIDE DEF v
    <3>3. evts' = Append(evts, Err("export")) \/ evts' = Append(evts, Ok("export", v))
      BY <2>2, <3>1 DEF ExportReport, Emit, Req, v
    <3>4. \A x, y : Append(evts, x) = Append(evts, y) => x = y
      BY <1>00, ChannelAppend
    <3>5. e = Err("export") \/ e = Ok("export", v)
      BY <2>1, <3>3, <3>4
    <3>6. ~ Err("export").ok /\ Ok("export", v).value[1] = v
      BY DEF Err, Ok
    <3>7. e.value[1] = v
      BY <2>6, <3>5, <3>6
    <3>8. h \in In(reqs) /\ h.kind = "export" /\ h.id \in Nat
      BY <2>2, <2>6, Messages
    <3>9. h.arg \in 0 .. issued /\ (h.arg = scan.id => \A o \in In(reqs) : o.kind = "scan" => o.id < h.id)
      BY <1>0, <3>8
    <3>10. h.arg = scan.id => \A o \in In(reqs') : o.kind # "scan"
      <4>1. \A o \in In(reqs') : o \in In(reqs) /\ h.id < o.id /\ o.id \in Nat
        BY <2>2, Messages
      <4>2. \A o \in In(reqs') : ~ (o.id < h.id)
        BY <3>8, <4>1
      <4> QED
        BY <3>9, <4>1, <4>2
    <3> QED
      BY <3>2, <3>7, <3>9, <3>10 DEF ExportOk
  <2>7. \A x : ExportOk(x, issued, scan.id, last, In(reqs)) => ExportOk(x, issued, scan.id, last, In(reqs'))
    BY <1>00, <2>5, ExportKept
  <2> QED
    BY <1>0, <2>1, <2>3, <2>4, <2>6, <2>7 DEF Goal
<1>4. ASSUME NEW e, Tells(e) PROVE Goal
  <2>1. scan' = scan /\ last' = last
    BY <1>4 DEF Tells, workerOnly, ui
  <2>2. issued' = issued /\ reqs' = reqs /\ In(evts') = In(evts) \cup {e} /\ e.kind # "export"
    BY <1>000, <1>4, TellsAdd
  <2>3. AskedOk(In(reqs'), issued', scan.id)
    BY <1>0, <2>2
  <2> QED
    BY <1>0, <2>1, <2>2, <2>3 DEF Goal
<1>5. ASSUME Sees PROVE Goal
  <2>1. PICK h : h = Head(evts) /\ In(evts) = In(evts') \cup {h}
    BY <1>5, SeesTakes
  <2>2. \/ issued' = issued /\ reqs' = reqs
        \/ /\ issued' = issued + 1
           /\ \E m : m.kind = "runs" /\ m.id = issued + 1 /\ In(reqs') = In(reqs) \cup {m}
    BY <1>5, SeesTakes
  <2>3. /\ scan'.id = scan.id /\ last' = last
        /\ scan'.export = IF h.kind = "export" THEN IF h.ok THEN h.value[1] ELSE NoExport ELSE scan.export
    BY <1>5, <2>1, SeenScan
  <2>4. issued' \in Nat /\ issued <= issued' /\ \A n \in 0 .. issued : n \in 0 .. issued'
    BY <1>00, <2>2
  <2>5. /\ \A m \in In(reqs') : m.kind # "runs" => m \in In(reqs)
        /\ (\E m \in In(reqs') : m.kind = "scan") => \E m \in In(reqs) : m.kind = "scan"
    BY <2>2
  <2>6. AskedOk(In(reqs'), issued', scan'.id)
    BY <1>0, <2>3, <2>4, <2>5
  <2>7. \A x : ExportOk(x, issued, scan.id, last, In(reqs)) => ExportOk(x, issued', scan'.id, last', In(reqs'))
    BY <1>00, <2>3, <2>4, <2>5, ExportKept
  <2>8. ExportOk(NoExport, issued, scan.id, last, In(reqs))
    <3>1. 0 \in 0 .. issued
      BY <1>00
    <3> QED
      BY <1>000, <3>1 DEF ExportOk
  <2>9. ExportOk(scan'.export, issued, scan.id, last, In(reqs))
    BY <1>0, <2>1, <2>3, <2>8
  <2> QED
    BY <1>0, <2>1, <2>6, <2>7, <2>9 DEF Goal
<1>6. ASSUME Quiet \/ StartWorker \/ WorkerDies PROVE Goal
  <2>1. issued' = issued /\ evts' = evts /\ last' = last /\ (reqs' = reqs \/ reqs' = <<>>)
    BY <1>6 DEF Quiet, StartWorker, WorkerDies, workerOnly
  <2>2. scan'.id = scan.id /\ scan'.export = scan.export
    <3>1. CASE Quiet
      BY <3>1, QuietKeepsScan DEF ShapeInv
    <3>2. CASE StartWorker \/ WorkerDies
      BY <3>2 DEF StartWorker, WorkerDies, workerOnly, ui
    <3> QED
      BY <1>6, <3>1, <3>2
  <2>3. In(reqs') \subseteq In(reqs)
    BY <1>00, <2>1, InChannel
  <2>4. AskedOk(In(reqs'), issued', scan.id)
    BY <1>0, <2>1, <2>3
  <2>5. issued' \in Nat /\ issued <= issued'
    BY <1>00, <2>1
  <2> HIDE DEF AskedOk
  <2> QED
    BY <1>1, <2>1, <2>2, <2>3, <2>4, <2>5
<1>7. ASSUME ScanDone PROVE Goal
  <2>1. scan' = scan
    BY <1>7 DEF ScanDone, workerOnly, ui
  <2>2. issued' = issued /\ \E h : h = Head(reqs) /\ In(reqs) = In(reqs') \cup {h} /\ h.kind = "scan"
    BY <1>7, ScanDoneMoves
  <2>3. \A m \in In(evts') : m.kind = "export" => m \in In(evts)
    <3>1. PICK r, e : In(evts') = In(evts) \cup {r, e} /\ r.kind = "risks" /\ e.kind = "scan"
      BY <1>7, ScanDoneMoves
    <3> QED
      BY <3>1
  <2>4. AskedOk(In(reqs'), issued', scan'.id)
    BY <1>0, <2>1, <2>2
  <2>5. \A x : ExportOk(x, issued, scan.id, last, In(reqs)) => ExportOk(x, issued', scan'.id, last', In(reqs'))
    BY <2>1, <2>2 DEF ExportOk
  <2> QED
    BY <1>0, <2>1, <2>3, <2>4, <2>5 DEF Goal
<1> QED
  BY <1>2, <1>3, <1>4, <1>5, <1>6, <1>7, StepKinds

\* The invariants of a scan, of its rows and of the exports hold in every reachable state.
LEMMA ScanAlways == Spec => [](ScanInv /\ RowsInv /\ ExportInv)
<1>1. Init => ScanInv /\ RowsInv /\ ExportInv
  <2> SUFFICES ASSUME Init PROVE ScanInv /\ RowsInv /\ ExportInv
    OBVIOUS
  <2>1. /\ evts = <<>> /\ In(evts) = {} /\ In(reqs) = {Preload} /\ issued = 1 /\ last = <<>>
    BY DEF Init, In
  <2>2. Preload.kind = "identities" /\ Preload.id = 1
    BY DEF Preload
  <2>3. worker.id = None /\ worker.pc = "start"
    BY DEF Init, Idle
  <2>4. /\ scan.id = None /\ ~ scan.done /\ scan.rows = <<>> /\ scan.risks = None /\ scan.export = NoExport
    BY DEF Init
  <2>5. ScanInv
    BY <2>1, <2>2, <2>3, <2>4 DEF ScanInv, InQueue, InFlight, SummaryLast, None
  <2>6. Channel(<<>>) /\ In(<<>>) = {}
    BY OfEmpty, InChannel
  <2>7. Arriving = <<>>
    BY <2>1, <2>4, <2>6, ArrivedIs DEF Arriving
  <2>8. RowsInv
    BY <2>1, <2>2, <2>4, <2>6, <2>7 DEF RowsInv, InQueue, InFlight
  <2>9. ExportInv
    BY <2>1, <2>2, <2>4 DEF ExportInv, Exported, NoExport, None
  <2> QED
    BY <2>5, <2>8, <2>9
<1>2. (ShapeInv /\ QueueInv /\ BoundInv) /\ (ScanInv /\ RowsInv /\ ExportInv) /\ [Next]_vars
        => (ScanInv /\ RowsInv /\ ExportInv)'
  <2> SUFFICES ASSUME ShapeInv, QueueInv, BoundInv, ScanInv, RowsInv, ExportInv, [Next]_vars
               PROVE  (ScanInv /\ RowsInv /\ ExportInv)'
    OBVIOUS
  <2>1. CASE Window
    BY <2>1, ScanStep, RowsStep, ExportStep, GuiAssumption
  <2>2. CASE UNCHANGED vars \/ OtherWindow
    <3>1. UNCHANGED <<issued, reqs, evts, worker, last, scan>>
      BY <2>2, OtherKeeps DEF vars, ui
    <3>2. ScanInv'
      BY <3>1 DEF ScanInv, InQueue, InFlight
    <3>3. RowsInv'
      BY <3>1 DEF RowsInv, InQueue, InFlight, Arriving
    <3>4. ExportInv'
      BY <3>1 DEF ExportInv, Exported, InQueue
    <3> QED
      BY <3>2, <3>3, <3>4
  <2> QED
    BY <2>1, <2>2 DEF Next
<1> QED
  BY <1>1, <1>2, CoreAlways, PTL DEF Spec

\* Once a scan is done all its rows are on screen, and the worker remembers the same.
LEMMA DoneRows ==
    ASSUME QueueInv, ScanInv, RowsInv, scan.done
    PROVE  scan.rows = last /\ scan.id # None
<1>1. \A m \in In(evts) : m.kind # "scan item"
  BY DEF ScanInv, Scanning, Progress
<1>2. Arriving = scan.rows
  BY <1>1, Messages, ArrivedIs DEF RowsInv, Arriving
<1> QED
  BY <1>2 DEF RowsInv, ScanInv

\* Every row and finding in the Scan tab belongs to the scan started last, also while events of
\* an earlier one are on their way, and a report exported for the scan on screen holds exactly
\* its rows (handle_item, handle_risk_findings, LastScan, export_report).
THEOREM RowsAreOfThisScanAlways == Spec => []RowsAreOfThisScan
<1>1. QueueInv /\ ScanInv /\ RowsInv /\ ExportInv => RowsAreOfThisScan
  <2> SUFFICES ASSUME QueueInv, ScanInv, RowsInv, ExportInv PROVE RowsAreOfThisScan
    OBVIOUS
  <2>1. \A i \in DOMAIN scan.rows : scan.rows[i] \in In(Arriving)
    BY Messages, ArrivedIs DEF RowsInv, Arriving
  <2>2. \A i \in DOMAIN scan.rows : scan.rows[i].sig.effective_mask = scan.id
    BY <2>1 DEF RowsInv
  <2>3. scan.risks \in {None, scan.id}
    BY DEF RowsInv
  <2>4. scan.export.asked = scan.id /\ scan.done => scan.export.rows = scan.rows
    BY DoneRows DEF ExportInv, Exported
  <2> QED
    BY <2>2, <2>3, <2>4 DEF RowsAreOfThisScan
<1> QED
  BY <1>1, CoreAlways, ScanAlways, PTL

----------------------------------------------------------------------------
(* What is shown of a finished scan is what the history holds of it.       *)

\* The history S2 is the history S and one more run.
WithRun(S2, S, run, target, rows, cancelled) ==
    S2 = [r \in DOMAIN S \cup {run} |->
            IF r = run THEN [target |-> target, rows |-> rows, partial |-> cancelled] ELSE S[r]]

\* A run that is stored is new.
LEMMA PersistAdds ==
    ASSUME QueueInv, BoundInv, ShapeInv, reqs # <<>>, NEW target, NEW rows, NEW cancelled, NEW run,
           \/ run = None /\ store' = store
           \/ /\ run = Head(reqs).id
              /\ WithRun(store', store, run, target, rows, cancelled)
    PROVE  \/ run = None /\ store' = store
           \/ /\ run = Head(reqs).id /\ run \in Nat /\ run # None /\ run <= issued /\ run <= MaxId
              /\ DOMAIN store' = DOMAIN store \cup {run}
              /\ store'[run].rows = rows /\ store'[run].partial = cancelled
              /\ \A r \in DOMAIN store : r # run => store'[r] = store[r]
<1>1. CASE run = None /\ store' = store
  BY <1>1
<1>2. CASE run = Head(reqs).id /\ WithRun(store', store, run, target, rows, cancelled)
  <2>1. run = Head(reqs).id /\ run \in Nat /\ run # None /\ run <= issued
    <3>1. run = Head(reqs).id
      BY <1>2
    <3>2. Head(reqs) \in In(reqs)
      BY Messages
    <3>3. Head(reqs).id \in Nat /\ Head(reqs).id <= issued /\ Head(reqs).id # 0
      BY <3>2, Messages
    <3> QED
      BY <3>1, <3>3 DEF None
  <2>2. issued \in Nat /\ MaxId \in Nat /\ issued <= MaxId
    <3>1. TypeOK
      BY CoreType
    <3>2. issued \in 1 .. MaxId /\ MaxId \in Nat
      BY <3>1, GuiAssumption DEF TypeOK, GuiAssumption, MaxId
    <3> QED
      BY <3>2
  <2>3. run <= MaxId
    BY <2>1, <2>2
  <2>5. DOMAIN store' = DOMAIN store \cup {run} /\ store'[run] = [target |-> target, rows |-> rows, partial |-> cancelled]
        /\ \A r \in DOMAIN store : r # run => store'[r] = store[r]
    BY <1>2 DEF WithRun
  <2>6. store'[run].rows = rows /\ store'[run].partial = cancelled
    BY <2>5
  <2> QED
    BY <2>1, <2>3, <2>5, <2>6
<1> QED
  BY <1>1, <1>2

\* What an answer does to the history.
LEMMA AnswersStore ==
    ASSUME QueueInv, BoundInv, ShapeInv, GuiAssumption, NEW e, Answers(e)
    PROVE  \/ store' = store
           \/ /\ Head(reqs).kind = "delete" /\ e.ok /\ e.value = <<Head(reqs).arg>>
              /\ DOMAIN store' = DOMAIN store \ {Head(reqs).arg} /\ \A r \in DOMAIN store' : store'[r] = store[r]
           \/ /\ Head(reqs).kind = "analyze" /\ Head(reqs).id \in Nat /\ Head(reqs).id # None
              /\ Head(reqs).id <= issued /\ Head(reqs).id <= MaxId
              /\ DOMAIN store' = DOMAIN store \cup {Head(reqs).id}
              /\ \A r \in DOMAIN store : r # Head(reqs).id => store'[r] = store[r]
<1>1. reqs # <<>> /\ e.kind = Head(reqs).kind
  BY DEF Answers, Req
<1>2. CASE Analyze /\ e.kind = "analyze"
  <2>0. PICK rows, run : rows = RowsOf(Req.id, 1) /\ run = Head(reqs).id
    OBVIOUS
  <2>1. CASE store' = store
    BY <2>1
  <2>2. CASE store' # store
    <3>1. PICK n : Persisted("path", RowsOf(Req.id, 1), FALSE, n)
      BY <1>2, <2>2 DEF Analyze
    <3>2. store' = persist_scan(Req.id, "path", RowsOf(Req.id, 1), FALSE)
      BY <2>2, <3>1 DEF Persisted
    <3>3. store' = persist_scan(run, "path", rows, FALSE)
      BY <2>0, <3>2 DEF Req
    <3>4. WithRun(store', store, run, "path", rows, FALSE)
      BY <3>3 DEF persist_scan, WithRun
    <3>5. /\ run \in Nat /\ run # None /\ run <= issued /\ run <= MaxId
          /\ DOMAIN store' = DOMAIN store \cup {run}
          /\ \A r \in DOMAIN store : r # run => store'[r] = store[r]
      BY <1>1, <2>0, <2>2, <3>4, PersistAdds
    <3> QED
      BY <1>1, <1>2, <2>0, <3>5
  <2> QED
    BY <2>1, <2>2
<1>3. CASE DeleteScanRun /\ e.kind = "delete"
  <2>1. CASE store' = store
    BY <2>1
  <2>2. CASE store' = [r \in DOMAIN store \ {Req.arg} |-> store[r]] /\ Emit(Ok("delete", Req.arg))
    <3>1. evts' = Append(evts, Ok("delete", Req.arg)) /\ evts' = Append(evts, e) /\ Channel(evts)
      BY <2>2, Messages DEF Emit, Answers
    <3>2. e = Ok("delete", Req.arg)
      BY <3>1, ChannelAppend
    <3>3. e.ok /\ e.value = <<Head(reqs).arg>>
      BY <3>2 DEF Ok, Req
    <3> QED
      BY <1>1, <1>3, <2>2, <3>3 DEF Req
  <2> QED
    BY <1>3, <2>1, <2>2 DEF DeleteScanRun
<1>4. CASE \/ Answer \/ ExportReport \/ ListRuns \/ ListRunErrors \/ CompareTargets \/ CompareRows
  BY <1>4 DEF Answer, ExportReport, ListRuns, ListRunErrors, CompareTargets, CompareRows, sqlite
<1> QED
  BY <1>2, <1>3, <1>4 DEF Answers

\* The invariant of the history, said of its runs D, and of a scan that was stored as run.
StoreOk(D, n, R) ==
    /\ D \subseteq Nat \ {None}
    /\ \A r \in D : r > MaxId \/ (r <= n /\ \A m \in R : r < m.id)
RunOk(run, cancelled, id, S, L) ==
    /\ run \in {None, id}
    /\ run \in DOMAIN S => S[run].rows = L /\ S[run].partial = cancelled

\* It holds on while runs of other numbers come and go.
LEMMA RunKept ==
    ASSUME NEW run, NEW cancelled, NEW id, NEW S, NEW S2, NEW L, RunOk(run, cancelled, id, S, L),
           None \notin DOMAIN S2, id \in DOMAIN S2 => id \in DOMAIN S /\ S2[id] = S[id]
    PROVE  RunOk(run, cancelled, id, S2, L)
BY DEF RunOk

\* Every step keeps it.
LEMMA StoredStep ==
    ASSUME ShapeInv, QueueInv, BoundInv, GuiAssumption, Window, ScanInv, RowsInv, StoredInv
    PROVE  StoredInv'
<1> DEFINE Goal == /\ StoreOk(DOMAIN store', issued', In(reqs'))
                   /\ \A m \in In(evts') : m.kind = "scan" =>
                        RunOk(m.value[1].run, m.value[1].cancelled, scan'.id, store', last')
                   /\ scan'.done => /\ RunOk(scan'.run, scan'.cancelled, scan'.id, store', last')
                                    /\ scan'.run = None => scan'.isError
<1>0. /\ StoreOk(DOMAIN store, issued, In(reqs))
      /\ \A m \in In(evts) : m.kind = "scan" => RunOk(m.value[1].run, m.value[1].cancelled, scan.id, store, last)
      /\ scan.done => RunOk(scan.run, scan.cancelled, scan.id, store, last) /\ (scan.run = None => scan.isError)
  BY DEF StoredInv, StoreOk, RunOk, Stored
<1>00. issued \in Nat /\ Channel(reqs) /\ Channel(evts) /\ scan.id \in Nat /\ scan.id <= issued
       /\ \A m \in In(reqs) : m.kind = "scan" <=> m.id = scan.id
  BY Messages DEF ScanInv
<1>000. DOMAIN store \subseteq Nat \ {None} /\ None \notin DOMAIN store
  BY <1>0 DEF StoreOk
<1> SUFFICES Goal
  BY DEF StoredInv, StoreOk, RunOk, Stored, In
<1> HIDE DEF Goal
<1>1. ASSUME NEW k, NEW a, Asks(k, a) PROVE Goal
  <2>1. k \in Asked /\ Send(k, a) /\ evts' = evts /\ last' = last /\ store' = store
    BY <1>1 DEF Asks, sqlite
  <2>2. /\ issued' = issued + 1
        /\ worker.pc = "dead" => reqs' = reqs
        /\ worker.pc # "dead" => \E m : m.id = issued + 1 /\ In(reqs') = In(reqs) \cup {m}
    BY <2>1, SendAdds
  <2>3. StoreOk(DOMAIN store', issued', In(reqs'))
    BY <1>0, <1>00, <2>1, <2>2 DEF StoreOk
  <2>4. CASE k = "scan"
    <3>1. ~ scan.running /\ ~ scan'.done
      BY <1>1, <2>4, StartClears
    <3>2. \A m \in In(evts) : m.kind # "scan"
      BY <3>1, NoScan DEF Scanning
    <3> QED
      BY <2>1, <2>3, <3>1, <3>2 DEF Goal
  <2>5. CASE k # "scan"
    <3>1. SameScan
      BY <1>1, <2>5, AskKeepsScan
    <3> QED
      BY <1>0, <2>1, <2>3, <3>1 DEF Goal, SameScan
  <2> QED
    BY <2>4, <2>5
<1>2. ASSUME NEW e, Answers(e) PROVE Goal
  <2>1. scan' = scan /\ last' = last
    BY <1>2 DEF Answers, workerOnly, ui
  <2>2. PICK h : h = Head(reqs) /\ In(reqs) = In(reqs') \cup {h} /\ e.kind = h.kind /\ \A o \in In(reqs') : h.id < o.id
    BY <1>2, AnswersMove
  <2>3. issued' = issued /\ In(evts') = In(evts) \cup {e} /\ e.kind # "scan"
    BY <1>2, AnswersMove
  <2>4. h.id # scan.id
    BY <1>00, <2>2, <2>3
  <2>5. /\ DOMAIN store' \subseteq DOMAIN store \cup {h.id}
        /\ h.id \notin DOMAIN store' \/ h.id \in DOMAIN store \/ (h.id \in Nat /\ h.id # None /\ h.id <= issued)
        /\ \A r \in DOMAIN store' : r # h.id => r \in DOMAIN store /\ store'[r] = store[r]
    BY <1>2, <2>2, AnswersStore
  <2>6. StoreOk(DOMAIN store', issued', In(reqs'))
    <3>1. ASSUME NEW r \in DOMAIN store'
          PROVE  r \in Nat \ {None} /\ (r > MaxId \/ (r <= issued /\ \A m \in In(reqs') : r < m.id))
      <4>1. CASE r \in DOMAIN store
        BY <1>0, <2>2, <4>1 DEF StoreOk
      <4>2. CASE r \notin DOMAIN store
        BY <2>2, <2>5, <4>2
      <4> QED
        BY <4>1, <4>2
    <3> QED
      BY <2>3, <3>1 DEF StoreOk
  <2>7. None \notin DOMAIN store' /\ (scan.id \in DOMAIN store' => scan.id \in DOMAIN store /\ store'[scan.id] = store[scan.id])
    BY <2>4, <2>5, <2>6 DEF StoreOk
  <2>8. \A run, c : RunOk(run, c, scan.id, store, last) => RunOk(run, c, scan.id, store', last)
    BY <2>7, RunKept
  <2> QED
    BY <1>0, <2>1, <2>3, <2>6, <2>8 DEF Goal
<1>3. ASSUME NEW e, Tells(e) PROVE Goal
  <2>1. scan' = scan /\ last' = last /\ store' = store
    BY <1>3 DEF Tells, workerOnly, ui, sqlite
  <2>2. issued' = issued /\ reqs' = reqs /\ In(evts') = In(evts) \cup {e} /\ e.kind # "scan"
    BY <1>3, TellsAdd DEF Progress
  <2> QED
    BY <1>0, <2>1, <2>2 DEF Goal
<1>4. ASSUME Sees PROVE Goal
  <2>1. PICK h : h = Head(evts) /\ In(evts) = In(evts') \cup {h}
    BY <1>4, SeesTakes
  <2>2. \/ issued' = issued /\ reqs' = reqs
        \/ issued' = issued + 1 /\ \E m : m.id = issued + 1 /\ In(reqs') = In(reqs) \cup {m}
    BY <1>4, SeesTakes
  <2>3. scan'.id = scan.id /\ last' = last /\ store' = store
    BY <1>4, SeenScan
  <2>4. StoreOk(DOMAIN store', issued', In(reqs'))
    BY <1>0, <1>00, <2>2, <2>3 DEF StoreOk
  <2>5. CASE h.kind # "scan"
    <3>1. scan'.done = scan.done /\ scan'.run = scan.run /\ scan'.cancelled = scan.cancelled /\ scan'.isError = scan.isError
      BY <1>4, <2>1, <2>5, SeenScan
    <3> QED
      BY <1>0, <2>1, <2>3, <2>4, <3>1 DEF Goal
  <2>6. CASE h.kind = "scan"
    <3>1. scan'.run = h.value[1].run /\ scan'.cancelled = h.value[1].cancelled /\ (h.value[1].run = None => scan'.isError)
      BY <1>4, <2>1, <2>6, SeenScan
    <3> QED
      BY <1>0, <2>1, <2>3, <2>4, <2>6, <3>1 DEF Goal
  <2> QED
    BY <2>5, <2>6
<1>5. ASSUME Quiet PROVE Goal
  <2>1. UNCHANGED <<issued, reqs, evts, last, store>>
    BY <1>5 DEF Quiet, sqlite
  <2>2. scan'.id = scan.id /\ scan'.run = scan.run /\ scan'.done = scan.done /\ scan'.cancelled = scan.cancelled
        /\ scan'.isError = scan.isError
    BY <1>5, QuietKeepsScan DEF ShapeInv
  <2> QED
    BY <1>0, <2>1, <2>2 DEF Goal
<1>6. ASSUME ScanDone PROVE Goal
  <2>1. scan' = scan /\ last' = worker.rows
    BY <1>6 DEF ScanDone, Keep, workerOnly, ui
  <2>2. issued' = issued /\ worker.pc = "rows"
    BY <1>6, ScanDoneMoves
  <2>3. PICK h : /\ h = Head(reqs) /\ In(reqs) = In(reqs') \cup {h} /\ h.kind = "scan"
                 /\ \A o \in In(reqs') : h.id < o.id
    BY <1>6, ScanDoneMoves
  <2>4. PICK r, e : \E run \in {None, worker.id} :
                /\ In(evts') = In(evts) \cup {r, e} /\ r.kind = "risks" /\ e.kind = "scan"
                /\ e.value = <<[run |-> run, cancelled |-> worker.cancelled, errors |-> worker.errors]>>
                /\ Persisted("root", worker.rows, worker.cancelled, run)
    BY <1>6, ScanDoneMoves
  <2>5. PICK run \in {None, worker.id} :
                /\ In(evts') = In(evts) \cup {r, e} /\ r.kind = "risks" /\ e.kind = "scan"
                /\ e.value = <<[run |-> run, cancelled |-> worker.cancelled, errors |-> worker.errors]>>
                /\ Persisted("root", worker.rows, worker.cancelled, run)
    BY <2>4
  <2>6. e.value[1].run = run /\ e.value[1].cancelled = worker.cancelled
    BY <2>5
  <2>7. h.id = scan.id /\ scan.running /\ ~ scan.done /\ \A m \in In(evts) : m.kind # "scan"
    BY <1>00, <2>3 DEF ScanInv, InQueue, InFlight
  <2>8. reqs # <<>>
    BY <2>2 DEF QueueInv
  <2>9. \/ run = None /\ store' = store
        \/ /\ run = h.id /\ run \in Nat /\ run # None /\ run <= issued
           /\ DOMAIN store' = DOMAIN store \cup {run}
           /\ store'[run].rows = worker.rows /\ store'[run].partial = worker.cancelled
    <3>1. Persisted("root", worker.rows, worker.cancelled, run)
      BY <2>5
    <3>2. \/ run = None /\ store' = store
          \/ /\ run = Head(reqs).id /\ run \in Nat /\ run # None /\ run <= issued
             /\ DOMAIN store' = DOMAIN store \cup {run}
             /\ store'[run].rows = worker.rows /\ store'[run].partial = worker.cancelled
      <4>0. PICK rows, cancelled : rows = worker.rows /\ cancelled = worker.cancelled
        OBVIOUS
      <4>1. \/ run = None /\ store' = store
            \/ run = Head(reqs).id /\ store' = persist_scan(run, "root", rows, cancelled)
        BY <3>1, <4>0 DEF Persisted, Req
      <4>2. \/ run = None /\ store' = store
            \/ run = Head(reqs).id /\ WithRun(store', store, run, "root", rows, cancelled)
        BY <4>1 DEF persist_scan, WithRun
      <4>3. \/ run = None /\ store' = store
            \/ /\ run = Head(reqs).id /\ run \in Nat /\ run # None /\ run <= issued /\ run <= MaxId
               /\ DOMAIN store' = DOMAIN store \cup {run}
               /\ store'[run].rows = rows /\ store'[run].partial = cancelled
               /\ \A x \in DOMAIN store : x # run => store'[x] = store[x]
        BY <2>8, <4>2, PersistAdds, Zenon
      <4> QED
        BY <4>0, <4>3
    <3> QED
      BY <2>3, <3>2
  <2>10. StoreOk(DOMAIN store', issued', In(reqs'))
    <3>1. ASSUME NEW x \in DOMAIN store'
          PROVE  x \in Nat \ {None} /\ (x > MaxId \/ (x <= issued /\ \A m \in In(reqs') : x < m.id))
      <4>1. CASE x \in DOMAIN store
        BY <1>0, <2>3, <4>1 DEF StoreOk
      <4>2. CASE x \notin DOMAIN store
        BY <2>3, <2>9, <4>2
      <4> QED
        BY <4>1, <4>2
    <3> QED
      BY <2>2, <3>1 DEF StoreOk
  <2>11. RunOk(run, worker.cancelled, scan.id, store', worker.rows)
    BY <1>000, <2>7, <2>9 DEF RunOk
  <2>12. \A m \in In(evts') : m.kind = "scan" => m = e
    BY <2>5, <2>7
  <2> QED
    BY <2>1, <2>6, <2>7, <2>10, <2>11, <2>12 DEF Goal
<1>7. ASSUME StartWorker \/ WorkerDies PROVE Goal
  <2>1. scan' = scan /\ evts' = evts /\ issued' = issued /\ last' = last /\ store' = store
        /\ (reqs' = reqs \/ reqs' = <<>>)
    BY <1>7 DEF StartWorker, WorkerDies, workerOnly, ui, sqlite
  <2>2. In(reqs') \subseteq In(reqs)
    BY <1>00, <2>1, InChannel
  <2>3. StoreOk(DOMAIN store', issued', In(reqs'))
    BY <1>0, <2>1, <2>2 DEF StoreOk
  <2> QED
    BY <1>0, <2>1, <2>3 DEF Goal
<1> QED
  BY <1>1, <1>2, <1>3, <1>4, <1>5, <1>6, <1>7, StepKinds

\* A run the second window deletes only goes.
LEMMA OtherKeepsStored ==
    ASSUME StoredInv, OtherWindow
    PROVE  StoredInv'
<1>1. DOMAIN store' \subseteq DOMAIN store /\ \A q \in DOMAIN store' : store'[q] = store[q]
  BY OtherDeletes
<1>2. UNCHANGED <<issued, reqs, evts, last, scan>>
  BY OtherKeeps
<1>3. ASSUME NEW run, NEW cancelled, Stored(run, cancelled) PROVE Stored(run, cancelled)'
  BY <1>1, <1>2, <1>3 DEF Stored
<1> QED
  BY <1>1, <1>2, <1>3 DEF StoredInv

\* The invariant of the history holds in every reachable state.
LEMMA StoredAlways == Spec => []StoredInv
<1>1. Init => StoredInv
  <2> SUFFICES ASSUME Init PROVE StoredInv
    OBVIOUS
  <2>1. In(evts) = {} /\ ~ scan.done /\ DOMAIN store = StoredRuns
    BY DEF Init, In
  <2>2. StoredRuns \subseteq Nat /\ (\A r \in StoredRuns : r > MaxId) /\ MaxId \in Nat
    BY GuiAssumption DEF GuiAssumption, MaxId
  <2>3. \A r \in StoredRuns : r # 0
    BY <2>2
  <2> QED
    BY <2>1, <2>2, <2>3 DEF StoredInv, None
<1>2. (ShapeInv /\ QueueInv /\ BoundInv) /\ (ScanInv /\ RowsInv /\ ExportInv) /\ StoredInv /\ [Next]_vars => StoredInv'
  <2> SUFFICES ASSUME ShapeInv, QueueInv, BoundInv, ScanInv, RowsInv, StoredInv, [Next]_vars PROVE StoredInv'
    OBVIOUS
  <2>1. CASE Window
    BY <2>1, StoredStep, GuiAssumption
  <2>2. CASE UNCHANGED vars
    <3>1. UNCHANGED <<issued, reqs, evts, last, scan, store>>
      BY <2>2 DEF vars, ui, sqlite
    <3> QED
      BY <3>1 DEF StoredInv, Stored
  <2>3. CASE OtherWindow
    BY <2>3, OtherKeepsStored, GuiAssumption
  <2> QED
    BY <2>1, <2>2, <2>3 DEF Next
<1> QED
  BY <1>1, <1>2, CoreAlways, ScanAlways, PTL DEF Spec

\* What the Scan tab shows of a finished scan is what the history holds of it, row by row, with
\* the note that it is partial exactly if the tab says it was cancelled; a scan that could not
\* be stored is shown as an error (handle_scan, persist_scan, handle_done).
THEOREM ShownScanIsStoredAlways == Spec => []ShownScanIsStored
<1>1. QueueInv /\ ScanInv /\ RowsInv /\ StoredInv => ShownScanIsStored
  BY DoneRows DEF StoredInv, Stored, ShownScanIsStored
<1> QED
  BY <1>1, CoreAlways, ScanAlways, StoredAlways, PTL

----------------------------------------------------------------------------
(* One token serves every scan.                                            *)

\* The invariant of the token, said of the worker w and the note a Cancel made.
CutOk(cancelled, rows, errors, clicked) ==
    /\ cancelled => clicked # "no"
    /\ clicked = "early" => cancelled \/ (rows = <<>> /\ errors = 1)
WorkerOk(w, clicked) ==
    /\ w.pc = "scan" /\ clicked = "early" => w.found = 0
    /\ w.pc \in {"start", "recv", "scan"} => w.rows = <<>> /\ w.errors = 0 /\ ~ w.cancelled
    /\ w.pc = "rows" => /\ CutOk(w.cancelled, w.rows, w.errors, clicked)
                        /\ clicked = "early" => Len(w.rows) + w.errors = w.found

\* Every step keeps it.
LEMMA CancelStep ==
    ASSUME ShapeInv, QueueInv, BoundInv, GuiAssumption, Window, ScanInv, CancelInv
    PROVE  CancelInv'
<1> DEFINE Goal == /\ cancel' <=> scan'.cancelClicked # "no"
                   /\ WorkerOk(worker', scan'.cancelClicked)
                   /\ \A m \in In(evts') : m.kind = "scan" =>
                        CutOk(m.value[1].cancelled, last', m.value[1].errors, scan'.cancelClicked)
                   /\ scan'.done => CutOk(scan'.cancelled, last', scan'.errors, scan'.cancelClicked)
<1>0. /\ cancel <=> scan.cancelClicked # "no"
      /\ WorkerOk(worker, scan.cancelClicked)
      /\ \A m \in In(evts) : m.kind = "scan" =>
           CutOk(m.value[1].cancelled, last, m.value[1].errors, scan.cancelClicked)
      /\ scan.done => CutOk(scan.cancelled, last, scan.errors, scan.cancelClicked)
  BY DEF CancelInv, CutShort, CutOk, WorkerOk
<1>00. Channel(reqs) /\ Channel(evts) /\ \A m \in In(reqs) : m.kind = "scan" <=> m.id = scan.id
  BY Messages DEF ScanInv
<1> SUFFICES Goal
  BY DEF CancelInv, CutShort, CutOk, WorkerOk, In
<1> HIDE DEF Goal
<1>1. ASSUME NEW k, NEW a, Asks(k, a) PROVE Goal
  <2>1. evts' = evts /\ last' = last /\ worker' = worker
    BY <1>1 DEF Asks
  <2>2. CASE k = "scan"
    <3>1. ~ scan.running /\ ~ scan'.done /\ scan'.cancelClicked = "no" /\ ~ cancel'
      BY <1>1, <2>2, StartClears
    <3>2. (\A m \in In(evts) : m.kind # "scan") /\ worker.pc \notin {"scan", "rows"}
      BY <3>1, NoScan DEF Scanning
    <3>3. WorkerOk(worker', scan'.cancelClicked)
      BY <1>0, <2>1, <3>1, <3>2 DEF WorkerOk
    <3> QED
      BY <2>1, <3>1, <3>2, <3>3 DEF Goal
  <2>3. CASE k # "scan"
    <3>1. SameScan /\ cancel' = cancel
      BY <1>1, <2>3, AskKeepsScan
    <3> QED
      BY <1>0, <2>1, <3>1 DEF Goal, SameScan
  <2> QED
    BY <2>2, <2>3
<1>2. ASSUME NEW e, Answers(e) PROVE Goal
  <2>1. scan' = scan /\ last' = last /\ cancel' = cancel
    BY <1>2 DEF Answers, workerOnly, ui
  <2>2. In(evts') = In(evts) \cup {e} /\ e.kind # "scan" /\ worker'.pc = "notify"
    BY <1>2, AnswersMove DEF Idle
  <2>3. WorkerOk(worker', scan.cancelClicked)
    BY <2>2 DEF WorkerOk
  <2> QED
    BY <1>0, <2>1, <2>2, <2>3 DEF Goal
<1>3. ASSUME NEW e, Tells(e) PROVE Goal
  <2>1. scan' = scan /\ last' = last /\ cancel' = cancel
    BY <1>3 DEF Tells, workerOnly, ui
  <2>2. In(evts') = In(evts) \cup {e} /\ e.kind # "scan" /\ worker'.pc = "rows"
    BY <1>3, TellsAdd DEF Progress
  <2>3. WorkerOk(worker', scan.cancelClicked)
    <3>1. CASE ScanRejected
      <4>1. worker.pc = "scan" /\ worker' = [worker EXCEPT !.pc = "rows", !.errors = 1, !.found = 1]
        BY <3>1 DEF ScanRejected, Mine
      <4>2. worker'.rows = worker.rows /\ worker'.errors = 1 /\ worker'.found = 1 /\ worker'.cancelled = worker.cancelled
        BY <4>1 DEF ShapeInv
      <4>3. worker.rows = <<>> /\ ~ worker.cancelled
        BY <1>0, <4>1 DEF WorkerOk
      <4>4. Len(<<>>) = 0
        OBVIOUS
      <4>5. Len(worker'.rows) + worker'.errors = worker'.found
        BY <4>2, <4>3, <4>4
      <4> QED
        BY <2>2, <4>2, <4>3, <4>5 DEF WorkerOk, CutOk
    <3>2. CASE EvaluateRow
      <4>1. worker.pc = "rows" /\ Len(worker.rows) + worker.errors < worker.found
        BY <3>2 DEF EvaluateRow, Mine, Evaluated
      <4>2. worker'.cancelled = worker.cancelled
        BY <3>2 DEF EvaluateRow, ShapeInv
      <4>3. Len(worker.rows) \in Nat /\ worker.errors \in Nat /\ worker.found \in Nat
        <5>1. Channel(worker.rows) /\ worker.errors \in Nat /\ worker.found \in Nat
          BY DEF BoundInv
        <5> QED
          BY <5>1, ChannelIs
      <4>4. scan.cancelClicked # "early"
        <5>1. Len(worker.rows) + worker.errors # worker.found
          BY <4>1, <4>3
        <5> QED
          BY <1>0, <4>1, <5>1 DEF WorkerOk
      <4>5. worker.cancelled => scan.cancelClicked # "no"
        BY <1>0, <4>1 DEF WorkerOk, CutOk
      <4> QED
        BY <2>2, <4>2, <4>4, <4>5 DEF WorkerOk, CutOk
    <3> QED
      BY <1>3, <3>1, <3>2 DEF Tells
  <2> QED
    BY <1>0, <2>1, <2>2, <2>3 DEF Goal
<1>4. ASSUME Sees PROVE Goal
  <2>1. PICK h : h = Head(evts) /\ In(evts) = In(evts') \cup {h}
    BY <1>4, SeesTakes
  <2>2. worker' = worker /\ last' = last /\ cancel' = cancel /\ scan'.cancelClicked = scan.cancelClicked
    BY <1>4, SeenScan, SeesTakes
  <2>3. scan'.done => CutOk(scan'.cancelled, last, scan'.errors, scan.cancelClicked)
    <3>1. CASE h.kind = "scan"
      <4>1. scan'.cancelled = h.value[1].cancelled /\ scan'.errors = h.value[1].errors
        BY <1>4, <2>1, <3>1, SeenScan
      <4> QED
        BY <1>0, <2>1, <3>1, <4>1
    <3>2. CASE h.kind \in Progress
      <4>1. scan.running
        BY <2>1, <3>2 DEF ScanInv, Scanning
      <4>2. ~ scan.done
        BY <4>1 DEF ScanInv
      <4>3. scan'.done = scan.done
        BY <1>4, <2>1, <3>2, SeenScan DEF Progress
      <4> QED
        BY <4>2, <4>3
    <3>3. CASE h.kind # "scan" /\ h.kind \notin Progress
      <4>1. scan'.done = scan.done /\ scan'.cancelled = scan.cancelled /\ scan'.errors = scan.errors
        BY <1>4, <2>1, <3>3, SeenScan DEF Progress
      <4> QED
        BY <1>0, <4>1
    <3> QED
      BY <3>1, <3>2, <3>3
  <2> QED
    BY <1>0, <2>1, <2>2, <2>3 DEF Goal
<1>5. ASSUME Quiet PROVE Goal
  <2>1. UNCHANGED <<evts, last>>
    BY <1>5 DEF Quiet
  <2>2. CASE /\ worker' = worker /\ cancel' /\ scan.running
             /\ scan' = [scan EXCEPT !.cancelClicked =
                             IF BeforeWalk \/ scan.cancelClicked = "early" THEN "early" ELSE "late"]
    <3>1. /\ scan'.cancelClicked # "no" /\ scan'.done = scan.done
          /\ scan'.cancelClicked = "early" => BeforeWalk \/ scan.cancelClicked = "early"
      BY <2>2 DEF ShapeInv
    <3>2. ~ scan.done
      BY <2>2 DEF ScanInv
    <3>3. BeforeWalk => worker.pc \notin {"scan", "rows"} /\ \A m \in In(evts) : m.kind # "scan"
      <4> SUFFICES ASSUME BeforeWalk PROVE worker.pc \notin {"scan", "rows"} /\ \A m \in In(evts) : m.kind # "scan"
        OBVIOUS
      <4>1. worker.id # scan.id /\ \E m \in In(reqs) : m.id = scan.id
        BY DEF BeforeWalk, In
      <4>2. worker.pc \notin {"scan", "rows"}
        BY <4>1 DEF ScanInv
      <4>3. \A m \in In(evts) : m.kind # "scan"
        BY <1>00, <4>1 DEF ScanInv, InQueue, InFlight
      <4> QED
        BY <4>2, <4>3
    <3>4. WorkerOk(worker, scan'.cancelClicked)
      BY <1>0, <3>1, <3>3 DEF WorkerOk, CutOk
    <3>5. \A m \in In(evts) : m.kind = "scan" =>
            CutOk(m.value[1].cancelled, last, m.value[1].errors, scan'.cancelClicked)
      BY <1>0, <3>1, <3>3 DEF CutOk
    <3> QED
      BY <2>1, <2>2, <3>1, <3>2, <3>4, <3>5 DEF Goal
  <2>3. ASSUME scan' = scan, cancel' = cancel, WorkerOk(worker', scan.cancelClicked) PROVE Goal
    BY <1>0, <2>1, <2>3 DEF Goal
  <2>4. CASE scan' = scan /\ cancel' = cancel /\ worker' = worker
    BY <1>0, <2>3, <2>4
  <2>5. ASSUME worker' = [Idle EXCEPT !.pc = "scan", !.id = Head(reqs).id] PROVE WorkerOk(worker', scan.cancelClicked)
    <3>1. worker'.pc = "scan" /\ worker'.rows = <<>> /\ worker'.errors = 0 /\ worker'.cancelled = FALSE /\ worker'.found = 0
      BY <2>5 DEF Idle
    <3> QED
      BY <3>1 DEF WorkerOk
  <2>6. ASSUME WalkOn PROVE WorkerOk(worker', scan.cancelClicked)
    <3>1. /\ worker.pc = "scan" /\ ~ cancel /\ worker'.pc = worker.pc /\ worker'.rows = worker.rows
          /\ worker'.errors = worker.errors /\ worker'.cancelled = worker.cancelled
      BY <2>6 DEF WalkOn, Mine, ShapeInv
    <3>2. scan.cancelClicked = "no"
      BY <1>0, <3>1
    <3> QED
      BY <1>0, <3>1, <3>2 DEF WorkerOk
  <2>7. ASSUME WalkEnds PROVE WorkerOk(worker', scan.cancelClicked)
    <3>1. /\ worker.pc = "scan" /\ worker'.pc = "rows" /\ worker'.rows = worker.rows
          /\ worker'.errors = worker.errors /\ worker'.cancelled = cancel /\ worker'.found = worker.found
      BY <2>7 DEF WalkEnds, Mine, ShapeInv
    <3>2. worker.rows = <<>> /\ worker.errors = 0 /\ (scan.cancelClicked = "early" => worker.found = 0)
      BY <1>0, <3>1 DEF WorkerOk
    <3>3. Len(<<>>) = 0
      OBVIOUS
    <3>4. CutOk(worker'.cancelled, worker'.rows, worker'.errors, scan.cancelClicked)
      BY <1>0, <3>1 DEF CutOk
    <3>5. scan.cancelClicked = "early" => Len(worker'.rows) + worker'.errors = worker'.found
      BY <3>1, <3>2, <3>3
    <3> QED
      BY <3>1, <3>4, <3>5 DEF WorkerOk
  <2>8. ASSUME worker' = Idle PROVE WorkerOk(worker', scan.cancelClicked)
    <3>1. worker'.pc = "recv" /\ worker'.rows = <<>> /\ worker'.errors = 0 /\ worker'.cancelled = FALSE
      BY <2>8 DEF Idle
    <3> QED
      BY <3>1 DEF WorkerOk
  <2>9. ASSUME worker' = [worker EXCEPT !.pc = "load"] PROVE WorkerOk(worker', scan.cancelClicked)
    <3>1. worker'.pc = "load"
      BY <2>9 DEF ShapeInv
    <3> QED
      BY <3>1 DEF WorkerOk
  <2>10. ASSUME scan' = scan, cancel' = cancel,
                \/ worker' = [Idle EXCEPT !.pc = "scan", !.id = Head(reqs).id]
                \/ WalkOn
                \/ WalkEnds
                \/ worker' = Idle
                \/ worker' = [worker EXCEPT !.pc = "load"]
         PROVE  Goal
    <3>1. WorkerOk(worker', scan.cancelClicked)
      BY <2>5, <2>6, <2>7, <2>8, <2>9, <2>10, Zenon
    <3> QED
      BY <2>3, <2>10, <3>1
  <2> QED
    BY <1>5, <2>2, <2>4, <2>10, QuietKeepsScan, Zenon
<1>6. ASSUME ScanDone PROVE Goal
  <2>1. scan' = scan /\ last' = worker.rows /\ cancel' = cancel
    BY <1>6 DEF ScanDone, Keep, workerOnly, ui
  <2>2. worker.pc = "rows" /\ worker'.pc = "notify"
    BY <1>6, ScanDoneMoves DEF Idle
  <2>3. PICK r, e : \E run \in {None, worker.id} :
                /\ evts' = Append(Append(evts, r), e) /\ In(evts') = In(evts) \cup {r, e}
                /\ r.kind = "risks" /\ e.kind = "scan" /\ r.id = Head(reqs).id /\ e.id = Head(reqs).id
                /\ r.value = <<worker.id>>
                /\ e.value = <<[run |-> run, cancelled |-> worker.cancelled, errors |-> worker.errors]>>
                /\ Persisted("root", worker.rows, worker.cancelled, run)
    BY <1>6, ScanDoneMoves, Zenon
  <2>4. e.value[1].cancelled = worker.cancelled /\ e.value[1].errors = worker.errors
    <3>1. PICK run, c, n : c = worker.cancelled /\ n = worker.errors
                           /\ e.value = <<[run |-> run, cancelled |-> c, errors |-> n]>>
      BY <2>3
    <3>2. e.value[1] = [run |-> run, cancelled |-> c, errors |-> n]
      BY <3>1
    <3>3. e.value[1].cancelled = c /\ e.value[1].errors = n
      BY <3>2
    <3> QED
      BY <3>1, <3>3
  <2>5. ~ scan.done /\ \A m \in In(evts) : m.kind # "scan"
    <3>1. InQueue({"scan"})
      BY <2>2, Messages DEF QueueInv, InQueue
    <3> QED
      BY <3>1 DEF ScanInv, InFlight
  <2>6. CutOk(worker.cancelled, worker.rows, worker.errors, scan.cancelClicked)
    BY <1>0, <2>2 DEF WorkerOk
  <2>7. \A m \in In(evts') : m.kind = "scan" => m = e
    BY <2>3, <2>5
  <2>8. WorkerOk(worker', scan.cancelClicked)
    BY <2>2 DEF WorkerOk
  <2> QED
    BY <1>0, <2>1, <2>4, <2>5, <2>6, <2>7, <2>8 DEF Goal
<1>7. ASSUME StartWorker PROVE Goal
  <2>1. scan' = scan /\ evts' = evts /\ last' = last /\ cancel' = cancel /\ worker' = Idle
    BY <1>7 DEF StartWorker, workerOnly, ui
  <2>2. worker'.pc = "recv" /\ worker'.rows = <<>> /\ worker'.errors = 0 /\ worker'.cancelled = FALSE
    BY <2>1 DEF Idle
  <2>3. WorkerOk(worker', scan.cancelClicked)
    BY <2>2 DEF WorkerOk
  <2> QED
    BY <1>0, <2>1, <2>3 DEF Goal
<1>8. ASSUME WorkerDies PROVE Goal
  <2>1. scan' = scan /\ evts' = evts /\ last' = last /\ cancel' = cancel /\ worker'.pc = "dead"
    BY <1>8 DEF WorkerDies, workerOnly, ui, ShapeInv
  <2>2. WorkerOk(worker', scan.cancelClicked)
    BY <2>1 DEF WorkerOk
  <2> QED
    BY <1>0, <2>1, <2>2 DEF Goal
<1> QED
  BY <1>1, <1>2, <1>3, <1>4, <1>5, <1>6, <1>7, <1>8, StepKinds

\* One token serves every scan of the window, and still a scan is cut short only by a Cancel of
\* its own, and a Cancel while the scan waits in the queue is not lost: Start resets the token
\* only when no earlier scan can read it any more (CancellationToken, walk_tree, handle_scan).
THEOREM CancelIsOfThisScanAlways == Spec => []CancelIsOfThisScan
<1>1. Init => CancelInv
  <2> SUFFICES ASSUME Init PROVE CancelInv
    OBVIOUS
  <2>1. In(evts) = {} /\ ~ scan.done /\ scan.cancelClicked = "no" /\ ~ cancel
    BY DEF Init, In
  <2>2. worker.pc = "start" /\ worker.rows = <<>> /\ worker.errors = 0 /\ worker.cancelled = FALSE
    BY DEF Init, Idle
  <2> QED
    BY <2>1, <2>2 DEF CancelInv
<1>2. (ShapeInv /\ QueueInv /\ BoundInv) /\ (ScanInv /\ RowsInv /\ ExportInv) /\ CancelInv /\ [Next]_vars => CancelInv'
  <2> SUFFICES ASSUME ShapeInv, QueueInv, BoundInv, ScanInv, CancelInv, [Next]_vars PROVE CancelInv'
    OBVIOUS
  <2>1. CASE Window
    BY <2>1, CancelStep, GuiAssumption
  <2>2. CASE UNCHANGED vars \/ OtherWindow
    <3>1. UNCHANGED <<evts, last, scan, worker, cancel>>
      BY <2>2, OtherKeeps DEF vars, ui
    <3> QED
      BY <3>1 DEF CancelInv, CutShort
  <2> QED
    BY <2>1, <2>2 DEF Next
<1>3. QueueInv /\ ScanInv /\ RowsInv /\ CancelInv => CancelIsOfThisScan
  <2> SUFFICES ASSUME QueueInv, ScanInv, RowsInv, CancelInv, scan.done
               PROVE  /\ scan.cancelled => scan.cancelClicked # "no"
                      /\ scan.cancelClicked = "early" => scan.cancelled \/ (scan.rows = <<>> /\ scan.errors = 1)
    BY DEF CancelIsOfThisScan
  <2>1. scan.rows = last
    BY DoneRows
  <2> QED
    BY <2>1 DEF CancelInv, CutShort
<1> QED
  BY <1>1, <1>2, <1>3, CoreAlways, ScanAlways, PTL DEF Spec

----------------------------------------------------------------------------
(* The delta on screen.                                                    *)

\* The invariant of the comparisons, said of a history S, the runs G that were deleted
\* elsewhere and the events E in flight.
ReadIn(r, S, G) == (IF r \in DOMAIN S THEN {S[r].rows} ELSE {}) \cup (IF r \in DOMAIN G THEN G[r] ELSE {})
RealIn(d, S, G) ==
    \E x \in ReadIn(d.of[1], S, G), y \in ReadIn(d.of[2], S, G) : d.rows = diff_permission_lists(x, y)
NewsOf(d, n, E) ==
    \E m \in E : m.kind = "delete" /\ m.ok /\ n < m.id /\ m.value[1] \in {d.of[1], d.of[2]}
TrueOrNews(d, n, S, G, E) == RealIn(d, S, G) \/ NewsOf(d, n, E)

\* What a comparison under way would read of its runs may be read.
WouldRead(r, S, X) == IF r \in DOMAIN S \ X THEN S[r].rows ELSE <<>>
Comparing(q, S, X, G) == \A i \in 1 .. 2 : WouldRead(Head(q).arg[i], S, X) \in ReadIn(Head(q).arg[i], S, G)

\* A comparison stays what it is while what can have been read stays, and news in flight
\* stays in flight.
LEMMA TrueKept ==
    ASSUME NEW d, NEW n, NEW S, NEW G, NEW S2, NEW G2, NEW E, NEW E2, E \subseteq E2,
           \A r : ReadIn(r, S, G) \subseteq ReadIn(r, S2, G2),
           TrueOrNews(d, n, S, G, E)
    PROVE  TrueOrNews(d, n, S2, G2, E2)
<1>1. CASE RealIn(d, S, G)
  BY <1>1 DEF RealIn, TrueOrNews
<1>2. CASE NewsOf(d, n, E)
  BY <1>2 DEF NewsOf, TrueOrNews
<1> QED
  BY <1>1, <1>2 DEF TrueOrNews

\* When one run is deleted here, the news of it is on its way behind the comparison.
LEMMA DeletedIsNews ==
    ASSUME NEW d, NEW n, NEW S, NEW G, NEW S2, NEW E, NEW e, NEW a,
           DOMAIN S2 = DOMAIN S \ {a}, \A r \in DOMAIN S2 : S2[r] = S[r],
           e.kind = "delete", e.ok, e.value = <<a>>, n < e.id,
           TrueOrNews(d, n, S, G, E)
    PROVE  TrueOrNews(d, n, S2, G, E \cup {e})
<1>1. CASE NewsOf(d, n, E)
  BY <1>1 DEF NewsOf, TrueOrNews
<1>2. CASE RealIn(d, S, G) /\ a \in {d.of[1], d.of[2]}
  <2>1. e.value[1] = a
    OBVIOUS
  <2>2. NewsOf(d, n, E \cup {e})
    BY <1>2, <2>1 DEF NewsOf
  <2> QED
    BY <2>2 DEF TrueOrNews
<1>3. CASE RealIn(d, S, G) /\ a \notin {d.of[1], d.of[2]}
  <2>1. ASSUME NEW r, r # a PROVE ReadIn(r, S, G) = ReadIn(r, S2, G)
    BY <2>1 DEF ReadIn
  <2>2. PICK p, q : p = d.of[1] /\ q = d.of[2]
    OBVIOUS
  <2>3. ReadIn(p, S, G) = ReadIn(p, S2, G) /\ ReadIn(q, S, G) = ReadIn(q, S2, G)
    BY <1>3, <2>1, <2>2
  <2> QED
    BY <1>3, <2>2, <2>3 DEF RealIn, TrueOrNews
<1> QED
  BY <1>1, <1>2, <1>3 DEF TrueOrNews

\* The window leaves what was deleted elsewhere alone.
LEMMA WindowKeepsElsewhere ==
    ASSUME ShapeInv, QueueInv, GuiAssumption, Window
    PROVE  elsewhere' = elsewhere
<1>1. CASE \E k, a : Asks(k, a)
  BY <1>1 DEF Asks, sqlite
<1>2. CASE \E e : Answers(e)
  BY <1>2 DEF Answers, Analyze, Answer, ExportReport, ListRuns, ListRunErrors, CompareTargets, CompareRows,
              DeleteScanRun, sqlite
<1>3. CASE \E e : Tells(e)
  BY <1>3 DEF Tells, sqlite
<1>4. CASE Sees \/ Quiet \/ ScanDone \/ StartWorker \/ WorkerDies
  BY <1>4 DEF Sees, pumpOnly, uiOnly, Quiet, ScanDone, StartWorker, WorkerDies, sqlite
<1> QED
  BY <1>1, <1>2, <1>3, <1>4, StepKinds

\* The number of the request being served is not in the history yet.
LEMMA RunIsNew ==
    ASSUME ShapeInv, QueueInv, BoundInv, StoredInv, GuiAssumption, reqs # <<>>
    PROVE  Head(reqs).id \notin DOMAIN store
<1>1. Head(reqs) \in In(reqs) /\ Head(reqs).id \in Nat /\ Head(reqs).id <= issued
  BY Messages
<1>2. issued \in 1 .. MaxId /\ MaxId \in Nat
  <2>1. TypeOK
    BY CoreType
  <2> QED
    BY <2>1, GuiAssumption DEF TypeOK, GuiAssumption, MaxId
<1>3. ASSUME NEW r \in DOMAIN store PROVE r # Head(reqs).id
  <2>1. r \in Nat /\ (r > MaxId \/ \A m \in In(reqs) : r < m.id)
    BY DEF StoredInv
  <2> QED
    BY <1>1, <1>2, <2>1
<1> QED
  BY <1>3

\* The end of a scan adds its run to the history or leaves it alone.
LEMMA ScanDoneStore ==
    ASSUME ShapeInv, QueueInv, BoundInv, StoredInv, GuiAssumption, ScanDone
    PROVE  \A r \in DOMAIN store : r \in DOMAIN store' /\ store'[r] = store[r]
<1>0. reqs # <<>>
  BY DEF ScanDone, Mine, QueueInv
<1>1. PICK run : Persisted("root", worker.rows, worker.cancelled, run)
  BY DEF ScanDone
<1>2. PICK rows, cancelled : rows = worker.rows /\ cancelled = worker.cancelled
  OBVIOUS
<1>3. \/ run = None /\ store' = store
      \/ run = Head(reqs).id /\ store' = persist_scan(run, "root", rows, cancelled)
  BY <1>1, <1>2 DEF Persisted, Req
<1>4. \/ run = None /\ store' = store
      \/ run = Head(reqs).id /\ WithRun(store', store, run, "root", rows, cancelled)
  BY <1>3 DEF persist_scan, WithRun
<1>5. Head(reqs).id \notin DOMAIN store
  BY <1>0, RunIsNew
<1> QED
  BY <1>4, <1>5 DEF WithRun

\* A comparison the worker reports is one of what its two runs held.
LEMMA ComparedIsReal ==
    ASSUME ShapeInv, QueueInv, DeltaInv, GuiAssumption, NEW e, Answers(e), e.kind = "compare", e.ok
    PROVE  RealIn(e.value[1], store, elsewhere) /\ store' = store
<1>1. "compare" \notin Tabs
  BY GuiAssumption DEF GuiAssumption, ScanAndDelta
<1>2. CompareRows
  BY <1>1 DEF Answers
<1>3. worker.pc = "load" /\ store' = store
  BY <1>2 DEF CompareRows, Mine, sqlite
<1>4. \A i \in 1 .. 2 : RowsIn(Head(reqs).arg[i]) \in ReadAs(Head(reqs).arg[i])
  BY <1>3 DEF DeltaInv
<1>5. PICK a, n : a = Req.arg /\ n = diff_permission_lists(RowsIn(Req.arg[1]), RowsIn(Req.arg[2]))
  OBVIOUS
<1>6. \/ evts' = Append(evts, Ok("compare", [of |-> a, rows |-> n]))
      \/ evts' = Append(evts, Err("compare"))
  BY <1>2, <1>5 DEF CompareRows, Emit
<1>7. evts' = Append(evts, e) /\ Channel(evts)
  BY Messages DEF Answers, Emit
<1>8. \A x, y : Append(evts, x) = Append(evts, y) => x = y
  BY <1>7, ChannelAppend
<1>9. e = Ok("compare", [of |-> a, rows |-> n]) \/ e = Err("compare")
  BY <1>6, <1>7, <1>8
<1>10. e = Ok("compare", [of |-> a, rows |-> n])
  <2>1. ~ Err("compare").ok
    BY DEF Err
  <2> QED
    BY <1>9, <2>1
<1>11. e.value = <<[of |-> a, rows |-> n]>>
  BY <1>10 DEF Ok
<1>12. e.value[1] = [of |-> a, rows |-> n]
  BY <1>11
<1>13. e.value[1].of = a /\ e.value[1].rows = n
  BY <1>12
<1>14. RowsIn(a[1]) \in ReadAs(a[1]) /\ RowsIn(a[2]) \in ReadAs(a[2])
  BY <1>4, <1>5 DEF Req
<1>15. n = diff_permission_lists(RowsIn(a[1]), RowsIn(a[2]))
  BY <1>5
<1> QED
  BY <1>3, <1>13, <1>14, <1>15 DEF RealIn, ReadAs, ReadIn

\* Every step keeps it.
LEMMA DeltaStep ==
    ASSUME ShapeInv, QueueInv, BoundInv, GuiAssumption, Window, StoredInv, DeltaInv
    PROVE  DeltaInv'
<1> DEFINE Goal == /\ worker'.pc = "load" => Comparing(reqs', store', deleting', elsewhere')
                   /\ \A m \in In(evts') : m.kind = "compare" /\ m.ok =>
                        TrueOrNews(m.value[1], m.id, store', elsewhere', In(evts'))
                   /\ delta'.result # <<>> => TrueOrNews(delta'.result[1], 0, store', elsewhere', In(evts'))
<1>0. /\ worker.pc = "load" => Comparing(reqs, store, deleting, elsewhere)
      /\ \A m \in In(evts) : m.kind = "compare" /\ m.ok => TrueOrNews(m.value[1], m.id, store, elsewhere, In(evts))
      /\ delta.result # <<>> => TrueOrNews(delta.result[1], 0, store, elsewhere, In(evts))
  BY DEF DeltaInv, Real, RealIn, DeletedAfter, NewsOf, TrueOrNews, Comparing, RowsIn, WouldRead, View, ReadAs, ReadIn
<1>00. /\ {"compare", "delete"} \subseteq Asked /\ {"compare", "delete"} \cap Tabs = {}
       /\ {"compare", "delete"} \cap Progress = {}
  BY GuiAssumption DEF GuiAssumption, Asked, ScanAndDelta, Progress
<1> SUFFICES Goal
  BY DEF DeltaInv, Real, RealIn, DeletedAfter, NewsOf, TrueOrNews, Comparing, RowsIn, WouldRead, View, ReadAs, ReadIn, In
<1>000. elsewhere' = elsewhere
  BY WindowKeepsElsewhere
<1> HIDE DEF Goal
<1>1. ASSUME worker'.pc = "load" => Comparing(reqs', store', deleting', elsewhere'),
             \A r \in DOMAIN store : r \in DOMAIN store' /\ store'[r] = store[r],
             In(evts) \subseteq In(evts'),
             \A m \in In(evts') \ In(evts) : m.kind # "compare",
             delta'.result \in {delta.result, <<>>}
      PROVE  Goal
  <2>1. PICK S, S2, G, E, E2 : S = store /\ S2 = store' /\ G = elsewhere /\ E = In(evts) /\ E2 = In(evts')
    OBVIOUS
  <2>5. \A r : ReadIn(r, S, G) \subseteq ReadIn(r, S2, G)
    BY <1>1, <2>1 DEF ReadIn
  <2>2. ASSUME NEW d, NEW n, TrueOrNews(d, n, store, elsewhere, In(evts)) PROVE TrueOrNews(d, n, store', elsewhere', In(evts'))
    <3>1. TrueOrNews(d, n, S, G, E) /\ E \subseteq E2
      BY <1>1, <2>1, <2>2
    <3>2. TrueOrNews(d, n, S2, G, E2)
      BY <2>5, <3>1, TrueKept
    <3> QED
      BY <1>000, <2>1, <3>2
  <2>3. ASSUME NEW m \in In(evts'), m.kind = "compare", m.ok PROVE TrueOrNews(m.value[1], m.id, store', elsewhere', In(evts'))
    BY <1>0, <1>1, <2>2, <2>3
  <2>4. ASSUME delta'.result # <<>> PROVE TrueOrNews(delta'.result[1], 0, store', elsewhere', In(evts'))
    BY <1>0, <1>1, <2>2, <2>4
  <2> QED
    BY <1>1, <2>3, <2>4 DEF Goal
<1>2. ASSUME NEW k, NEW a, Asks(k, a) PROVE Goal
  <2>1. k \in Asked /\ Send(k, a) /\ evts' = evts /\ worker' = worker /\ store' = store /\ deleting' = deleting
    BY <1>2 DEF Asks, sqlite
  <2>2. reqs # <<>> => Head(reqs') = Head(reqs)
    BY <2>1, SendEffect
  <2>3. worker'.pc = "load" => Comparing(reqs', store', deleting', elsewhere')
    BY <1>0, <1>000, <2>1, <2>2 DEF Comparing, QueueInv
  <2>4. delta'.result \in {delta.result, <<>>}
    BY <1>2 DEF Asks, Ask, StartScan, Export, LoadRuns, Compare, DeleteRun, ShowErrors, ui, ShapeInv
  <2> QED
    BY <1>1, <2>1, <2>3, <2>4
<1>3. ASSUME NEW e, Answers(e) PROVE Goal
  <2>1. delta' = delta
    BY <1>3 DEF Answers, workerOnly, ui
  <2>2. PICK h : h = Head(reqs) /\ In(reqs) = In(reqs') \cup {h} /\ e.kind = h.kind /\ e.id = h.id
    BY <1>3, AnswersMove
  <2>3. In(evts') = In(evts) \cup {e} /\ worker'.pc # "load" /\ reqs # <<>>
    BY <1>3, AnswersMove DEF Idle, Answers
  <2>4. CASE e.kind = "compare"
    <3>1. store' = store
      <4>1. CASE e.ok
        BY <1>3, <2>4, <4>1, ComparedIsReal
      <4>2. CASE ~ e.ok
        BY <1>00, <1>3, <2>4 DEF Answers, CompareTargets, CompareRows, sqlite
      <4> QED
        BY <4>1, <4>2
    <3>2. ASSUME NEW d, NEW n, TrueOrNews(d, n, store, elsewhere, In(evts)) PROVE TrueOrNews(d, n, store', elsewhere', In(evts'))
      BY <1>000, <2>3, <3>1, <3>2 DEF TrueOrNews, NewsOf
    <3>3. e.ok => TrueOrNews(e.value[1], e.id, store', elsewhere', In(evts'))
      BY <1>000, <1>3, <2>4, <3>1, ComparedIsReal DEF TrueOrNews
    <3>4. ASSUME NEW m \in In(evts'), m.kind = "compare", m.ok PROVE TrueOrNews(m.value[1], m.id, store', elsewhere', In(evts'))
      BY <1>0, <2>3, <3>2, <3>3, <3>4
    <3> QED
      BY <1>0, <2>1, <2>3, <3>2, <3>4 DEF Goal
  <2>5. CASE e.kind # "compare" /\ \A r \in DOMAIN store : r \in DOMAIN store' /\ store'[r] = store[r]
    BY <1>1, <2>1, <2>3, <2>5
  <2>6. CASE /\ h.kind = "delete" /\ e.ok /\ e.value = <<h.arg>>
             /\ DOMAIN store' = DOMAIN store \ {h.arg} /\ \A r \in DOMAIN store' : store'[r] = store[r]
    <3>1. PICK S, S2, G, E, a : S = store /\ S2 = store' /\ G = elsewhere /\ E = In(evts) /\ a = h.arg
      OBVIOUS
    <3>2. ASSUME NEW d, NEW n, n < e.id, TrueOrNews(d, n, store, elsewhere, In(evts)) PROVE TrueOrNews(d, n, store', elsewhere', In(evts'))
      <4>1. /\ DOMAIN S2 = DOMAIN S \ {a} /\ \A r \in DOMAIN S2 : S2[r] = S[r]
            /\ e.kind = "delete" /\ e.ok /\ e.value = <<a>> /\ TrueOrNews(d, n, S, G, E)
        BY <2>2, <2>6, <3>1, <3>2
      <4>2. TrueOrNews(d, n, S2, G, E \cup {e})
        BY <3>2, <4>1, DeletedIsNews
      <4> QED
        BY <1>000, <2>3, <3>1, <4>2
    <3>3. 0 < e.id /\ \A m \in In(evts) : m.kind = "compare" => m.id < e.id
      <4>1. h \in In(reqs) /\ h.id \in Nat /\ h.id # 0
        BY <2>2, Messages
      <4> QED
        BY <1>00, <2>2, <4>1, Messages
    <3>4. ASSUME NEW m \in In(evts'), m.kind = "compare", m.ok PROVE TrueOrNews(m.value[1], m.id, store', elsewhere', In(evts'))
      <4>1. m \in In(evts)
        BY <2>2, <2>3, <2>6, <3>4
      <4> QED
        BY <1>0, <3>2, <3>3, <3>4, <4>1
    <3>5. ASSUME delta'.result # <<>> PROVE TrueOrNews(delta'.result[1], 0, store', elsewhere', In(evts'))
      BY <1>0, <2>1, <3>2, <3>3, <3>5
    <3> QED
      BY <2>3, <3>4, <3>5 DEF Goal
  <2>7. CASE e.kind # "compare" /\ h.kind = "analyze" /\ \A r \in DOMAIN store : r # h.id => r \in DOMAIN store' /\ store'[r] = store[r]
    <3>1. h.id \notin DOMAIN store
      BY <2>2, <2>3, RunIsNew
    <3> QED
      BY <2>5, <2>7, <3>1
  <2>8. \/ store' = store
        \/ /\ h.kind = "delete" /\ e.ok /\ e.value = <<h.arg>>
           /\ DOMAIN store' = DOMAIN store \ {h.arg} /\ \A r \in DOMAIN store' : store'[r] = store[r]
        \/ h.kind = "analyze" /\ \A r \in DOMAIN store : r # h.id => r \in DOMAIN store' /\ store'[r] = store[r]
    BY <1>3, <2>2, AnswersStore
  <2> QED
    BY <2>2, <2>4, <2>5, <2>6, <2>7, <2>8
<1>4. ASSUME NEW e, Tells(e) PROVE Goal
  <2>1. delta' = delta /\ store' = store
    BY <1>4 DEF Tells, workerOnly, ui, sqlite
  <2>2. In(evts') = In(evts) \cup {e} /\ e.kind # "compare" /\ worker'.pc = "rows"
    BY <1>00, <1>4, TellsAdd
  <2> QED
    BY <1>1, <2>1, <2>2
<1>5. ASSUME Sees PROVE Goal
  <2>1. PICK h : /\ h = Head(evts) /\ In(evts) = In(evts') \cup {h}
                 /\ h.kind \in Asked => \A o \in In(evts') : o.kind \in Asked => h.id < o.id
    BY <1>5, SeesTakes
  <2>2. worker' = worker /\ store' = store /\ deleting' = deleting
    BY <1>5 DEF Sees, pumpOnly, uiOnly, sqlite
  <2>3. worker'.pc = "load" => Comparing(reqs', store', deleting', elsewhere')
    <3>1. reqs # <<>> => Head(reqs') = Head(reqs)
      <4>1. reqs' = reqs \/ Send("runs", None)
        BY <1>5 DEF Sees
      <4>2. "runs" \in Asked
        BY DEF Asked, ScanAndDelta
      <4> QED
        BY <4>1, <4>2, SendEffect
    <3> QED
      BY <1>0, <1>000, <2>2, <3>1 DEF Comparing, QueueInv
  <2>4. ASSUME NEW d, NEW n, TrueOrNews(d, n, store, elsewhere, In(evts)),
               h.kind = "delete" /\ h.ok => ~ (n < h.id)
        PROVE  TrueOrNews(d, n, store', elsewhere', In(evts'))
    BY <1>000, <2>1, <2>2, <2>4 DEF TrueOrNews, NewsOf
  <2>5. \A m \in In(evts) : m.id \in Nat /\ m.id # 0
    BY Messages
  <2>6. ASSUME NEW m \in In(evts'), m.kind = "compare", m.ok PROVE TrueOrNews(m.value[1], m.id, store', elsewhere', In(evts'))
    <3>1. m \in In(evts) /\ h \in In(evts)
      BY <2>1
    <3>2. h.kind = "delete" => h.id < m.id
      BY <1>00, <2>1, <2>6
    <3>3. h.kind = "delete" => ~ (m.id < h.id)
      BY <2>5, <3>1, <3>2
    <3> QED
      BY <1>0, <2>4, <2>6, <3>1, <3>3
  <2>7. ASSUME delta'.result # <<>> PROVE TrueOrNews(delta'.result[1], 0, store', elsewhere', In(evts'))
    <3>1. CASE h.kind = "compare"
      <4>1. ShowDelta
        BY <1>00, <1>5, <2>1, <3>1 DEF Sees, Event
      <4>2. delta' = [delta EXCEPT !.loading = FALSE, !.result = IF h.ok THEN <<h.value[1]>> ELSE <<>>]
        BY <2>1, <4>1 DEF ShowDelta, Event, Value
      <4>3. delta'.result = IF h.ok THEN <<h.value[1]>> ELSE <<>>
        BY <4>2 DEF ShapeInv
      <4>4. h.ok /\ delta'.result[1] = h.value[1]
        BY <2>7, <4>3
      <4>5. TrueOrNews(h.value[1], h.id, store, elsewhere, In(evts))
        BY <1>0, <2>1, <3>1, <4>4
      <4>6. TrueOrNews(h.value[1], h.id, store', elsewhere', In(evts'))
        BY <2>4, <3>1, <4>5
      <4>7. \A m \in In(evts') : h.id < m.id => 0 < m.id
        BY <2>1, <2>5
      <4>8. TrueOrNews(h.value[1], 0, store', elsewhere', In(evts'))
        BY <4>6, <4>7 DEF TrueOrNews, NewsOf
      <4> QED
        BY <4>4, <4>8
    <3>2. CASE h.kind = "delete"
      <4>1. ShowDeleted
        BY <1>00, <1>5, <2>1, <3>2 DEF Sees, Event
      <4>2. CASE h.ok
        <5>1. delta'.result = <<>>
          BY <2>1, <4>1, <4>2 DEF ShowDeleted, Event, ShapeInv
        <5> QED
          BY <2>7, <5>1
      <4>3. CASE ~ h.ok
        <5>1. delta' = delta
          BY <2>1, <4>1, <4>3 DEF ShowDeleted, Event
        <5> QED
          BY <1>0, <2>4, <2>7, <4>3, <5>1
      <4> QED
        BY <4>2, <4>3
    <3>3. CASE h.kind # "compare" /\ h.kind # "delete"
      <4>1. delta'.result = delta.result
        <5>1. CASE ShowAnswer \/ ShowProgress \/ ShowScanDone \/ ShowExport
          BY <5>1 DEF ShowAnswer, ShowProgress, ShowScanDone, ShowExport
        <5>2. CASE ShowRuns
          BY <5>2 DEF ShowRuns, ShapeInv
        <5>3. CASE ShowRunErrors
          BY <5>3 DEF ShowRunErrors, ShapeInv
        <5> QED
          BY <1>5, <2>1, <3>3, <5>1, <5>2, <5>3 DEF Sees, Event
      <4> QED
        BY <1>0, <2>4, <2>7, <3>3, <4>1
    <3> QED
      BY <3>1, <3>2, <3>3
  <2> QED
    BY <2>3, <2>6, <2>7 DEF Goal
<1>6. ASSUME Quiet PROVE Goal
  <2>1. reqs' = reqs /\ evts' = evts /\ store' = store /\ deleting' = deleting
    BY <1>6 DEF Quiet, sqlite
  <2>2. delta'.result = delta.result
    <3>1. CASE \E side \in {"old", "new"}, r \in delta.runs : Pick(side, r)
      BY <3>1 DEF Pick, ShapeInv
    <3>2. CASE ClosePanel
      BY <3>2 DEF ClosePanel, ShapeInv
    <3>3. CASE CancelScan \/ ScanBegins \/ WalkOn \/ WalkEnds \/ Notify \/ Wake \/ CompareTargets
      BY <3>3 DEF CancelScan, ScanBegins, WalkOn, WalkEnds, Notify, Wake, CompareTargets, workerOnly, ui
    <3> QED
      BY <1>6, <3>1, <3>2, <3>3 DEF Quiet
  <2>3. worker'.pc = "load" => Comparing(reqs', store', deleting', elsewhere')
    <3>1. CASE worker' = worker
      BY <1>0, <1>000, <2>1, <3>1
    <3>2. CASE ScanBegins \/ WalkOn \/ WalkEnds \/ Notify
      <4>1. worker'.pc # "load"
        <5>1. CASE ScanBegins
          BY <5>1 DEF ScanBegins, Idle
        <5>2. CASE WalkOn
          BY <5>2 DEF WalkOn, Mine, ShapeInv
        <5>3. CASE WalkEnds
          BY <5>3 DEF WalkEnds, ShapeInv
        <5>4. CASE Notify
          BY <5>4 DEF Notify, Idle
        <5> QED
          BY <3>2, <5>1, <5>2, <5>3, <5>4
      <4> QED
        BY <4>1
    <3>3. CASE CompareTargets /\ worker' = [worker EXCEPT !.pc = "load"]
      <4>1. worker.pc = "recv" /\ worker'.pc = "load"
        BY <3>3 DEF CompareTargets, Serves, ShapeInv
      <4>2. Targets(Req.arg)
        <5>1. worker' # [Idle EXCEPT !.pc = "notify"]
          BY <4>1 DEF Idle
        <5> QED
          BY <3>3, <5>1 DEF CompareTargets, Finish
      <4>3. Head(reqs).arg[1] \in DOMAIN store \ deleting /\ Head(reqs).arg[2] \in DOMAIN store \ deleting
        BY <4>2 DEF Targets, run_target, View, Req
      <4> QED
        BY <1>000, <2>1, <4>3 DEF Comparing, WouldRead, ReadIn
    <3>4. CASE CancelScan \/ (\E side \in {"old", "new"}, r \in delta.runs : Pick(side, r)) \/ ClosePanel \/ Wake
      <4>1. worker' = worker
        BY <3>4 DEF CancelScan, Pick, ClosePanel, Wake, uiOnly
      <4> QED
        BY <3>1, <4>1
    <3> QED
      BY <1>6, <3>2, <3>3, <3>4 DEF Quiet
  <2> QED
    BY <1>1, <2>1, <2>2, <2>3
<1>7. ASSUME ScanDone PROVE Goal
  <2>1. delta' = delta
    BY <1>7 DEF ScanDone, workerOnly, ui
  <2>2. \A r \in DOMAIN store : r \in DOMAIN store' /\ store'[r] = store[r]
    BY <1>7, ScanDoneStore
  <2>3. worker'.pc = "notify"
    BY <1>7, ScanDoneMoves DEF Idle
  <2>4. PICK r, e : In(evts') = In(evts) \cup {r, e} /\ r.kind = "risks" /\ e.kind = "scan"
    BY <1>7, ScanDoneMoves
  <2> QED
    BY <1>1, <2>1, <2>2, <2>3, <2>4
<1>8. ASSUME StartWorker \/ WorkerDies PROVE Goal
  <2>1. delta' = delta /\ evts' = evts /\ store' = store
    BY <1>8 DEF StartWorker, WorkerDies, workerOnly, ui, sqlite
  <2>2. worker'.pc # "load"
    BY <1>8 DEF StartWorker, WorkerDies, Idle, ShapeInv
  <2> QED
    BY <1>1, <2>1, <2>2
<1> QED
  BY <1>2, <1>3, <1>4, <1>5, <1>6, <1>7, <1>8, StepKinds

\* So does the second window: what it deletes could have been read, and of a run that is
\* being compared nothing may be left to read.
LEMMA OtherKeepsDelta ==
    ASSUME QueueInv, DeltaInv, OtherWindow
    PROVE  DeltaInv'
<1>1. UNCHANGED <<reqs, evts, worker, deleting, delta>>
  BY OtherKeeps
<1>2. PICK r \in DOMAIN store :
        /\ DOMAIN store' = DOMAIN store \ {r} /\ \A q \in DOMAIN store' : store'[q] = store[q]
        /\ DOMAIN elsewhere' = DOMAIN elsewhere \cup {r}
        /\ elsewhere'[r] = ReadAs(r) \cup (IF r \in Compared THEN {<<>>} ELSE {})
        /\ \A q \in DOMAIN elsewhere : q # r => elsewhere'[q] = elsewhere[q]
  BY OtherDeletes
<1>3. PICK S, S2, G, G2, E, X : /\ S = store /\ S2 = store' /\ G = elsewhere /\ G2 = elsewhere'
                               /\ E = In(evts) /\ X = deleting
  OBVIOUS
<1>4. ASSUME NEW q PROVE ReadIn(q, S, G) \subseteq ReadIn(q, S2, G2)
  <2>1. CASE q = r
    BY <1>2, <1>3, <2>1 DEF ReadIn, ReadAs
  <2>2. CASE q # r
    BY <1>2, <1>3, <2>2 DEF ReadIn
  <2> QED
    BY <2>1, <2>2
<1>5. ASSUME NEW d, NEW n, TrueOrNews(d, n, S, G, E) PROVE TrueOrNews(d, n, S2, G2, E)
  BY <1>4, <1>5, TrueKept
<1>6. ASSUME worker.pc = "load", Comparing(reqs, S, X, G) PROVE Comparing(reqs, S2, X, G2)
  <2> SUFFICES ASSUME NEW i \in 1 .. 2
               PROVE  WouldRead(Head(reqs).arg[i], S2, X) \in ReadIn(Head(reqs).arg[i], S2, G2)
    BY DEF Comparing
  <2>1. PICK q : q = Head(reqs).arg[i]
    OBVIOUS
  <2>2. WouldRead(q, S, X) \in ReadIn(q, S2, G2)
    BY <1>4, <1>6, <2>1 DEF Comparing
  <2>3. CASE q = r
    <3>1. q \in Compared
      BY <1>6, <2>1 DEF Compared, Req
    <3>2. <<>> \in elsewhere'[r] /\ r \in DOMAIN elsewhere' /\ q \notin DOMAIN store'
      BY <1>2, <2>3, <3>1
    <3> QED
      BY <1>3, <2>1, <2>3, <3>2 DEF WouldRead, ReadIn
  <2>4. CASE q # r
    <3>1. WouldRead(q, S2, X) = WouldRead(q, S, X)
      BY <1>2, <1>3, <2>4 DEF WouldRead
    <3> QED
      BY <2>1, <2>2, <3>1
  <2> QED
    BY <2>3, <2>4
<1>7. /\ worker.pc = "load" => Comparing(reqs, S, X, G)
      /\ \A m \in E : m.kind = "compare" /\ m.ok => TrueOrNews(m.value[1], m.id, S, G, E)
      /\ delta.result # <<>> => TrueOrNews(delta.result[1], 0, S, G, E)
  BY <1>3 DEF DeltaInv, Real, RealIn, DeletedAfter, NewsOf, TrueOrNews, Comparing, RowsIn, WouldRead, View, ReadAs, ReadIn
<1>8. /\ worker.pc = "load" => Comparing(reqs, S2, X, G2)
      /\ \A m \in E : m.kind = "compare" /\ m.ok => TrueOrNews(m.value[1], m.id, S2, G2, E)
      /\ delta.result # <<>> => TrueOrNews(delta.result[1], 0, S2, G2, E)
  BY <1>5, <1>6, <1>7
<1>9. In(evts') = E
  BY <1>1, <1>3 DEF In
<1>10. Head(reqs') = Head(reqs) /\ worker'.pc = worker.pc /\ delta'.result = delta.result
  BY <1>1
<1>11. /\ worker'.pc = "load" => Comparing(reqs', store', deleting', elsewhere')
       /\ \A m \in In(evts') : m.kind = "compare" /\ m.ok => TrueOrNews(m.value[1], m.id, store', elsewhere', In(evts'))
       /\ delta'.result # <<>> => TrueOrNews(delta'.result[1], 0, store', elsewhere', In(evts'))
  BY <1>1, <1>3, <1>8, <1>9, <1>10 DEF Comparing
<1> QED
  BY <1>11
     DEF DeltaInv, Real, RealIn, DeletedAfter, NewsOf, TrueOrNews, Comparing, RowsIn, WouldRead, View, ReadAs, ReadIn, In

\* Once everything is answered, the delta on screen compares what its two runs held, also when
\* the second window deletes one at any moment; nothing of a run this window deleted is left on
\* screen; and a run reads as empty, as if everything had been removed, only if the second
\* window deleted it between the reads of that comparison (compare_scans, run_target,
\* delete_scan_run, handle_computed, handle_run_deleted).
THEOREM DeltaIsRealAlways == Spec => []DeltaIsReal
<1>1. Init => DeltaInv
  <2> SUFFICES ASSUME Init PROVE DeltaInv
    OBVIOUS
  <2>1. In(evts) = {} /\ delta.result = <<>> /\ worker.pc = "start"
    BY DEF Init, In, Idle
  <2> QED
    BY <2>1 DEF DeltaInv
<1>2. (ShapeInv /\ QueueInv /\ BoundInv) /\ StoredInv /\ DeltaInv /\ [Next]_vars => DeltaInv'
  <2> SUFFICES ASSUME ShapeInv, QueueInv, BoundInv, StoredInv, DeltaInv, [Next]_vars PROVE DeltaInv'
    OBVIOUS
  <2>1. CASE Window
    BY <2>1, DeltaStep, GuiAssumption
  <2>2. CASE UNCHANGED vars
    <3>1. UNCHANGED <<reqs, evts, worker, store, deleting, elsewhere, delta>>
      BY <2>2 DEF vars, ui, sqlite
    <3> QED
      BY <3>1 DEF DeltaInv, Real, ReadAs, RowsIn, DeletedAfter, View
  <2>3. CASE OtherWindow
    BY <2>3, OtherKeepsDelta
  <2> QED
    BY <2>1, <2>2, <2>3 DEF Next
<1>3. DeltaInv => DeltaIsReal
  <2> SUFFICES ASSUME DeltaInv, Settled, delta.result # <<>> PROVE Real(delta.result[1])
    BY DEF DeltaIsReal
  <2>1. In(evts) = {}
    BY DEF Settled, In
  <2> QED
    BY <2>1 DEF DeltaInv, DeletedAfter
<1> QED
  BY <1>1, <1>2, <1>3, CoreAlways, StoredAlways, PTL DEF Spec
============================================================================
