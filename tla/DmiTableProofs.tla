--------------------------- MODULE DmiTableProofs ---------------------------
(***************************************************************************)
(* Proofs about DmiTable for any BIOS segment, and any table of bytes cut  *)
(* short anywhere.                                                         *)
(***************************************************************************)
EXTENDS DmiTable, NatFacts

\* Types, with found and the walk tied to the paragraphs; a decoded text is a
\* sequence of characters or of one mark.
DmiTypes ==
  /\ segment \in Seq({"SM", "DMI", "other"})
  /\ buf \in Seq(0..255) /\ len \in 0..Len(buf) /\ num \in Nat
  /\ pc \in {"scan", "walk", "done", "exited"}
  /\ fp \in 1..(Len(segment) + 1)
  /\ found \in 0..(fp - 1)
  /\ data \in Nat /\ i \in 0..num
  /\ \A t \in Types, f \in 1..4 : dmi_data[t][f] \in Seq(Int) /\ Len(dmi_data[t][f]) <= MaxText

Short(str) == str \in Seq(Int) /\ Len(str) <= MaxText

DmiInv == DmiTypes /\ reach \in Nat \cup {-1} /\ InBounds

-----------------------------------------------------------------------------
(***************************************************************************)
(* Least and greatest elements                                             *)
(***************************************************************************)

LEMMA LeastBetween ==
  ASSUME NEW a \in Nat, NEW b \in Nat, NEW P, P \cap (a..b) # {}
  PROVE  \E k \in a..b : k \in P /\ \A j \in a..(k - 1) : j \notin P
<1> DEFINE T == {k \in Nat : k \in P /\ a <= k /\ k <= b}
<1>1. T \in SUBSET Nat /\ T # {}
  OBVIOUS
<1>2. PICK k \in T : \A j \in T : k <= j
  BY <1>1, LeastNat
<1>3. ASSUME NEW j \in a..(k - 1), j \in P PROVE FALSE
  <2>1. k \in Nat /\ a <= k /\ k <= b /\ j \in Nat /\ j <= b /\ a <= j /\ ~(k <= j)
    BY <1>2
  <2> QED
    BY <1>2, <1>3, <2>1
<1> QED
  BY <1>2, <1>3

LEMMA MaxOfSome ==
  ASSUME NEW T \in SUBSET (Nat \cup {-1}), T # {}, NEW b \in Nat, \A x \in T : x < b
  PROVE  Max(T) \in T
<1> DEFINE U == {n \in Nat : n - 1 \in T}
<1>1. U # {}
  <2>1. PICK x \in T : TRUE
    OBVIOUS
  <2>2. x + 1 \in Nat /\ (x + 1) - 1 = x
    OBVIOUS
  <2> QED
    BY <2>1, <2>2
<1>2. \A n \in U : n <= b
  OBVIOUS
<1>3. PICK m \in U : \A n \in U : n <= m
  BY <1>1, <1>2, GreatestNat
<1>4. ASSUME NEW x \in T PROVE m - 1 >= x
  <2>1. x + 1 \in U
    OBVIOUS
  <2> QED
    BY <1>3, <2>1
<1>5. m - 1 \in T
  OBVIOUS
<1> QED
  BY <1>4, <1>5 DEF Max

LEMMA EndsOfInk ==
  ASSUME NEW n \in Nat, NEW T \in SUBSET (1..n), T # {}
  PROVE  Min(T) \in 1..n /\ Max(T) \in 1..n
<1>1. T \in SUBSET Nat
  OBVIOUS
<1>2. \E m \in T : \A k \in T : m <= k
  BY <1>1, LeastNat
<1>3. \E m \in T : \A k \in T : m >= k
  <2>0. \A k \in T : k <= n
    OBVIOUS
  <2>1. PICK m \in T : \A k \in T : k <= m
    BY <1>1, <2>0, GreatestNat
  <2>2. \A k \in T : m >= k
    BY <1>1, <2>1
  <2> QED
    BY <2>2
<1>4. Min(T) \in T
  BY <1>2 DEF Min
<1>5. Max(T) \in T
  BY <1>3 DEF Max
<1> QED
  BY <1>4, <1>5

LEMMA MinIs ==
  ASSUME NEW T \in SUBSET Nat, NEW m \in T, \A k \in T : m <= k
  PROVE  Min(T) = m
<1>1. /\ Min(T) \in T /\ \A k \in T : Min(T) <= k
  BY DEF Min
<1>2. PICK x : x = Min(T)
  OBVIOUS
<1>3. x \in Nat /\ m \in Nat /\ x <= m /\ m <= x
  BY <1>1, <1>2
<1>4. x = m
  BY <1>3
<1> QED
  BY <1>2, <1>4

LEMMA MaxIs ==
  ASSUME NEW T \in SUBSET Nat, NEW m \in T, \A k \in T : k <= m
  PROVE  Max(T) = m
<1>0. \A k \in T : m >= k
  OBVIOUS
<1>1. /\ Max(T) \in T /\ \A k \in T : Max(T) >= k
  BY <1>0 DEF Max
<1>2. PICK x : x = Max(T)
  OBVIOUS
<1>3. x \in Nat /\ m \in Nat /\ x <= m /\ m <= x
  BY <1>1, <1>2
<1>4. x = m
  BY <1>3
<1> QED
  BY <1>2, <1>4

-----------------------------------------------------------------------------
(***************************************************************************)
(* Sequences                                                               *)
(***************************************************************************)

LEMMA FunIsSeq ==
  ASSUME NEW S, NEW n \in Nat, NEW f \in [1..n -> S]
  PROVE  f \in Seq(S) /\ Len(f) = n
OBVIOUS

LEMMA FirstOf ==
  ASSUME NEW S, NEW q \in Seq(S), NEW m \in 0..Len(q)
  PROVE  /\ SubSeq(q, 1, m) \in Seq(S) /\ Len(SubSeq(q, 1, m)) = m
         /\ \A p \in 1..m : SubSeq(q, 1, m)[p] = q[p]
OBVIOUS

LEMMA SeqFun ==
  ASSUME NEW S, NEW a \in Seq(S)
  PROVE  a = [p \in 1..Len(a) |-> a[p]]
OBVIOUS

LEMMA SameElements ==
  ASSUME NEW S, NEW a \in Seq(S), NEW b \in Seq(S), Len(a) = Len(b),
         \A p \in 1..Len(a) : a[p] = b[p]
  PROVE  a = b
<1>1. a = [p \in 1..Len(a) |-> a[p]] /\ b = [p \in 1..Len(b) |-> b[p]]
  BY SeqFun
<1>2. [p \in 1..Len(a) |-> a[p]] = [p \in 1..Len(a) |-> b[p]]
  OBVIOUS
<1>3. [p \in 1..Len(a) |-> b[p]] = [p \in 1..Len(b) |-> b[p]]
  BY Zenon
<1> QED
  BY <1>1, <1>2, <1>3, Zenon

LEMMA FourInSeq ==
  ASSUME NEW S, NEW a \in S, NEW b \in S, NEW c \in S, NEW d \in S
  PROVE  /\ <<a, b, c, d>> \in Seq(S) /\ Len(<<a, b, c, d>>) = 4
         /\ <<a, b, c, d>>[1] = a /\ <<a, b, c, d>>[2] = b
OBVIOUS

LEMMA OneInSeq ==
  ASSUME NEW S, NEW a \in S
  PROVE  <<a>> \in Seq(S) /\ Len(<<a>>) = 1 /\ <<a>>[1] = a
OBVIOUS

LEMMA TwoInSeq ==
  ASSUME NEW S, NEW a \in S
  PROVE  <<a, a>> \in Seq(S) /\ Len(<<a, a>>) = 2 /\ <<a, a>>[1] = a /\ <<a, a>>[2] = a
OBVIOUS

-----------------------------------------------------------------------------
(***************************************************************************)
(* Sequences that are joined to one                                        *)
(***************************************************************************)

\* FlattenSeq is a recursion over its argument: f solves it as far as m.
JoinsTo(S, q, m, f) ==
  /\ f \in [1..m -> Seq(S)]
  /\ \A k \in 1..m : f[k] = IF k = 1 THEN q[k] ELSE f[k - 1] \o q[k]

LEMMA JoinOneMore ==
  ASSUME NEW S, NEW q \in Seq(Seq(S)), NEW m \in Nat, m + 1 <= Len(q), NEW f, JoinsTo(S, q, m, f)
  PROVE  JoinsTo(S, q, m + 1,
                 [k \in 1..(m + 1) |-> IF k = m + 1 THEN (IF m = 0 THEN q[1] ELSE f[m] \o q[m + 1]) ELSE f[k]])
<1>1. PICK e \in Seq(S) : e = IF m = 0 THEN q[1] ELSE f[m] \o q[m + 1]
  <2>1. CASE m = 0
    <3>1. 1 \in 1..Len(q)
      BY <2>1
    <3> QED
      BY <2>1, <3>1
  <2>2. CASE m # 0
    <3>1. m \in 1..m /\ m + 1 \in 1..Len(q)
      BY <2>2
    <3>2. f[m] \in Seq(S)
      BY <3>1 DEF JoinsTo
    <3>3. q[m + 1] \in Seq(S)
      BY <3>1
    <3>4. f[m] \o q[m + 1] \in Seq(S)
      BY <3>2, <3>3
    <3> QED
      BY <2>2, <3>4
  <2> QED
    BY <2>1, <2>2
<1>2. PICK g : g = [k \in 1..(m + 1) |-> IF k = m + 1 THEN e ELSE f[k]]
  OBVIOUS
<1>3. g \in [1..(m + 1) -> Seq(S)]
  <2>1. ASSUME NEW k \in 1..(m + 1), k # m + 1 PROVE f[k] \in Seq(S)
    <3>1. k \in 1..m
      BY <2>1
    <3> QED
      BY <3>1 DEF JoinsTo
  <2> QED
    BY <1>2, <2>1
<1>4. ASSUME NEW k \in 1..(m + 1)
      PROVE  g[k] = IF k = 1 THEN q[k] ELSE g[k - 1] \o q[k]
  <2>1. CASE k = m + 1
    <3>1. g[k] = e
      BY <1>2, <2>1
    <3>2. CASE m = 0
      BY <1>1, <2>1, <3>1, <3>2
    <3>3. CASE m # 0
      <4>1. k # 1 /\ k - 1 = m /\ m \in 1..(m + 1) /\ m # m + 1
        BY <2>1, <3>3
      <4>2. g[k - 1] = f[m]
        BY <1>2, <4>1
      <4> QED
        BY <1>1, <2>1, <3>1, <3>3, <4>1, <4>2
    <3> QED
      BY <3>2, <3>3
  <2>2. CASE k # m + 1
    <3>1. k \in 1..m /\ g[k] = f[k]
      BY <1>2, <2>2
    <3>2. k # 1 => k - 1 \in 1..(m + 1) /\ k - 1 # m + 1
      BY <3>1
    <3>3. k # 1 => g[k - 1] = f[k - 1]
      BY <1>2, <3>2
    <3>4. f[k] = IF k = 1 THEN q[k] ELSE f[k - 1] \o q[k]
      BY <3>1 DEF JoinsTo
    <3> QED
      BY <3>1, <3>3, <3>4
  <2> QED
    BY <2>1, <2>2
<1>5. JoinsTo(S, q, m + 1, g)
  BY <1>3, <1>4 DEF JoinsTo
<1> QED
  BY <1>1, <1>2, <1>5

CanJoin(S, q, m) == \E f : JoinsTo(S, q, m, f)

LEMMA JoinExists ==
  ASSUME NEW S, NEW q \in Seq(Seq(S))
  PROVE  CanJoin(S, q, Len(q))
<1> DEFINE T == {m \in Nat : m <= Len(q) => CanJoin(S, q, m)}
<1>1. 0 \in T
  <2>1. JoinsTo(S, q, 0, [k \in 1..0 |-> <<>>])
    BY DEF JoinsTo
  <2> QED
    BY <2>1 DEF CanJoin
<1>2. ASSUME NEW m \in T, m + 1 <= Len(q) PROVE CanJoin(S, q, m + 1)
  <2>1. m \in Nat /\ m <= Len(q)
    BY <1>2
  <2>2. CanJoin(S, q, m)
    BY <2>1
  <2>3. PICK f : JoinsTo(S, q, m, f)
    BY <2>2 DEF CanJoin
  <2> QED
    BY <1>2, <2>1, <2>3, JoinOneMore DEF CanJoin
<1>3. \A m \in T : m + 1 \in T
  BY <1>2
<1>4. T = Nat
  <2> HIDE DEF T
  <2>1. T \in SUBSET Nat
    BY DEF T
  <2> QED
    BY <1>1, <1>3, <2>1, SetInduction
<1>5. Len(q) \in T
  BY <1>4
<1> QED
  BY <1>5

LEMMA JoinUnique ==
  ASSUME NEW S, NEW q \in Seq(Seq(S)), NEW n \in Nat, NEW f, JoinsTo(S, q, n, f), NEW g,
         \A k \in 1..n : g[k] = IF k = 1 THEN q[k] ELSE g[k - 1] \o q[k]
  PROVE  \A k \in 1..n : g[k] = f[k]
<1> DEFINE T == {m \in Nat : m + 1 <= n => g[m + 1] = f[m + 1]}
<1>1. 0 \in T
  <2>1. ASSUME 1 <= n PROVE g[1] = f[1]
    <3>1. 1 \in 1..n
      BY <2>1
    <3> QED
      BY <3>1 DEF JoinsTo
  <2> QED
    BY <2>1
<1>2. ASSUME NEW m \in T, m + 2 <= n PROVE g[m + 2] = f[m + 2]
  <2>1. m \in Nat /\ m + 1 <= n /\ m + 2 \in 1..n /\ m + 2 # 1 /\ (m + 2) - 1 = m + 1
    BY <1>2
  <2>2. g[m + 1] = f[m + 1]
    BY <2>1
  <2>3. g[m + 2] = g[m + 1] \o q[m + 2]
    BY <2>1
  <2>4. f[m + 2] = f[m + 1] \o q[m + 2]
    BY <2>1 DEF JoinsTo
  <2> QED
    BY <2>2, <2>3, <2>4
<1>3. \A m \in T : m + 1 \in T
  BY <1>2
<1>4. T = Nat
  <2> HIDE DEF T
  <2>1. T \in SUBSET Nat
    BY DEF T
  <2> QED
    BY <1>1, <1>3, <2>1, SetInduction
<1>5. ASSUME NEW k \in 1..n PROVE g[k] = f[k]
  <2>0. k - 1 \in Nat /\ (k - 1) + 1 = k /\ k <= n
    OBVIOUS
  <2>1. k - 1 \in T
    BY <1>4, <2>0
  <2> QED
    BY <2>0, <2>1
<1> QED
  BY <1>5

LEMMA FlattenIsJoin ==
  ASSUME NEW S, NEW q \in Seq(Seq(S)), Len(q) # 0, NEW f, JoinsTo(S, q, Len(q), f)
  PROVE  FlattenSeq(q) = f[Len(q)]
<1> DEFINE IsJoin(g) == g = [k \in 1..Len(q) |-> IF k = 1 THEN q[k] ELSE g[k - 1] \o q[k]]
<1>1. IsJoin(f)
  <2>1. f = [k \in 1..Len(q) |-> f[k]]
    BY DEF JoinsTo
  <2>2. \A k \in 1..Len(q) : f[k] = IF k = 1 THEN q[k] ELSE f[k - 1] \o q[k]
    BY DEF JoinsTo
  <2>3. f = [k \in 1..Len(q) |-> IF k = 1 THEN q[k] ELSE f[k - 1] \o q[k]]
    BY <2>1, <2>2, Zenon
  <2> QED
    BY <2>3
<1>2. PICK g : g = CHOOSE h : IsJoin(h)
  OBVIOUS
<1>3. IsJoin(g)
  BY <1>1, <1>2
<1>4. FlattenSeq(q) = g[Len(q)]
  BY <1>2 DEF FlattenSeq
<1>5. \A k \in 1..Len(q) : g[k] = IF k = 1 THEN q[k] ELSE g[k - 1] \o q[k]
  BY <1>3
<1>6. Len(q) \in Nat /\ Len(q) \in 1..Len(q)
  OBVIOUS
<1> HIDE DEF IsJoin
<1> QED
  BY <1>4, <1>5, <1>6, JoinUnique

LEMMA FlattenEmpty == FlattenSeq(<<>>) = <<>>
BY DEF FlattenSeq

LEMMA EmptyIfNone == ASSUME NEW S, NEW q \in Seq(S), Len(q) = 0 PROVE q = <<>>
OBVIOUS

LEMMA ElementIn ==
  ASSUME NEW S, NEW b \in Seq(S), NEW n \in 1..Len(b)
  PROVE  b[n] \in S
OBVIOUS

LEMMA JoinType ==
  ASSUME NEW S, NEW a \in Seq(S), NEW b \in Seq(S)
  PROVE  /\ a \o b \in Seq(S) /\ Len(a \o b) = Len(a) + Len(b)
         /\ Len(a) \in Nat /\ Len(b) \in Nat
         /\ \A p \in 1..Len(a) : (a \o b)[p] = a[p]
         /\ \A p \in 1..Len(b) : (a \o b)[Len(a) + p] = b[p]
OBVIOUS

LEMMA EmptyBefore == ASSUME NEW S, NEW e \in Seq(S) PROVE <<>> \o e = e
OBVIOUS

\* One sequence more is joined to the others.
LEMMA FlattenAppend ==
  ASSUME NEW S, NEW q \in Seq(Seq(S)), NEW e \in Seq(S)
  PROVE  FlattenSeq(Append(q, e)) = FlattenSeq(q) \o e /\ FlattenSeq(q) \in Seq(S)
<1>1. PICK n \in Nat : n = Len(q)
  OBVIOUS
<1>2. PICK r : r = Append(q, e)
  OBVIOUS
<1>3. r \in Seq(Seq(S)) /\ Len(r) = n + 1 /\ r[n + 1] = e /\ \A k \in 1..n : r[k] = q[k]
  BY <1>1, <1>2
<1>4. PICK f : JoinsTo(S, r, n + 1, f)
  BY <1>3, JoinExists DEF CanJoin
<1>5. FlattenSeq(r) = f[n + 1]
  BY <1>1, <1>3, <1>4, FlattenIsJoin
<1>6. f[n + 1] = IF n = 0 THEN e ELSE f[n] \o e
  <2>1. n + 1 \in 1..(n + 1) /\ (n + 1) - 1 = n /\ (n + 1 = 1 <=> n = 0)
    BY <1>1
  <2>2. f[n + 1] = IF n + 1 = 1 THEN r[n + 1] ELSE f[(n + 1) - 1] \o r[n + 1]
    BY <1>4, <2>1 DEF JoinsTo
  <2> QED
    BY <1>3, <2>1, <2>2
<1>7. CASE n = 0
  <2>1. q = <<>>
    BY <1>1, <1>7, EmptyIfNone
  <2>2. FlattenSeq(q) = <<>>
    BY <2>1, FlattenEmpty
  <2>3. <<>> \in Seq(S)
    OBVIOUS
  <2> QED
    BY <1>2, <1>5, <1>6, <1>7, <2>2, <2>3, EmptyBefore
<1>8. CASE n # 0
  <2>1. PICK g : JoinsTo(S, q, n, g)
    BY <1>1, JoinExists DEF CanJoin
  <2>2. ASSUME NEW k \in 1..n PROVE f[k] = IF k = 1 THEN q[k] ELSE f[k - 1] \o q[k]
    <3>1. k \in 1..(n + 1) /\ r[k] = q[k]
      BY <1>3
    <3>2. f[k] = IF k = 1 THEN r[k] ELSE f[k - 1] \o r[k]
      BY <1>4, <3>1 DEF JoinsTo
    <3> QED
      BY <3>1, <3>2
  <2>3. n \in 1..n
    BY <1>8
  <2>4. f[n] = g[n]
    BY <2>1, <2>2, <2>3, JoinUnique
  <2>5. FlattenSeq(q) = g[n]
    BY <1>1, <1>8, <2>1, FlattenIsJoin
  <2>6. g[n] \in Seq(S)
    BY <2>1, <2>3 DEF JoinsTo
  <2> QED
    BY <1>2, <1>5, <1>6, <1>8, <2>4, <2>5, <2>6
<1> QED
  BY <1>7, <1>8

\* The first m sequences joined, and where the m-th ends.
Joined(q, m) == FlattenSeq(SubSeq(q, 1, m))
EndOf(q, m) == Len(Joined(q, m))

LEMMA FirstPieces ==
  ASSUME NEW S, NEW q \in Seq(S), NEW m \in 1..Len(q)
  PROVE  SubSeq(q, 1, m) = Append(SubSeq(q, 1, m - 1), q[m]) /\ SubSeq(q, 1, m - 1) \in Seq(S)
OBVIOUS

LEMMA JoinedStep ==
  ASSUME NEW S, NEW q \in Seq(Seq(S)), NEW m \in 1..Len(q)
  PROVE  /\ Joined(q, m) = Joined(q, m - 1) \o q[m]
         /\ Joined(q, m - 1) \in Seq(S) /\ q[m] \in Seq(S) /\ Joined(q, m) \in Seq(S)
         /\ EndOf(q, m) = EndOf(q, m - 1) + Len(q[m])
<1>1. PICK r, e : r = SubSeq(q, 1, m - 1) /\ e = q[m]
  OBVIOUS
<1>2. r \in Seq(Seq(S)) /\ e \in Seq(S)
  BY <1>1, FirstPieces, ElementIn
<1>3. SubSeq(q, 1, m) = Append(r, e)
  BY <1>1, FirstPieces
<1>4. FlattenSeq(Append(r, e)) = FlattenSeq(r) \o e /\ FlattenSeq(r) \in Seq(S)
  BY <1>2, FlattenAppend
<1>5. PICK u : u = FlattenSeq(r)
  OBVIOUS
<1>6. u \o e \in Seq(S) /\ Len(u \o e) = Len(u) + Len(e) /\ u \in Seq(S)
  BY <1>2, <1>4, <1>5, JoinType
<1>7. Joined(q, m - 1) = u /\ Joined(q, m) = u \o e
  BY <1>1, <1>3, <1>4, <1>5 DEF Joined
<1> QED
  BY <1>1, <1>2, <1>6, <1>7 DEF EndOf

LEMMA JoinedNone == ASSUME NEW S, NEW q \in Seq(S) PROVE Joined(q, 0) = <<>> /\ EndOf(q, 0) = 0
<1>1. SubSeq(q, 1, 0) = <<>>
  OBVIOUS
<1>2. Joined(q, 0) = <<>>
  BY <1>1, FlattenEmpty DEF Joined
<1>3. Len(<<>>) = 0
  OBVIOUS
<1> QED
  BY <1>2, <1>3 DEF EndOf

LEMMA JoinedAll == ASSUME NEW S, NEW q \in Seq(S) PROVE Joined(q, Len(q)) = FlattenSeq(q)
<1>1. SubSeq(q, 1, Len(q)) = q
  OBVIOUS
<1> QED
  BY <1>1 DEF Joined

LEMMA JoinedType ==
  ASSUME NEW S, NEW q \in Seq(Seq(S)), NEW m \in 0..Len(q)
  PROVE  Joined(q, m) \in Seq(S) /\ EndOf(q, m) \in Nat
<1>1. Joined(q, m) \in Seq(S)
  <2>1. CASE m = 0
    <3>1. <<>> \in Seq(S)
      OBVIOUS
    <3> QED
      BY <2>1, <3>1, JoinedNone
  <2>2. CASE m # 0
    <3>1. m \in 1..Len(q)
      BY <2>2
    <3> QED
      BY <3>1, JoinedStep
  <2> QED
    BY <2>1, <2>2
<1> QED
  BY <1>1 DEF EndOf

\* What is joined later comes behind.
LEMMA JoinedGrows ==
  ASSUME NEW S, NEW q \in Seq(Seq(S)), NEW a \in 0..Len(q), NEW b \in a..Len(q)
  PROVE  /\ EndOf(q, a) <= EndOf(q, b)
         /\ \A p \in 1..EndOf(q, a) : Joined(q, b)[p] = Joined(q, a)[p]
<1> DEFINE Behind(m) == /\ EndOf(q, a) <= EndOf(q, m)
                        /\ \A p \in 1..EndOf(q, a) : Joined(q, m)[p] = Joined(q, a)[p]
           T == {m \in Nat : a + m <= Len(q) => Behind(a + m)}
<1>1. EndOf(q, a) \in Nat
  BY JoinedType
<1>2. 0 \in T
  BY <1>1
<1>3. ASSUME NEW m \in T, a + (m + 1) <= Len(q) PROVE Behind(a + (m + 1))
  <2>1. PICK k \in 1..Len(q) : k = a + (m + 1) /\ k - 1 = a + m /\ k - 1 \in 0..Len(q)
    BY <1>3
  <2>2. Behind(k - 1)
    BY <1>3, <2>1
  <2>3. PICK u, v : u = Joined(q, k - 1) /\ v = q[k]
    OBVIOUS
  <2>8. u \in Seq(S) /\ v \in Seq(S) /\ Joined(q, k) = u \o v
    BY <2>3, JoinedStep
  <2>4. Len(u \o v) = Len(u) + Len(v) /\ Len(u) \in Nat /\ Len(v) \in Nat
        /\ \A p \in 1..Len(u) : (u \o v)[p] = u[p]
    BY <2>8, JoinType
  <2>5. EndOf(q, k - 1) = Len(u) /\ EndOf(q, k) = Len(u) + Len(v)
    BY <2>3, <2>4, <2>8 DEF EndOf
  <2>6. EndOf(q, a) <= EndOf(q, k)
    BY <1>1, <2>2, <2>5
  <2>7. ASSUME NEW p \in 1..EndOf(q, a) PROVE Joined(q, k)[p] = Joined(q, a)[p]
    <3>1. p \in 1..Len(u)
      BY <1>1, <2>2, <2>5
    <3> QED
      BY <2>2, <2>3, <2>4, <2>8, <3>1
  <2> QED
    BY <2>1, <2>6, <2>7
<1>4. \A m \in T : m + 1 \in T
  BY <1>3
<1>5. T = Nat
  <2> HIDE DEF T
  <2>1. T \in SUBSET Nat
    BY DEF T
  <2> QED
    BY <1>2, <1>4, <2>1, SetInduction
<1>6. PICK m \in Nat : b = a + m /\ b <= Len(q)
  <2>1. b - a \in Nat /\ b = a + (b - a)
    OBVIOUS
  <2> QED
    BY <2>1
<1>7. m \in T
  BY <1>5
<1> QED
  BY <1>6, <1>7

\* Where the bytes of a piece are.
LEMMA InPiece ==
  ASSUME NEW S, NEW q \in Seq(Seq(S)), NEW m \in 1..Len(q), NEW p \in 1..Len(q[m])
  PROVE  /\ EndOf(q, m - 1) + p \in 1..EndOf(q, m)
         /\ EndOf(q, m) <= Len(FlattenSeq(q))
         /\ FlattenSeq(q)[EndOf(q, m - 1) + p] = q[m][p]
<1>0. PICK u, v : u = Joined(q, m - 1) /\ v = q[m]
  OBVIOUS
<1>1. u \in Seq(S) /\ v \in Seq(S) /\ Joined(q, m) = u \o v
  BY <1>0, JoinedStep
<1>2. p \in 1..Len(v) /\ Len(u) \in Nat /\ Len(v) \in Nat
  BY <1>0, <1>1
<1>3. Len(u \o v) = Len(u) + Len(v) /\ (u \o v)[Len(u) + p] = v[p]
  BY <1>1, <1>2, JoinType
<1>4. EndOf(q, m - 1) = Len(u) /\ EndOf(q, m) = Len(u) + Len(v)
  BY <1>0, <1>1, <1>3 DEF EndOf
<1>5. EndOf(q, m - 1) + p \in 1..EndOf(q, m)
  BY <1>2, <1>4
<1>6. m \in 0..Len(q) /\ Len(q) \in m..Len(q)
  OBVIOUS
<1>7. /\ EndOf(q, m) <= EndOf(q, Len(q))
      /\ Joined(q, Len(q))[EndOf(q, m - 1) + p] = Joined(q, m)[EndOf(q, m - 1) + p]
  BY <1>5, <1>6, JoinedGrows
<1>8. Joined(q, Len(q)) = FlattenSeq(q)
  BY JoinedAll
<1> QED
  BY <1>0, <1>1, <1>3, <1>4, <1>5, <1>7, <1>8 DEF EndOf

\* Every byte is in one of the pieces.
LEMMA SomePiece ==
  ASSUME NEW S, NEW q \in Seq(Seq(S)), NEW n \in 0..Len(q), NEW p \in 1..EndOf(q, n)
  PROVE  \E m \in 1..n : \E r \in 1..Len(q[m]) : p = EndOf(q, m - 1) + r
<1> DEFINE T == {m \in Nat : m <= Len(q) /\ p <= EndOf(q, m)}
<1>1. n \in T /\ p \in Nat \ {0}
  BY JoinedType
<1>2. PICK m \in T : \A k \in T : m <= k
  <2> HIDE DEF T
  <2>1. T \in SUBSET Nat
    BY DEF T
  <2> QED
    BY <1>1, <2>1, LeastNat
<1>3. m # 0
  BY <1>1, <1>2, JoinedNone
<1>4. m \in 1..n /\ m \in 1..Len(q) /\ m - 1 \in Nat /\ m - 1 \in 0..Len(q)
  BY <1>1, <1>2, <1>3
<1>5. m - 1 \notin T
  BY <1>2, <1>4
<1>6. PICK before \in Nat : before = EndOf(q, m - 1)
  BY <1>4, JoinedType
<1>7. ~(p <= before)
  BY <1>4, <1>5, <1>6
<1>8. PICK l \in Nat : l = Len(q[m]) /\ EndOf(q, m) = before + l
  <2>1. PICK v \in Seq(S) : v = q[m]
    BY <1>4, JoinedStep
  <2>2. Len(v) \in Nat
    OBVIOUS
  <2> QED
    BY <1>4, <1>6, <2>1, <2>2, JoinedStep
<1>9. p - before \in 1..l /\ p = before + (p - before)
  BY <1>1, <1>2, <1>7, <1>8
<1> QED
  BY <1>4, <1>6, <1>8, <1>9

-----------------------------------------------------------------------------
(***************************************************************************)
(* How a table is made                                                     *)
(***************************************************************************)

Made(st) == Body(st) \o Strings(st)

WithNul(st) == [k \in 1..Len(st.strings) |-> st.strings[k] \o <<0>>]

LEMMA WithNulType ==
  ASSUME NEW st \in StructureType
  PROVE  /\ WithNul(st) \in Seq(Seq(Byte)) /\ Len(WithNul(st)) = Len(st.strings)
         /\ Len(st.strings) \in Nat
         /\ \A k \in 1..Len(st.strings) :
              LET str == st.strings[k]
              IN  /\ str \in Seq(Byte) /\ Len(str) \in Nat
                  /\ Len(WithNul(st)[k]) = Len(str) + 1
                  /\ WithNul(st)[k][Len(str) + 1] = 0
                  /\ \A p \in 1..Len(str) : WithNul(st)[k][p] = str[p]
<1>1. PICK all \in Seq(Seq(Byte)) : all = st.strings
  BY DEF StructureType
<1>2. PICK n \in Nat : n = Len(all)
  OBVIOUS
<1>3. <<0>> \in Seq(Byte) /\ Len(<<0>>) = 1 /\ <<0>>[1] = 0
  BY DEF Byte
<1>4. ASSUME NEW k \in 1..n
      PROVE  /\ all[k] \in Seq(Byte) /\ Len(all[k]) \in Nat
             /\ all[k] \o <<0>> \in Seq(Byte)
             /\ Len(all[k] \o <<0>>) = Len(all[k]) + 1
             /\ (all[k] \o <<0>>)[Len(all[k]) + 1] = 0
             /\ \A p \in 1..Len(all[k]) : (all[k] \o <<0>>)[p] = all[k][p]
  <2>1. PICK str : str = all[k]
    OBVIOUS
  <2>2. str \in Seq(Byte)
    BY <1>2, <2>1, ElementIn
  <2>3. PICK nul : nul = <<0>>
    OBVIOUS
  <2>4. /\ str \o nul \in Seq(Byte) /\ Len(str \o nul) = Len(str) + 1
        /\ \A p \in 1..Len(str) : (str \o nul)[p] = str[p]
        /\ (str \o nul)[Len(str) + 1] = nul[1]
        /\ Len(str) \in Nat
    BY <1>3, <2>2, <2>3, JoinType
  <2> QED
    BY <1>3, <2>1, <2>2, <2>3, <2>4
<1>5. PICK z : z = WithNul(st)
  OBVIOUS
<1>6. z = [k \in 1..n |-> all[k] \o <<0>>]
  BY <1>1, <1>2, <1>5 DEF WithNul
<1>7. z \in [1..n -> Seq(Byte)] /\ \A k \in 1..n : z[k] = all[k] \o <<0>>
  BY <1>4, <1>6
<1>8. z \in Seq(Seq(Byte)) /\ Len(z) = n
  BY <1>7
<1> QED
  BY <1>1, <1>2, <1>4, <1>5, <1>7, <1>8

LEMMA BodyMade ==
  ASSUME NEW st \in StructureType
  PROVE  /\ Body(st) \in Seq(Byte) /\ Len(Body(st)) = BodySize(st.type)
         /\ BodySize(st.type) \in {4, 8, 18}
         /\ Body(st)[1] = st.type /\ Body(st)[2] = st.claims
         /\ BodySize(st.type) > 4 => \A f \in 1..4 : Body(st)[4 + f] = st.index[f]
<1>1. st.type \in Byte /\ st.claims \in Byte /\ st.index \in [1..4 -> Byte]
  BY DEF StructureType
<1>2. BodySize(st.type) \in {4, 8, 18}
  BY <1>1 DEF BodySize, Byte
<1>3. PICK a : a = <<st.type, st.claims, 0, 1>>
  OBVIOUS
<1>4. a \in Seq(Byte) /\ Len(a) = 4 /\ a[1] = st.type /\ a[2] = st.claims
  <2>1. 0 \in Byte /\ 1 \in Byte
    BY DEF Byte
  <2> QED
    BY <1>1, <1>3, <2>1, FourInSeq
<1>5. PICK b : b = st.index
  OBVIOUS
<1>6. b \in Seq(Byte) /\ Len(b) = 4
  <2>1. b \in [1..4 -> Byte] /\ 4 \in Nat
    BY <1>1, <1>5
  <2> QED
    BY <2>1, FunIsSeq
<1>7. PICK c : c = [k \in 1..18 |-> 0]
  OBVIOUS
<1>8. c \in Seq(Byte) /\ Len(c) = 18
  <2>1. c \in [1..18 -> Byte]
    BY <1>7 DEF Byte
  <2>2. 18 \in Nat
    OBVIOUS
  <2> QED
    BY <2>1, <2>2, FunIsSeq
<1>9. PICK d : d = a \o b
  OBVIOUS
<1>10. /\ d \in Seq(Byte) /\ Len(d) = 8 /\ d[1] = st.type /\ d[2] = st.claims
       /\ \A f \in 1..4 : d[4 + f] = b[f]
  <2>1. a \in Seq(Byte) /\ b \in Seq(Byte)
    BY <1>4, <1>6
  <2>2. /\ d \in Seq(Byte) /\ Len(d) = Len(a) + Len(b)
        /\ Len(a) \in Nat /\ Len(b) \in Nat
        /\ \A p \in 1..Len(a) : d[p] = a[p]
        /\ \A p \in 1..Len(b) : d[Len(a) + p] = b[p]
    <3>1. /\ a \o b \in Seq(Byte) /\ Len(a \o b) = Len(a) + Len(b)
          /\ Len(a) \in Nat /\ Len(b) \in Nat
          /\ \A p \in 1..Len(a) : (a \o b)[p] = a[p]
          /\ \A p \in 1..Len(b) : (a \o b)[Len(a) + p] = b[p]
      BY <2>1, JoinType
    <3> QED
      BY <1>9, <3>1, Zenon
  <2> QED
    BY <1>4, <1>6, <2>2
<1>11. PICK e : e = d \o c
  OBVIOUS
<1>12. e \in Seq(Byte) /\ Len(e) = 26 /\ \A p \in 1..8 : e[p] = d[p]
  <2>1. d \in Seq(Byte) /\ c \in Seq(Byte)
    BY <1>8, <1>10
  <2>2. /\ e \in Seq(Byte) /\ Len(e) = Len(d) + Len(c)
        /\ Len(d) \in Nat /\ Len(c) \in Nat
        /\ \A p \in 1..Len(d) : e[p] = d[p]
        /\ \A p \in 1..Len(c) : e[Len(d) + p] = c[p]
    <3>1. /\ d \o c \in Seq(Byte) /\ Len(d \o c) = Len(d) + Len(c)
          /\ Len(d) \in Nat /\ Len(c) \in Nat
          /\ \A p \in 1..Len(d) : (d \o c)[p] = d[p]
          /\ \A p \in 1..Len(c) : (d \o c)[Len(d) + p] = c[p]
      BY <2>1, JoinType
    <3> QED
      BY <1>11, <3>1, Zenon
  <2> QED
    BY <1>8, <1>10, <2>2
<1>13. e[1] = st.type /\ e[2] = st.claims /\ \A f \in 1..4 : e[4 + f] = st.index[f]
  <2>1. \A f \in 1..4 : 4 + f \in 1..8
    OBVIOUS
  <2> QED
    BY <1>5, <1>10, <1>12, <2>1
<1>14. PICK m \in {4, 8, 18} : m = BodySize(st.type)
  BY <1>2
<1>15. Body(st) = SubSeq(e, 1, m)
  BY <1>3, <1>5, <1>7, <1>9, <1>11, <1>14 DEF Body
<1>16. /\ SubSeq(e, 1, m) \in Seq(Byte) /\ Len(SubSeq(e, 1, m)) = m
       /\ \A p \in 1..m : SubSeq(e, 1, m)[p] = e[p]
  <2>1. m \in 0..Len(e) /\ e \in Seq(Byte)
    BY <1>12
  <2> QED
    BY <2>1, FirstOf
<1>17. 1 \in 1..m /\ 2 \in 1..m /\ (m > 4 => \A f \in 1..4 : 4 + f \in 1..m)
  OBVIOUS
<1> QED
  BY <1>13, <1>14, <1>15, <1>16, <1>17

\* Where the strings are, and that two NULs are nowhere but at the end.
LEMMA StringsMade ==
  ASSUME NEW st \in StructureType, NEW n \in Nat, n = Len(st.strings)
  PROVE  /\ Strings(st) \in Seq(Byte)
         /\ Len(Strings(st)) = IF n = 0 THEN 2 ELSE EndOf(WithNul(st), n) + 1
         /\ EndOf(WithNul(st), n) \in Nat
         /\ \A p \in 1..EndOf(WithNul(st), n) : Strings(st)[p] = FlattenSeq(WithNul(st))[p]
         /\ Strings(st)[Len(Strings(st))] = 0
         /\ n = 0 => Strings(st)[1] = 0
<1>1. PICK z : z = WithNul(st)
  OBVIOUS
<1>2. z \in Seq(Seq(Byte)) /\ Len(z) = n
  BY <1>1, WithNulType
<1>3. PICK all : all = FlattenSeq(z)
  OBVIOUS
<1>4. all \in Seq(Byte) /\ Len(all) = EndOf(z, n) /\ Len(all) \in Nat
  <2>1. n \in 0..Len(z)
    BY <1>2
  <2>2. Joined(z, n) = all
    BY <1>2, <1>3, JoinedAll
  <2> QED
    BY <1>2, <2>1, <2>2, JoinedType DEF EndOf
<1>5. CASE n = 0
  <2>1. st.strings = <<>>
    <3>1. st.strings \in Seq(Seq(Byte))
      BY DEF StructureType
    <3> QED
      BY <1>5, <3>1, EmptyIfNone
  <2>2. Strings(st) = <<0, 0>>
    BY <2>1 DEF Strings
  <2>3. <<0, 0>> \in Seq(Byte) /\ Len(<<0, 0>>) = 2 /\ <<0, 0>>[2] = 0 /\ <<0, 0>>[1] = 0
    BY DEF Byte
  <2>4. EndOf(z, n) = 0
    BY <1>2, <1>5, JoinedNone
  <2> QED
    BY <1>1, <1>5, <2>2, <2>3, <2>4
<1>6. CASE n # 0
  <2>1. st.strings # <<>>
    BY <1>6
  <2>2. FlattenSeq([k \in DOMAIN st.strings |-> st.strings[k] \o <<0>>]) = all
    <3>1. DOMAIN st.strings = 1..Len(st.strings)
      BY DEF StructureType
    <3> QED
      BY <1>1, <1>3, <3>1 DEF WithNul
  <2>3. PICK nul : nul = <<0>>
    OBVIOUS
  <2>4. nul \in Seq(Byte) /\ Len(nul) = 1 /\ nul[1] = 0
    <3>1. 0 \in Byte
      BY DEF Byte
    <3> QED
      BY <2>3, <3>1, OneInSeq
  <2>5. PICK whole : whole = all \o nul
    OBVIOUS
  <2>6. Strings(st) = whole
    BY <2>1, <2>2, <2>3, <2>5 DEF Strings
  <2>7. /\ whole \in Seq(Byte) /\ Len(whole) = Len(all) + Len(nul)
        /\ Len(all) \in Nat /\ Len(nul) \in Nat
        /\ \A p \in 1..Len(all) : whole[p] = all[p]
        /\ \A p \in 1..Len(nul) : whole[Len(all) + p] = nul[p]
    <3>0. all \in Seq(Byte) /\ nul \in Seq(Byte)
      BY <1>4, <2>4
    <3>1. /\ all \o nul \in Seq(Byte) /\ Len(all \o nul) = Len(all) + Len(nul)
          /\ Len(all) \in Nat /\ Len(nul) \in Nat
          /\ \A p \in 1..Len(all) : (all \o nul)[p] = all[p]
          /\ \A p \in 1..Len(nul) : (all \o nul)[Len(all) + p] = nul[p]
      BY <3>0, JoinType
    <3> QED
      BY <2>5, <3>1, Zenon
  <2>8. whole[Len(all) + 1] = 0
    BY <2>4, <2>7
  <2> QED
    BY <1>1, <1>3, <1>4, <1>6, <2>4, <2>6, <2>7, <2>8
<1> QED
  BY <1>5, <1>6

\* Each string lies behind those before it, its NUL behind it; one NUL is behind all.
LEMMA StringPlaces ==
  ASSUME NEW st \in StructureType, NEW s \in 1..Len(st.strings)
  PROVE  LET str == st.strings[s]
             a == EndOf(WithNul(st), s - 1)
         IN  /\ a \in Nat /\ Len(str) \in Nat /\ str \in Seq(Byte)
             /\ EndOf(WithNul(st), s) = a + Len(str) + 1
             /\ a + Len(str) + 1 <= EndOf(WithNul(st), Len(st.strings))
             /\ \A p \in 1..Len(str) : Strings(st)[a + p] = str[p]
             /\ Strings(st)[a + Len(str) + 1] = 0
<1>1. PICK z : z = WithNul(st)
  OBVIOUS
<1>2. PICK n : n = Len(st.strings)
  OBVIOUS
<1>3. PICK str : str = st.strings[s]
  OBVIOUS
<1>4. /\ z \in Seq(Seq(Byte)) /\ Len(z) = n /\ n \in Nat
      /\ str \in Seq(Byte) /\ Len(str) \in Nat
      /\ Len(z[s]) = Len(str) + 1 /\ z[s][Len(str) + 1] = 0
      /\ \A p \in 1..Len(str) : z[s][p] = str[p]
  BY <1>1, <1>2, <1>3, WithNulType
<1>5. s \in 1..Len(z) /\ s \in 0..Len(z) /\ s - 1 \in 0..Len(z) /\ n \in s..Len(z) /\ n \in 0..Len(z)
  BY <1>2, <1>4
<1>6. PICK a : a = EndOf(z, s - 1)
  OBVIOUS
<1>7. a \in Nat
  BY <1>4, <1>5, <1>6, JoinedType
<1>8. EndOf(z, s) = a + Len(str) + 1
  <2>1. z \in Seq(Seq(Byte)) /\ s \in 1..Len(z)
    BY <1>4, <1>5
  <2>2. EndOf(z, s) = EndOf(z, s - 1) + Len(z[s])
    BY <2>1, JoinedStep
  <2> QED
    BY <1>4, <1>6, <1>7, <2>2
<1>9. EndOf(z, s) <= EndOf(z, n)
  BY <1>4, <1>5, JoinedGrows
<1>10. ASSUME NEW p \in 1..(Len(str) + 1)
       PROVE  Strings(st)[a + p] = z[s][p]
  <2>1. p \in 1..Len(z[s])
    BY <1>4
  <2>2. FlattenSeq(z)[a + p] = z[s][p]
    BY <1>4, <1>5, <1>6, <2>1, InPiece
  <2>3. a + p \in 1..EndOf(z, n)
    <3>1. EndOf(z, n) \in Nat
      BY <1>4, <1>5, JoinedType
    <3> QED
      BY <1>4, <1>7, <1>8, <1>9, <3>1
  <2>4. \A r \in 1..EndOf(z, n) : Strings(st)[r] = FlattenSeq(z)[r]
    BY <1>1, <1>2, <1>4, StringsMade
  <2> QED
    BY <2>2, <2>3, <2>4
<1>11. Len(str) + 1 \in 1..(Len(str) + 1) /\ a + (Len(str) + 1) = a + Len(str) + 1
  BY <1>4, <1>7
<1>12. Strings(st)[a + Len(str) + 1] = 0
  BY <1>4, <1>10, <1>11
<1>13. \A p \in 1..Len(str) : p \in 1..(Len(str) + 1)
  BY <1>4
<1>14. \A p \in 1..Len(str) : Strings(st)[a + p] = str[p]
  BY <1>4, <1>10, <1>13
<1> QED
  BY <1>1, <1>2, <1>3, <1>4, <1>6, <1>7, <1>8, <1>9, <1>12, <1>14

LEMMA StringsEnd ==
  ASSUME NEW st \in StructureType, NEW n, n = Len(st.strings)
  PROVE  /\ n \in Nat /\ EndOf(WithNul(st), n) \in Nat /\ EndOf(WithNul(st), 0) = 0
         /\ Strings(st) \in Seq(Byte) /\ Len(Strings(st)) \in Nat /\ Len(Strings(st)) >= 2
         /\ n # 0 => Len(Strings(st)) = EndOf(WithNul(st), n) + 1
         /\ n = 0 => Len(Strings(st)) = 2
         /\ Strings(st)[Len(Strings(st)) - 1] = 0 /\ Strings(st)[Len(Strings(st))] = 0
         /\ Strings(st)[EndOf(WithNul(st), n) + 1] = 0
<1>1. WithNul(st) \in Seq(Seq(Byte)) /\ n \in Nat
  BY WithNulType
<1>2. EndOf(WithNul(st), 0) = 0
  BY <1>1, JoinedNone
<1>3. /\ Strings(st) \in Seq(Byte)
      /\ Len(Strings(st)) = IF n = 0 THEN 2 ELSE EndOf(WithNul(st), n) + 1
      /\ EndOf(WithNul(st), n) \in Nat
      /\ Strings(st)[Len(Strings(st))] = 0
      /\ n = 0 => Strings(st)[1] = 0
  BY <1>1, StringsMade
<1>4. CASE n = 0
  BY <1>1, <1>2, <1>3, <1>4
<1>5. CASE n # 0
  <2>1. n \in 1..Len(st.strings)
    BY <1>1, <1>5
  <2>2. PICK a \in Nat, k \in Nat : EndOf(WithNul(st), n) = a + k + 1 /\ Strings(st)[a + k + 1] = 0
    BY <2>1, StringPlaces
  <2> QED
    BY <1>1, <1>2, <1>3, <1>5, <2>2
<1> QED
  BY <1>4, <1>5

\* Two NULs are nowhere but at the end.
LEMMA NoTwoNuls ==
  ASSUME NEW st \in StructureType, GoodStructure(st), NEW p \in 1..(Len(Strings(st)) - 2)
  PROVE  ~(Strings(st)[p] = 0 /\ Strings(st)[p + 1] = 0)
<1>1. PICK z : z = WithNul(st)
  OBVIOUS
<1>2. PICK n : n = Len(st.strings)
  OBVIOUS
<1>3. /\ n \in Nat /\ EndOf(z, n) \in Nat /\ Len(Strings(st)) \in Nat
      /\ n # 0 => Len(Strings(st)) = EndOf(z, n) + 1
      /\ n = 0 => Len(Strings(st)) = 2
  BY <1>1, <1>2, StringsEnd
<1>4. n # 0 /\ p \in 1..EndOf(z, n) /\ p < EndOf(z, n)
  <2>1. PICK l : l = Len(Strings(st))
    OBVIOUS
  <2>2. l \in Nat /\ p \in 1..(l - 2)
    BY <1>3, <2>1
  <2>3. n # 0
    BY <1>3, <2>1, <2>2
  <2>4. l = EndOf(z, n) + 1
    BY <1>3, <2>1, <2>3
  <2> QED
    BY <1>3, <2>2, <2>3, <2>4
<1>5. z \in Seq(Seq(Byte)) /\ Len(z) = n
  BY <1>1, <1>2, WithNulType
<1>6. n \in 0..Len(z)
  BY <1>3, <1>5
<1>7. PICK m \in 1..n : \E r \in 1..Len(z[m]) : p = EndOf(z, m - 1) + r
  BY <1>4, <1>5, <1>6, SomePiece
<1>8. PICK r \in 1..Len(z[m]) : p = EndOf(z, m - 1) + r
  BY <1>7
<1>9. PICK str : str = st.strings[m]
  OBVIOUS
<1>10. m \in 1..Len(st.strings)
  BY <1>2
<1>11. /\ EndOf(z, m - 1) \in Nat /\ Len(str) \in Nat
       /\ EndOf(z, m) = EndOf(z, m - 1) + Len(str) + 1
       /\ \A q \in 1..Len(str) : Strings(st)[EndOf(z, m - 1) + q] = str[q]
  BY <1>1, <1>9, <1>10, StringPlaces
<1>12. Len(z[m]) = Len(str) + 1
  BY <1>1, <1>9, <1>10, WithNulType
<1>13. CASE r <= Len(str)
  <2>1. r \in 1..Len(str)
    BY <1>8, <1>11, <1>12, <1>13
  <2>2. str[r] # 0
    BY <1>9, <1>10, <2>1 DEF GoodStructure
  <2> QED
    BY <1>8, <1>11, <2>1, <2>2
<1>14. CASE ~(r <= Len(str))
  <2>1. r = Len(str) + 1 /\ p = EndOf(z, m)
    BY <1>8, <1>11, <1>12, <1>14
  <2>2. m + 1 \in 1..Len(st.strings) /\ (m + 1) - 1 = m
    BY <1>2, <1>3, <1>4, <2>1
  <2>3. PICK more : more = st.strings[m + 1]
    OBVIOUS
  <2>4. /\ Len(more) \in Nat /\ more \in Seq(Byte)
        /\ \A q \in 1..Len(more) : Strings(st)[EndOf(z, m) + q] = more[q]
    <3>1. PICK k : k = m + 1
      OBVIOUS
    <3>2. k \in 1..Len(st.strings) /\ k - 1 = m /\ more = st.strings[k]
      BY <2>2, <2>3, <3>1
    <3> QED
      BY <1>1, <3>2, StringPlaces
  <2>5. more # <<>> /\ \A q \in 1..Len(more) : more[q] # 0
    BY <2>2, <2>3 DEF GoodStructure
  <2>6. Len(more) # 0
    BY <2>4, <2>5, EmptyIfNone
  <2>7. 1 \in 1..Len(more)
    BY <2>4, <2>6
  <2> QED
    BY <2>1, <2>4, <2>5, <2>7
<1> QED
  BY <1>13, <1>14

LEMMA MadeShape ==
  ASSUME NEW st \in StructureType
  PROVE  /\ Made(st) \in Seq(Byte) /\ Len(Made(st)) \in Nat /\ Len(Strings(st)) \in Nat
         /\ BodySize(st.type) \in {4, 8, 18}
         /\ Len(Made(st)) = BodySize(st.type) + Len(Strings(st))
         /\ Made(st)[1] = st.type /\ Made(st)[2] = st.claims
         /\ BodySize(st.type) > 4 => \A f \in 1..4 : Made(st)[4 + f] = st.index[f]
         /\ \A p \in 1..Len(Strings(st)) : Made(st)[BodySize(st.type) + p] = Strings(st)[p]
<1>1. PICK a, b, whole : a = Body(st) /\ b = Strings(st) /\ whole = a \o b
  OBVIOUS
<1>2. PICK m \in {4, 8, 18} : m = BodySize(st.type)
  BY BodyMade
<1>3. /\ a \in Seq(Byte) /\ Len(a) = m
      /\ a[1] = st.type /\ a[2] = st.claims
      /\ m > 4 => \A f \in 1..4 : a[4 + f] = st.index[f]
  BY <1>1, <1>2, BodyMade
<1>4. PICK n : n = Len(st.strings)
  OBVIOUS
<1>5. b \in Seq(Byte)
  BY <1>1, <1>4, StringsEnd
<1>6. a \in Seq(Byte)
  BY <1>3
<1>7. /\ a \o b \in Seq(Byte) /\ Len(a \o b) = Len(a) + Len(b)
      /\ Len(a) \in Nat /\ Len(b) \in Nat
      /\ \A p \in 1..Len(a) : (a \o b)[p] = a[p]
      /\ \A p \in 1..Len(b) : (a \o b)[Len(a) + p] = b[p]
  BY <1>5, <1>6, JoinType
<1>8. /\ whole \in Seq(Byte) /\ Len(whole) = Len(a) + Len(b)
      /\ Len(a) \in Nat /\ Len(b) \in Nat
      /\ \A p \in 1..Len(a) : whole[p] = a[p]
      /\ \A p \in 1..Len(b) : whole[Len(a) + p] = b[p]
  BY <1>1, <1>7, Zenon
<1>9. 1 \in 1..m /\ 2 \in 1..m /\ (m > 4 => \A f \in 1..4 : 4 + f \in 1..m)
  OBVIOUS
<1>10. whole[1] = st.type /\ whole[2] = st.claims /\ (m > 4 => \A f \in 1..4 : whole[4 + f] = st.index[f])
  BY <1>3, <1>8, <1>9
<1>11. Made(st) = whole
  BY <1>1 DEF Made
<1> QED
  <2>1. Len(whole) \in Nat /\ Len(b) \in Nat /\ Len(whole) = m + Len(b)
    BY <1>3, <1>8
  <2>2. \A p \in 1..Len(b) : whole[m + p] = b[p]
    BY <1>3, <1>8, Zenon
  <2> QED
    BY <1>1, <1>2, <1>8, <1>10, <1>11, <2>1, <2>2, Zenon

-----------------------------------------------------------------------------
\* The bytes of each structure of a table, and where the k-th one ends.
Pieces(structures) == [k \in DOMAIN structures |-> Made(structures[k])]

End(k) == EndOf(Pieces(table), k)

LEMMA PiecesType ==
  ASSUME NEW made \in Seq(StructureType)
  PROVE  /\ Pieces(made) \in Seq(Seq(Byte)) /\ Len(Pieces(made)) = Len(made)
         /\ \A k \in 1..Len(made) : made[k] \in StructureType /\ Pieces(made)[k] = Made(made[k])
         /\ Bytes(made) = FlattenSeq(Pieces(made)) /\ Bytes(made) \in Seq(Byte)
         /\ Len(Bytes(made)) = EndOf(Pieces(made), Len(made))
<1>1. PICK n \in Nat : n = Len(made)
  OBVIOUS
<1>2. PICK z : z = Pieces(made)
  OBVIOUS
<1>3. DOMAIN made = 1..n
  BY <1>1
<1>4. \A k \in 1..n : made[k] \in StructureType
  BY <1>1, ElementIn
<1>5. z = [k \in 1..n |-> Made(made[k])]
  BY <1>2, <1>3 DEF Pieces
<1>6. z \in [1..n -> Seq(Byte)] /\ \A k \in 1..n : z[k] = Made(made[k])
  BY <1>4, <1>5, MadeShape
<1>7. z \in Seq(Seq(Byte)) /\ Len(z) = n
  BY <1>6, FunIsSeq
<1>8. Bytes(made) = FlattenSeq(z)
  BY <1>2 DEF Bytes, Pieces, Made
<1>9. Joined(z, n) = FlattenSeq(z)
  BY <1>7, JoinedAll
<1>10. n \in 0..Len(z)
  BY <1>7
<1>11. Joined(z, n) \in Seq(Byte)
  BY <1>7, <1>10, JoinedType
<1> QED
  BY <1>1, <1>2, <1>4, <1>6, <1>7, <1>8, <1>9, <1>11 DEF EndOf

\* The bytes of the first structures are the first bytes.
LEMMA FirstStructures ==
  ASSUME NEW made \in Seq(StructureType), NEW k \in 0..Len(made)
  PROVE  Len(Bytes(SubSeq(made, 1, k))) = EndOf(Pieces(made), k)
<1>1. PICK first : first = SubSeq(made, 1, k)
  OBVIOUS
<1>2. first \in Seq(StructureType) /\ Len(first) = k /\ \A p \in 1..k : first[p] = made[p]
  BY <1>1, FirstOf
<1>3. PICK z : z = Pieces(made)
  OBVIOUS
<1>4. z \in Seq(Seq(Byte)) /\ Len(z) = Len(made) /\ \A p \in 1..Len(made) : z[p] = Made(made[p])
  BY <1>3, PiecesType
<1>5. k \in 0..Len(z)
  BY <1>4
<1>6. PICK u : u = SubSeq(z, 1, k)
  OBVIOUS
<1>7. u \in Seq(Seq(Byte)) /\ Len(u) = k /\ \A p \in 1..k : u[p] = z[p]
  BY <1>4, <1>5, <1>6, FirstOf
<1>8. PICK w : w = Pieces(first)
  OBVIOUS
<1>9. w \in Seq(Seq(Byte)) /\ Len(w) = k /\ \A p \in 1..k : w[p] = Made(first[p])
  BY <1>2, <1>8, PiecesType
<1>10. \A p \in 1..k : p \in 1..Len(made)
  BY <1>4
<1>11. \A p \in 1..k : w[p] = u[p]
  BY <1>2, <1>4, <1>7, <1>9, <1>10
<1>12. w = u
  BY <1>7, <1>9, <1>11, SameElements
<1>13. Bytes(first) = FlattenSeq(w)
  BY <1>2, <1>8, PiecesType
<1> QED
  BY <1>1, <1>3, <1>6, <1>12, <1>13 DEF EndOf, Joined

Built == table \in Seq(StructureType) /\ buf = Bytes(table)

-----------------------------------------------------------------------------
(***************************************************************************)
(* The bytes                                                               *)
(***************************************************************************)

LEMMA ByteAt ==
  ASSUME DmiTypes, NEW n \in Nat
  PROVE  At(n) \in 0..255
<1>1. CASE n < len
  <2>0. buf \in Seq(0..255) /\ len \in 0..Len(buf)
    BY DEF DmiTypes
  <2>1. Len(buf) \in Nat
    BY <2>0
  <2>2. n + 1 \in 1..Len(buf)
    BY <1>1, <2>0, <2>1
  <2>3. buf[n + 1] \in 0..255
    BY <2>0, <2>2, ElementIn
  <2> QED
    BY <1>1, <2>3 DEF At
<1>2. CASE ~(n < len)
  BY <1>2 DEF At
<1> QED
  BY <1>1, <1>2

\* A string ends at the first NUL.
LEMMA NulFound ==
  ASSUME DmiTypes, NEW n \in Nat, NEW z \in Nat, n <= z, z <= n + len, At(z) = 0
  PROVE  Nul(n) \in n..z /\ At(Nul(n)) = 0
<1> DEFINE P == {k \in Nat : At(k) = 0}
<1>1. len \in Nat /\ n + len \in Nat
  BY DEF DmiTypes
<1>2. z \in P /\ z \in n..(n + len)
  BY <1>1
<1>3. PICK k \in n..(n + len) : k \in P /\ \A j \in n..(k - 1) : j \notin P
  BY <1>1, <1>2, LeastBetween
<1>4. \A j \in n..(k - 1) : At(j) # 0
  BY <1>3
<1>5. \E l \in n..(n + len) : At(l) = 0 /\ \A j \in n..(l - 1) : At(j) # 0
  BY <1>3, <1>4
<1>6. /\ Nul(n) \in n..(n + len) /\ At(Nul(n)) = 0
      /\ \A j \in n..(Nul(n) - 1) : At(j) # 0
  BY <1>5 DEF Nul
<1>7. Nul(n) <= z
  <2>1. z \notin n..(Nul(n) - 1)
    BY <1>6
  <2> QED
    BY <1>1, <1>6, <2>1
<1> QED
  BY <1>1, <1>6, <1>7

\* The search for the two NULs comes to an end.
Stop(n) == AtEnd(n) \/ (At(n) = 0 /\ At(n + 1) = 0)

LEMMA TerminatorFound ==
  ASSUME DmiTypes
  PROVE  /\ StringsFrom \in Nat /\ Terminator \in Nat /\ StringsFrom <= Terminator
         /\ Stop(Terminator) /\ \A m \in StringsFrom..(Terminator - 1) : ~Stop(m)
<1>1. len \in Nat /\ data \in Nat /\ At(data + 1) \in 0..255
  BY ByteAt DEF DmiTypes
<1>2. StringsFrom \in Nat
  BY <1>1 DEF StringsFrom
<1>3. PICK s \in Nat : s = StringsFrom
  BY <1>2
<1> DEFINE P == {n \in Nat : Stop(n)}
<1>4. s + len \in Nat /\ s + len \in s..(s + len) /\ AtEnd(s + len)
  BY <1>1 DEF AtEnd
<1>5. s + len \in P
  BY <1>4 DEF Stop
<1>6. PICK k \in s..(s + len) : k \in P /\ \A j \in s..(k - 1) : j \notin P
  BY <1>1, <1>4, <1>5, LeastBetween
<1>7. \A j \in s..(k - 1) : ~Stop(j)
  BY <1>6
<1>8. \E n \in s..(s + len) : Stop(n) /\ \A m \in s..(n - 1) : ~Stop(m)
  BY <1>6, <1>7
<1>9. Terminator = CHOOSE n \in s..(s + len) : Stop(n) /\ \A m \in s..(n - 1) : ~Stop(m)
  BY <1>3 DEF Terminator, Stop
<1>10. Terminator \in s..(s + len) /\ Stop(Terminator) /\ \A m \in s..(Terminator - 1) : ~Stop(m)
  BY <1>8, <1>9
<1> QED
  BY <1>1, <1>3, <1>10

\* No comparison of the search is beyond the table.
LEMMA ScanInBounds ==
  ASSUME DmiTypes, len > 0
  PROVE  ScanReach(Terminator) \in Nat \cup {-1} /\ ScanReach(Terminator) < len
<1>1. PICK s, t : s = StringsFrom /\ t = Terminator
  OBVIOUS
<1>2. /\ s \in Nat /\ t \in Nat /\ s <= t /\ len \in Nat
      /\ \A m \in s..(t - 1) : ~AtEnd(m)
  BY <1>1, TerminatorFound DEF Stop, DmiTypes
<1>3. CASE ~AtEnd(t)
  BY <1>1, <1>2, <1>3 DEF ScanReach, AtEnd
<1>4. CASE AtEnd(t) /\ t = s
  BY <1>1, <1>2, <1>4 DEF ScanReach
<1>5. CASE AtEnd(t) /\ t # s
  <2>1. t - 1 \in s..(t - 1)
    BY <1>2, <1>5
  <2>2. ~AtEnd(t - 1)
    BY <1>2, <2>1
  <2> QED
    BY <1>1, <1>2, <1>5, <2>2 DEF ScanReach, AtEnd
<1> QED
  BY <1>3, <1>4, <1>5

\* A structure that fits ends in two NULs inside the table.
LEMMA TwoNuls ==
  ASSUME DmiTypes, Fits(Terminator + 2)
  PROVE  At(Terminator) = 0 /\ At(Terminator + 1) = 0 /\ Terminator + 1 < len
BY TerminatorFound DEF Stop, AtEnd, Fits, DmiTypes

\* One round of dmi_string's loop, and the places of its first m rounds.
NextString(b) == IF At(b) = 0 THEN b ELSE Nul(b) + 1

Rounds(m, bp) ==
  /\ bp \in [1..m -> Nat]
  /\ \A k \in 1..m : bp[k] = IF k = 1 THEN StringsFrom ELSE NextString(bp[k - 1])

LEMMA NextStringInside ==
  ASSUME DmiTypes, Fits(Terminator + 2), NEW b \in StringsFrom..(Terminator + 1)
  PROVE  NextString(b) \in StringsFrom..(Terminator + 1)
<1>1. PICK from \in Nat, t \in Nat : from = StringsFrom /\ t = Terminator /\ from <= t
  BY TerminatorFound
<1>2. At(t) = 0 /\ At(t + 1) = 0 /\ t + 1 < len /\ len \in Nat
  BY <1>1, TwoNuls DEF DmiTypes
<1>3. b \in Nat /\ b \in from..(t + 1)
  BY <1>1
<1>4. CASE At(b) = 0
  BY <1>4 DEF NextString
<1>5. CASE At(b) # 0
  <2>1. b # t + 1
    BY <1>2, <1>5
  <2>2. b <= t /\ t <= b + len
    BY <1>1, <1>2, <1>3, <2>1
  <2>3. Nul(b) \in b..t
    BY <1>1, <1>2, <1>3, <2>2, NulFound
  <2>4. Nul(b) + 1 \in from..(t + 1)
    BY <1>1, <1>3, <2>3
  <2> QED
    BY <1>1, <1>5, <2>4 DEF NextString
<1> QED
  BY <1>4, <1>5

\* The places of any number of rounds are inside.
LEMMA RoundsInside ==
  ASSUME DmiTypes, Fits(Terminator + 2), NEW m \in Nat, NEW bp,
         \A k \in 1..m : bp[k] = IF k = 1 THEN StringsFrom ELSE NextString(bp[k - 1])
  PROVE  \A k \in 1..m : bp[k] \in StringsFrom..(Terminator + 1)
<1>1. PICK from \in Nat, t \in Nat : from = StringsFrom /\ t = Terminator /\ from <= t
  BY TerminatorFound
<1> DEFINE T == {k \in Nat : k + 1 <= m => bp[k + 1] \in from..(t + 1)}
<1>2. 0 \in T
  BY <1>1
<1>3. ASSUME NEW k \in T, k + 2 <= m PROVE bp[k + 2] \in from..(t + 1)
  <2>1. k \in Nat /\ k + 1 <= m /\ k + 2 \in 1..m /\ (k + 2) - 1 = k + 1 /\ k + 2 # 1
    BY <1>3
  <2>2. bp[k + 1] \in from..(t + 1)
    BY <2>1
  <2>3. bp[k + 2] = NextString(bp[k + 1])
    BY <2>1
  <2> QED
    BY <1>1, <2>2, <2>3, NextStringInside
<1>4. \A k \in T : k + 1 \in T
  BY <1>3
<1>5. T = Nat
  <2> HIDE DEF T
  <2>1. T \in SUBSET Nat
    BY DEF T
  <2> QED
    BY <1>2, <1>4, <2>1, SetInduction
<1>6. ASSUME NEW k \in 1..m PROVE bp[k] \in from..(t + 1)
  <2>0. k - 1 \in Nat /\ (k - 1) + 1 = k /\ k <= m
    OBVIOUS
  <2>1. k - 1 \in T
    BY <1>5, <2>0
  <2> QED
    BY <2>0, <2>1
<1> QED
  BY <1>1, <1>6

CanRun(m) == \E bp : Rounds(m, bp)

LEMMA OneRoundMore ==
  ASSUME DmiTypes, Fits(Terminator + 2), NEW m \in Nat, CanRun(m)
  PROVE  CanRun(m + 1)
<1>1. PICK bp : Rounds(m, bp)
  BY DEF CanRun
<1>2. PICK from \in Nat, t \in Nat : from = StringsFrom /\ t = Terminator /\ from <= t
  BY TerminatorFound
<1>3. PICK last : last = IF m = 0 THEN from ELSE NextString(bp[m])
  OBVIOUS
<1>4. last \in Nat
  <2>1. CASE m = 0
    BY <1>2, <1>3, <2>1
  <2>2. CASE m # 0
    <3>1. m \in 1..m
      BY <2>2
    <3>2. bp[m] \in from..(t + 1)
      BY <1>1, <1>2, <3>1, RoundsInside DEF Rounds
    <3>3. NextString(bp[m]) \in from..(t + 1)
      BY <1>2, <3>2, NextStringInside
    <3> QED
      BY <1>2, <1>3, <2>2, <3>3
  <2> QED
    BY <2>1, <2>2
<1>5. PICK longer : longer = [k \in 1..(m + 1) |-> IF k = m + 1 THEN last ELSE bp[k]]
  OBVIOUS
<1>6. longer \in [1..(m + 1) -> Nat]
  <2>1. ASSUME NEW k \in 1..(m + 1), k # m + 1 PROVE bp[k] \in Nat
    <3>1. k \in 1..m
      BY <2>1
    <3> QED
      BY <1>1, <3>1 DEF Rounds
  <2> QED
    BY <1>4, <1>5, <2>1
<1>7. ASSUME NEW k \in 1..(m + 1)
      PROVE  longer[k] = IF k = 1 THEN StringsFrom ELSE NextString(longer[k - 1])
  <2>1. CASE k = m + 1
    <3>1. longer[k] = last
      BY <1>5, <2>1
    <3>2. CASE m = 0
      BY <1>2, <1>3, <2>1, <3>1, <3>2
    <3>3. CASE m # 0
      <4>1. k # 1 /\ k - 1 = m /\ m \in 1..(m + 1) /\ m # m + 1
        BY <2>1, <3>3
      <4>2. longer[k - 1] = bp[m]
        BY <1>5, <4>1
      <4> QED
        BY <1>3, <3>1, <3>3, <4>1, <4>2
    <3> QED
      BY <3>2, <3>3
  <2>2. CASE k # m + 1
    <3>1. k \in 1..m /\ longer[k] = bp[k]
      BY <1>5, <2>2
    <3>2. k # 1 => k - 1 \in 1..(m + 1) /\ k - 1 # m + 1
      BY <3>1
    <3>3. k # 1 => longer[k - 1] = bp[k - 1]
      BY <1>5, <3>2
    <3>4. bp[k] = IF k = 1 THEN StringsFrom ELSE NextString(bp[k - 1])
      BY <1>1, <3>1 DEF Rounds
    <3> QED
      BY <3>1, <3>3, <3>4
  <2> QED
    BY <2>1, <2>2
<1> QED
  BY <1>6, <1>7 DEF Rounds, CanRun

LEMMA AlwaysRuns ==
  ASSUME DmiTypes, Fits(Terminator + 2)
  PROVE  \A m \in Nat : CanRun(m)
<1> DEFINE T == {m \in Nat : CanRun(m)}
<1>1. 0 \in T
  <2>1. Rounds(0, [k \in 1..0 |-> 0])
    BY DEF Rounds
  <2> QED
    BY <2>1 DEF CanRun
<1>2. \A m \in T : m + 1 \in T
  BY OneRoundMore
<1>3. T = Nat
  <2> HIDE DEF T
  <2>1. T \in SUBSET Nat
    BY DEF T
  <2> QED
    BY <1>1, <1>2, <2>1, SetInduction
<1> QED
  BY <1>3

\* dmi_string's loop obeys its equation as far as it runs.
LEMMA StringRun ==
  ASSUME DmiTypes, Fits(Terminator + 2), NEW s \in Nat \ {0}
  PROVE  \E bp : /\ StringAt(data, s) = bp[s]
                 /\ \A k \in 1..s : bp[k] = IF k = 1 THEN StringsFrom ELSE NextString(bp[k - 1])
<1> DEFINE IsRun(bp) == bp = [k \in 1..s |-> IF k = 1 THEN data + At(data + 1)
                                             ELSE IF At(bp[k - 1]) = 0 THEN bp[k - 1]
                                                  ELSE Nul(bp[k - 1]) + 1]
<1>1. \E bp : IsRun(bp)
  <2>1. PICK bp : Rounds(s, bp)
    BY AlwaysRuns DEF CanRun
  <2>2. bp = [k \in 1..s |-> bp[k]]
    BY <2>1 DEF Rounds
  <2>3. \A k \in 1..s : bp[k] = IF k = 1 THEN data + At(data + 1)
                                ELSE IF At(bp[k - 1]) = 0 THEN bp[k - 1] ELSE Nul(bp[k - 1]) + 1
    BY <2>1 DEF Rounds, NextString, StringsFrom
  <2>4. bp = [k \in 1..s |-> IF k = 1 THEN data + At(data + 1)
                            ELSE IF At(bp[k - 1]) = 0 THEN bp[k - 1] ELSE Nul(bp[k - 1]) + 1]
    BY <2>2, <2>3, Zenon
  <2> QED
    BY <2>4
<1>2. PICK bp : bp = CHOOSE run : IsRun(run)
  OBVIOUS
<1>3. IsRun(bp)
  BY <1>1, <1>2
<1>4. StringAt(data, s) = bp[s]
  BY <1>2 DEF StringAt
<1>5. \A k \in 1..s : bp[k] = IF k = 1 THEN StringsFrom ELSE NextString(bp[k - 1])
  BY <1>3 DEF StringsFrom, NextString
<1> HIDE DEF IsRun
<1> QED
  BY <1>4, <1>5

\* However many strings dmi_string skips, it does not get beyond the second NUL.
LEMMA StringInside ==
  ASSUME DmiTypes, Fits(Terminator + 2), NEW s \in Nat \ {0}
  PROVE  StringAt(data, s) \in StringsFrom..(Terminator + 1)
<1>1. PICK bp : /\ StringAt(data, s) = bp[s]
                /\ \A k \in 1..s : bp[k] = IF k = 1 THEN StringsFrom ELSE NextString(bp[k - 1])
  BY StringRun
<1>2. s \in 1..s
  OBVIOUS
<1> QED
  BY <1>1, <1>2, RoundsInside

LEMMA NulInside ==
  ASSUME DmiTypes, Fits(Terminator + 2), NEW s \in Nat \ {0}
  PROVE  /\ StringAt(data, s) \in Nat
         /\ Nul(StringAt(data, s)) \in StringAt(data, s)..(Terminator + 1)
         /\ Terminator \in Nat /\ Terminator + 1 < len
<1>1. PICK from \in Nat, t \in Nat : from = StringsFrom /\ t = Terminator /\ from <= t
  BY TerminatorFound
<1>2. At(t) = 0 /\ At(t + 1) = 0 /\ t + 1 < len /\ len \in Nat
  BY <1>1, TwoNuls DEF DmiTypes
<1>3. PICK b : b = StringAt(data, s)
  OBVIOUS
<1>4. b \in from..(t + 1)
  BY <1>1, <1>3, StringInside
<1>5. b \in Nat /\ t + 1 \in Nat /\ b <= t + 1 /\ t + 1 <= b + len
  BY <1>1, <1>2, <1>4
<1>6. Nul(b) \in b..(t + 1)
  BY <1>2, <1>5, NulFound
<1> QED
  BY <1>1, <1>2, <1>3, <1>5, <1>6

-----------------------------------------------------------------------------
(***************************************************************************)
(* The texts                                                               *)
(***************************************************************************)

LEMMA TextOfString ==
  ASSUME DmiTypes, Fits(Terminator + 2), NEW s \in Nat
  PROVE  dmi_string(data, s) \in Seq(Int)
<1>1. CASE s = 0
  BY <1>1 DEF dmi_string, NotSpecified
<1>2. CASE s # 0
  <2>1. PICK b \in Nat, n \in Nat : b = StringAt(data, s) /\ n = Nul(b) /\ b <= n
    BY <1>2, NulInside
  <2>2. CASE At(b) = 0
    BY <1>2, <2>1, <2>2 DEF dmi_string, BadIndex
  <2>3. CASE At(b) # 0
    <3>1. PICK str : str = [k \in 1..(n - b) |-> At(b + k - 1)]
      OBVIOUS
    <3>2. ASSUME NEW k \in 1..(n - b) PROVE At(b + k - 1) \in Int
      <4>1. b + k - 1 \in Nat
        BY <2>1
      <4> QED
        BY <4>1, ByteAt
    <3>3. DOMAIN str = 1..(n - b) /\ \A k \in 1..(n - b) : Printable(str[k]) \in Int
      <4>1. \A c \in Int : Printable(c) \in Int
        BY DEF Printable
      <4>2. DOMAIN str = 1..(n - b) /\ \A k \in 1..(n - b) : str[k] = At(b + k - 1)
        BY <3>1
      <4> QED
        BY <3>2, <4>1, <4>2
    <3>4. n - b \in Nat
      BY <2>1
    <3>5. Filtered(str) = [k \in 1..(n - b) |-> Printable(str[k])]
      BY <3>3 DEF Filtered
    <3>6. Filtered(str) \in [1..(n - b) -> Int]
      BY <3>3, <3>5
    <3>7. Filtered(str) \in Seq(Int)
      BY <3>4, <3>6
    <3>8. dmi_string(data, s) = Filtered(str)
      BY <1>2, <2>1, <2>3, <3>1 DEF dmi_string
    <3> QED
      BY <3>7, <3>8
  <2> QED
    BY <2>2, <2>3
<1> QED
  BY <1>1, <1>2

LEMMA CutShort ==
  ASSUME NEW str \in Seq(Int)
  PROVE  Short(Cut(str))
<1>1. PICK n \in Nat : n = (IF Len(str) < MaxText THEN Len(str) ELSE MaxText) /\ n <= MaxText /\ n <= Len(str)
  BY BoundsAssumption
<1>2. Cut(str) = SubSeq(str, 1, n)
  BY <1>1 DEF Cut
<1>3. SubSeq(str, 1, n) \in Seq(Int) /\ Len(SubSeq(str, 1, n)) = n
  BY <1>1
<1> QED
  BY <1>1, <1>2, <1>3 DEF Short

LEMMA TrimShort ==
  ASSUME NEW str, Short(str)
  PROVE  Short(trim(str))
<1>1. str \in Seq(Int) /\ Len(str) <= MaxText /\ Len(str) \in Nat /\ MaxText \in Nat
  BY BoundsAssumption DEF Short
<1>2. PICK n \in Nat : n = Len(str)
  BY <1>1
<1>3. PICK ink : ink = {k \in DOMAIN str : str[k] # 32}
  OBVIOUS
<1>4. ink \in SUBSET (1..n)
  BY <1>1, <1>2, <1>3
<1>5. CASE ink = {}
  <2>1. trim(str) = <<>>
    BY <1>3, <1>5 DEF trim
  <2> QED
    BY <1>1, <2>1 DEF Short
<1>6. CASE ink # {}
  <2>1. PICK a, b : a = Min(ink) /\ b = Max(ink)
    OBVIOUS
  <2>2. a \in 1..n /\ b \in 1..n
    BY <1>4, <1>6, <2>1, EndsOfInk
  <2>3. trim(str) = SubSeq(str, a, b)
    BY <1>3, <1>6, <2>1 DEF trim
  <2>4. SubSeq(str, a, b) \in Seq(Int) /\ Len(SubSeq(str, a, b)) <= n
    BY <1>1, <1>2, <2>2
  <2> QED
    BY <1>1, <1>2, <2>3, <2>4 DEF Short
<1> QED
  BY <1>5, <1>6

LEMMA DecodedShort ==
  ASSUME DmiTypes, Fits(Terminator + 2), dmi_decode
  PROVE  \A t \in Types, f \in 1..4 : Short(dmi_data'[t][f])
<1> SUFFICES ASSUME NEW u \in Types, NEW f \in 1..4 PROVE Short(dmi_data'[u][f])
  OBVIOUS
<1>1. Short(dmi_data[u][f])
  BY DEF DmiTypes, Short
<1>2. Short(Cut(dmi_string(data, At(data + 3 + f))))
  <2>1. data + 3 + f \in Nat
    <3>1. data \in Nat
      BY DEF DmiTypes
    <3> QED
      BY <3>1
  <2>2. At(data + 3 + f) \in Nat
    BY <2>1, ByteAt
  <2> QED
    BY <2>2, TextOfString, CutShort
<1>3. PICK text : text = IF u = At(data) /\ LongEnough(At(data), At(data + 1)) /\ f \in Fields(u)
                         THEN Cut(dmi_string(data, At(data + 3 + f))) ELSE dmi_data[u][f]
  OBVIOUS
<1>4. Short(text) /\ Short(trim(text))
  BY <1>1, <1>2, <1>3, TrimShort
<1>5. dmi_data'[u][f] = IF Trimmed(u, f) THEN trim(text) ELSE text
  BY <1>3 DEF dmi_decode
<1> QED
  BY <1>4, <1>5

Ink(str) == {k \in DOMAIN str : str[k] # 32}

LEMMA InkOf ==
  ASSUME NEW str \in Seq(Int), NEW n, n = Len(str)
  PROVE  /\ n \in Nat /\ Ink(str) \in SUBSET (1..n) /\ Ink(str) \in SUBSET Nat
         /\ Ink(str) # {} => /\ Min(Ink(str)) \in Ink(str) /\ Max(Ink(str)) \in Ink(str)
                             /\ \A k \in Ink(str) : Min(Ink(str)) <= k /\ k <= Max(Ink(str))
<1>1. n \in Nat /\ DOMAIN str = 1..n
  OBVIOUS
<1>2. PICK ink : ink = Ink(str)
  OBVIOUS
<1>3. ink \in SUBSET (1..n)
  BY <1>1, <1>2 DEF Ink
<1>4. ink \in SUBSET Nat /\ \A k \in ink : k <= n
  BY <1>1, <1>3
<1>5. ASSUME ink # {}
      PROVE  /\ Min(ink) \in ink /\ Max(ink) \in ink
             /\ \A k \in ink : Min(ink) <= k /\ k <= Max(ink)
  <2>1. PICK a \in ink : \A k \in ink : a <= k
    BY <1>4, <1>5, LeastNat
  <2>2. PICK b \in ink : \A k \in ink : k <= b
    BY <1>1, <1>4, <1>5, GreatestNat
  <2>3. Min(ink) = a /\ Max(ink) = b
    BY <1>4, <2>1, <2>2, MinIs, MaxIs
  <2> QED
    BY <2>1, <2>2, <2>3
<1> QED
  BY <1>1, <1>2, <1>3, <1>4, <1>5

\* Trimming what is trimmed changes nothing.
LEMMA TrimTwice ==
  ASSUME NEW str \in Seq(Int)
  PROVE  trim(trim(str)) = trim(str)
<1>1. PICK n, ink : n = Len(str) /\ ink = Ink(str)
  OBVIOUS
<1>2. /\ n \in Nat /\ ink \in SUBSET (1..n)
      /\ ink # {} => /\ Min(ink) \in ink /\ Max(ink) \in ink
                     /\ \A k \in ink : Min(ink) <= k /\ k <= Max(ink)
  BY <1>1, InkOf
<1>3. trim(<<>>) = <<>>
  <2>1. {k \in DOMAIN <<>> : <<>>[k] # 32} = {}
    OBVIOUS
  <2> QED
    BY <2>1 DEF trim
<1>4. CASE ink = {}
  BY <1>1, <1>3, <1>4 DEF trim, Ink
<1>5. CASE ink # {}
  <2>1. PICK a, b : a = Min(ink) /\ b = Max(ink)
    OBVIOUS
  <2>2. a \in ink /\ b \in ink /\ a \in 1..n /\ b \in 1..n /\ a <= b
    BY <1>2, <1>5, <2>1
  <2>3. str[a] # 32 /\ str[b] # 32
    BY <1>1, <2>2 DEF Ink
  <2>4. PICK ts : ts = trim(str)
    OBVIOUS
  <2>5. ts = SubSeq(str, a, b)
    BY <1>1, <1>5, <2>1, <2>4 DEF trim, Ink
  <2>6. PICK c \in Nat : c = b - a + 1
    BY <2>2
  <2>7. ts \in Seq(Int) /\ Len(ts) = c /\ \A k \in 1..c : ts[k] = str[a + k - 1]
    BY <1>1, <2>2, <2>5, <2>6
  <2>8. 1 \in 1..c /\ c \in 1..c /\ a + 1 - 1 = a /\ a + c - 1 = b
    BY <2>2, <2>6
  <2>9. ts[1] # 32 /\ ts[c] # 32
    BY <2>3, <2>7, <2>8
  <2>10. PICK left : left = Ink(ts)
    OBVIOUS
  <2>11. left \in SUBSET (1..c) /\ 1 \in left /\ c \in left
    BY <2>7, <2>8, <2>9, <2>10 DEF Ink
  <2>12. Min(left) = 1 /\ Max(left) = c
    <3>1. left \in SUBSET Nat /\ \A k \in left : 1 <= k /\ k <= c
      BY <2>11
    <3> QED
      BY <2>11, <3>1, MinIs, MaxIs
  <2>13. trim(ts) = SubSeq(ts, 1, c)
    BY <2>10, <2>11, <2>12 DEF trim, Ink
  <2>14. SubSeq(ts, 1, c) = ts
    BY <2>7
  <2> QED
    BY <2>4, <2>13, <2>14
<1> QED
  BY <1>4, <1>5

-----------------------------------------------------------------------------
(***************************************************************************)
(* The invariant                                                           *)
(***************************************************************************)

LEMMA InvImplies == DmiInv => InBounds /\ TypeOK
BY DEF DmiInv, DmiTypes, TypeOK, Short

LEMMA InitIsIn == Init => DmiInv
<1> SUFFICES ASSUME Init PROVE DmiInv
  OBVIOUS
<1>1. segment \in Seq({"SM", "DMI", "other"}) /\ buf \in Seq(0..255)
  <2>1. Bytes(table) \in Seq(Byte)
    BY TablesAssumption, PiecesType DEF Init
  <2> QED
    BY <2>1, SegmentsAssumption DEF Init, Byte
<1>2. Len(buf) \in Nat /\ Len(segment) \in Nat
  BY <1>1
<1>3. len \in 0..Len(buf)
  <2>1. PICK lost \in 0..MaxLost : len = IF Len(buf) > lost THEN Len(buf) - lost ELSE 0
    BY DEF Init
  <2> QED
    BY <1>2, <2>1, BoundsAssumption
<1>4. num \in Nat /\ pc \in {"scan", "walk", "done", "exited"} /\ fp \in 1..(Len(segment) + 1)
      /\ found \in 0..(fp - 1) /\ data \in Nat /\ i \in 0..num /\ reach = -1
  BY <1>2 DEF Init
<1>5. ASSUME NEW t \in Types, NEW f \in 1..4
      PROVE  dmi_data[t][f] \in Seq(Int) /\ Len(dmi_data[t][f]) <= MaxText
  BY BoundsAssumption DEF Init
<1> QED
  BY <1>1, <1>2, <1>3, <1>4, <1>5 DEF DmiInv, DmiTypes, InBounds

LEMMA ScanKeeps ==
  ASSUME DmiInv, Scan
  PROVE  DmiInv'
<1>1. UNCHANGED <<segment, buf, len, num, dmi_data, reach>>
  BY DEF Scan, bios
<1>2. Len(segment) \in Nat
  BY DEF DmiInv, DmiTypes
<1>3. /\ pc' \in {"scan", "walk", "done", "exited"}
      /\ fp' \in 1..(Len(segment) + 1)
      /\ found' \in 0..(fp' - 1)
      /\ data' \in Nat /\ i' \in 0..num
  <2>1. CASE fp > Len(segment)
    BY <2>1 DEF Scan, DmiInv, DmiTypes
  <2>2. CASE ~(fp > Len(segment))
    <3>1. fp' = NextParagraph(fp) /\ fp' \in (fp + 1)..(Len(segment) + 1)
      BY <1>2, <2>2 DEF Scan, NextParagraph, Anchor, DmiInv, DmiTypes
    <3>2. CASE Anchor(fp) /\ EntryPoint(fp)
      BY <1>2, <2>2, <3>1, <3>2 DEF Scan, DmiInv, DmiTypes
    <3>3. CASE ~(Anchor(fp) /\ EntryPoint(fp))
      BY <1>2, <2>2, <3>1, <3>3 DEF Scan, DmiInv, DmiTypes
    <3> QED
      BY <3>2, <3>3
  <2> QED
    BY <2>1, <2>2
<1> QED
  BY <1>1, <1>3 DEF DmiInv, DmiTypes, InBounds

LEMMA DecodeInBounds ==
  ASSUME DmiTypes, len > 0
  PROVE  \A r \in DecodeReach(Terminator + 2) : r \in Nat \cup {-1} /\ r < len
<1> SUFFICES ASSUME NEW r \in DecodeReach(Terminator + 2) PROVE r \in Nat \cup {-1} /\ r < len
  OBVIOUS
<1>1. Fits(Terminator + 2)
  BY DEF DecodeReach
<1>2. PICK f \in Fields(At(data)) : r = StringReach(data, At(data + 3 + f))
  BY DEF DecodeReach
<1>3. PICK s \in Nat : s = At(data + 3 + f)
  <2>1. data + 3 + f \in Nat
    BY DEF DmiTypes, Fields
  <2> QED
    BY <2>1, ByteAt
<1>4. CASE s = 0
  BY <1>2, <1>3, <1>4 DEF StringReach, DmiTypes
<1>5. CASE s # 0
  <2>1. r = Nul(StringAt(data, s))
    BY <1>2, <1>3, <1>5 DEF StringReach
  <2>2. PICK b, n, t : b = StringAt(data, s) /\ n = Nul(StringAt(data, s)) /\ t = Terminator
    OBVIOUS
  <2>4. b \in Nat /\ n \in b..(t + 1) /\ t \in Nat /\ t + 1 < len
    BY <1>1, <1>5, <2>2, NulInside
  <2>3. len \in Nat
    BY DEF DmiTypes
  <2> QED
    BY <2>1, <2>2, <2>3, <2>4
<1> QED
  BY <1>4, <1>5

LEMMA WalkKeeps ==
  ASSUME DmiInv, Walk
  PROVE  DmiInv'
<1>1. UNCHANGED <<segment, buf, len, num, fp, found>>
  BY DEF Walk, bios
<1>2. DmiTypes /\ len \in Nat /\ data \in Nat /\ i \in 0..num /\ num \in Nat
  BY DEF DmiInv, DmiTypes
<1>3. CASE ~(i < num /\ data + 4 <= len)
  <2>1. pc' = "scan" /\ UNCHANGED <<data, i, dmi_data, reach>>
    BY <1>3 DEF Walk
  <2> QED
    BY <1>1, <2>1 DEF DmiInv, DmiTypes, InBounds
<1>4. CASE i < num /\ data + 4 <= len
  <2>1. PICK next, read : /\ next = Terminator + 2
                          /\ read = {reach, data + 1, ScanReach(Terminator)} \cup DecodeReach(next)
    OBVIOUS
  <2>2. Decode(next) /\ data' = next /\ i' = i + 1 /\ reach' = Max(read) /\ pc' = pc
    BY <1>4, <2>1 DEF Walk
  <2>3. len > 0
    BY <1>2, <1>4
  <2>4. next \in Nat
    BY <1>2, <2>1, TerminatorFound
  <2>5. i' \in 0..num
    BY <1>2, <1>4, <2>2
  <2>6. \A t \in Types, f \in 1..4 : dmi_data'[t][f] \in Seq(Int) /\ Len(dmi_data'[t][f]) <= MaxText
    <3>1. CASE Fits(next)
      BY <1>2, <2>1, <2>2, <3>1, DecodedShort DEF Decode, Short
    <3>2. CASE ~Fits(next)
      BY <1>2, <2>2, <3>2 DEF Decode, DmiTypes
    <3> QED
      BY <3>1, <3>2
  <2>7. \A r \in read : r \in Nat \cup {-1} /\ r < len
    <3>1. reach \in Nat \cup {-1} /\ reach < len
      BY DEF DmiInv, InBounds
    <3>2. data + 1 \in Nat /\ data + 1 < len
      BY <1>2, <1>4
    <3>3. ScanReach(Terminator) \in Nat \cup {-1} /\ ScanReach(Terminator) < len
      BY <1>2, <2>3, ScanInBounds
    <3>4. \A r \in DecodeReach(next) : r \in Nat \cup {-1} /\ r < len
      BY <1>2, <2>1, <2>3, DecodeInBounds
    <3> QED
      BY <2>1, <3>1, <3>2, <3>3, <3>4
  <2>8. read # {} /\ read \in SUBSET (Nat \cup {-1})
    BY <2>1, <2>7
  <2>9. Max(read) \in read
    BY <1>2, <2>7, <2>8, MaxOfSome
  <2>10. reach' \in Nat \cup {-1} /\ reach' < len
    BY <2>2, <2>7, <2>9
  <2>11. pc' \in {"scan", "walk", "done", "exited"}
    BY <1>2, <2>2 DEF DmiTypes
  <2>12. DmiTypes'
    BY <1>1, <1>2, <2>2, <2>4, <2>5, <2>6, <2>11 DEF DmiTypes
  <2> QED
    BY <1>1, <2>10, <2>12 DEF DmiInv, InBounds
<1> QED
  BY <1>3, <1>4

LEMMA DmiInvAlways == Spec => []DmiInv
<1>1. DmiInv /\ [Next]_vars => DmiInv'
  <2> SUFFICES ASSUME DmiInv, [Next]_vars PROVE DmiInv'
    OBVIOUS
  <2>1. CASE UNCHANGED vars
    BY <2>1 DEF vars, bios, DmiInv, DmiTypes, InBounds
  <2> QED
    BY <2>1, ScanKeeps, WalkKeeps DEF Next
<1> QED
  BY <1>1, InitIsIn, PTL DEF Spec

\* The decoder stays inside the segment it scans, walks no more structures than
\* the entry point announces, and keeps no text longer than its buffer.
THEOREM DmiTypeCorrect == Spec => []TypeOK
<1>1. DmiInv => TypeOK
  BY InvImplies
<1> QED
  BY <1>1, DmiInvAlways, PTL

\* For every table, every wrong length in a header and every place at which the
\* table is cut short: dmi_table, dmi_decode and dmi_string look at no byte
\* that is outside the len bytes that were mapped.
THEOREM InBoundsAlways == Spec => []InBounds
<1>1. DmiInv => InBounds
  BY InvImplies
<1> QED
  BY <1>1, DmiInvAlways, PTL

-----------------------------------------------------------------------------
(***************************************************************************)
(* What the decoder finds of a structure                                   *)
(***************************************************************************)

\* What the decoder finds at a byte of the k-th structure.
LEMMA PieceBytes ==
  ASSUME DmiTypes, Built, NEW k \in 1..Len(table)
  PROVE  /\ table[k] \in StructureType
         /\ End(k - 1) \in Nat /\ End(k) \in Nat
         /\ Len(Made(table[k])) \in Nat /\ End(k) = End(k - 1) + Len(Made(table[k]))
         /\ \A r \in 1..Len(Made(table[k])) :
              End(k - 1) + r <= len => At(End(k - 1) + r - 1) = Made(table[k])[r]
<1>1. PICK z : z = Pieces(table)
  OBVIOUS
<1>2. /\ z \in Seq(Seq(Byte)) /\ Len(z) = Len(table) /\ buf = FlattenSeq(z)
      /\ table[k] \in StructureType /\ z[k] = Made(table[k])
  BY <1>1, PiecesType DEF Built
<1>3. k \in 1..Len(z) /\ k \in 0..Len(z) /\ k - 1 \in 0..Len(z)
  BY <1>2
<1>4. PICK a : a = EndOf(z, k - 1)
  OBVIOUS
<1>5. a \in Nat /\ EndOf(z, k) \in Nat
  BY <1>2, <1>3, <1>4, JoinedType
<1>6. EndOf(z, k) = a + Len(z[k])
  BY <1>2, <1>3, <1>4, JoinedStep
<1>7. Len(Made(table[k])) \in Nat
  BY <1>2, MadeShape
<1>8. ASSUME NEW r \in 1..Len(z[k]), a + r <= len
      PROVE  At(a + r - 1) = z[k][r]
  <2>1. FlattenSeq(z)[a + r] = z[k][r]
    BY <1>2, <1>3, <1>4, InPiece
  <2>2. r \in Nat /\ len \in Nat
    BY DEF DmiTypes
  <2>3. a + r - 1 < len /\ (a + r - 1) + 1 = a + r
    BY <1>5, <1>8, <2>2
  <2> QED
    BY <1>2, <2>1, <2>3 DEF At
<1> QED
  BY <1>1, <1>2, <1>4, <1>5, <1>6, <1>7, <1>8 DEF End

\* The decoder is at the k-th structure, and has room for its header.
Here(k) ==
  /\ DmiTypes /\ Built
  /\ k \in 1..Len(table) /\ GoodStructure(table[k])
  /\ data = End(k - 1) /\ data + 4 <= len

LEMMA HeaderHere ==
  ASSUME NEW k, Here(k), NEW st, st = table[k], NEW m, m = BodySize(st.type), NEW l, l = Len(Strings(st))
  PROVE  /\ st \in StructureType /\ m \in {4, 8, 18} /\ l \in Nat /\ l >= 2
         /\ data \in Nat /\ len \in Nat
         /\ At(data) = st.type /\ At(data + 1) = m /\ StringsFrom = data + m
         /\ End(k) = data + m + l
         /\ \A p \in 1..l : data + m + p <= len => At(data + m + p - 1) = Strings(st)[p]
         /\ m > 4 /\ data + m <= len => \A f \in 1..4 : At(data + 3 + f) = st.index[f]
<1>1. /\ k \in 1..Len(table) /\ st.claims = m /\ data = End(k - 1) /\ data + 4 <= len
      /\ data \in Nat /\ len \in Nat /\ DmiTypes /\ Built
  BY DEF Here, GoodStructure, DmiTypes
<1>2. PICK whole : whole = Made(st)
  OBVIOUS
<1>3. PICK w : w = Len(whole)
  OBVIOUS
<1>4. /\ st \in StructureType /\ w \in Nat /\ End(k) = data + w
      /\ \A r \in 1..w : data + r <= len => At(data + r - 1) = whole[r]
  BY <1>3, <1>1, <1>2, PieceBytes
<1>5. /\ l \in Nat /\ m \in {4, 8, 18} /\ w = m + l
      /\ whole[1] = st.type /\ whole[2] = st.claims
      /\ m > 4 => \A f \in 1..4 : whole[4 + f] = st.index[f]
      /\ \A p \in 1..l : whole[m + p] = Strings(st)[p]
  BY <1>3, <1>2, <1>4, MadeShape
<1>6. l >= 2
  BY <1>4, StringsEnd
<1>7. m \in Nat /\ m >= 4 /\ l \in Nat /\ w \in Nat /\ w = m + l /\ data \in Nat /\ len \in Nat
  <2>1. m \in Nat /\ m >= 4
    BY <1>5
  <2> QED
    BY <2>1, <1>1, <1>4, <1>5
<1>8. At(data) = st.type /\ At(data + 1) = m
  <2>1. data + 4 <= len
    BY <1>1
  <2>2. 1 \in 1..w /\ 2 \in 1..w /\ data + 1 <= len /\ data + 2 <= len
    BY <1>7, <2>1
  <2>3. data + 1 - 1 = data /\ data + 2 - 1 = data + 1
    BY <1>7
  <2> QED
    BY <1>1, <1>4, <1>5, <2>2, <2>3
<1>9. StringsFrom = data + m
  BY <1>8 DEF StringsFrom
<1>10. End(k) = data + m + l
  BY <1>4, <1>7
<1>11. ASSUME NEW p \in 1..l, data + m + p <= len
      PROVE  At(data + m + p - 1) = Strings(st)[p]
  <2>1. m + p \in 1..w /\ data + (m + p) <= len /\ data + (m + p) - 1 = data + m + p - 1
    BY <1>11, <1>7, SMTT(30)
  <2> QED
    BY <1>4, <1>5, <2>1
<1>12. ASSUME m > 4, data + m <= len, NEW f \in 1..4
       PROVE  At(data + 3 + f) = st.index[f]
  <2>1. 4 + f \in 1..w /\ data + (4 + f) <= len /\ data + (4 + f) - 1 = data + 3 + f
    <3>1. m >= 8
      BY <1>5, <1>12
    <3> QED
      BY <1>12, <1>7, <3>1
  <2> QED
    BY <1>4, <1>5, <1>12, <2>1
<1> QED
  BY <1>1, <1>4, <1>5, <1>6, <1>8, <1>9, <1>10, <1>11, <1>12

\* Inside the strings the search for their end does not stop.
LEMMA NoStopInside ==
  ASSUME NEW k, Here(k), NEW n \in Nat, StringsFrom <= n, n + 2 < End(k), n + 1 < len
  PROVE  ~(At(n) = 0 /\ At(n + 1) = 0)
<1>1. PICK st, m, l : st = table[k] /\ m = BodySize(st.type) /\ l = Len(Strings(st))
  OBVIOUS
<1>2. /\ st \in StructureType /\ m \in {4, 8, 18} /\ l \in Nat /\ data \in Nat /\ len \in Nat
      /\ StringsFrom = data + m /\ End(k) = data + m + l
      /\ \A p \in 1..l : data + m + p <= len => At(data + m + p - 1) = Strings(st)[p]
  BY <1>1, HeaderHere
<1>3. GoodStructure(st)
  BY <1>1 DEF Here
<1>4. PICK p \in Int : p = n - data - m + 1
  BY <1>2
<1>5. p \in 1..(l - 2) /\ p \in 1..l /\ p + 1 \in 1..l /\ data + m + p <= len /\ data + m + (p + 1) <= len
  BY <1>2, <1>4
<1>6. data + m + p - 1 = n /\ data + m + (p + 1) - 1 = n + 1
  BY <1>2, <1>4
<1>7. At(n) = Strings(st)[p] /\ At(n + 1) = Strings(st)[p + 1]
  BY <1>2, <1>5, <1>6
<1> QED
  BY <1>1, <1>2, <1>3, <1>5, <1>7, NoTwoNuls

\* A structure that is all there ends where the next one begins ...
LEMMA EndFound ==
  ASSUME NEW k, Here(k), End(k) <= len
  PROVE  Terminator + 2 = End(k)
<1>1. PICK st, m, l : st = table[k] /\ m = BodySize(st.type) /\ l = Len(Strings(st))
  OBVIOUS
<1>2. /\ st \in StructureType /\ m \in {4, 8, 18} /\ l \in Nat /\ l >= 2 /\ data \in Nat /\ len \in Nat
      /\ StringsFrom = data + m /\ End(k) = data + m + l
      /\ \A p \in 1..l : data + m + p <= len => At(data + m + p - 1) = Strings(st)[p]
  BY <1>1, HeaderHere
<1>3. PICK t, from : t = Terminator /\ from = StringsFrom
  OBVIOUS
<1>4. /\ from \in Nat /\ t \in Nat /\ from <= t
      /\ Stop(t) /\ \A j \in from..(t - 1) : ~Stop(j)
  BY <1>3, TerminatorFound DEF Here
<1>5. PICK e \in Nat : e = data + m + l - 2
  BY <1>2
<1>6. Stop(e)
  <2>1. Strings(st)[l - 1] = 0 /\ Strings(st)[l] = 0
    BY <1>1, <1>2, StringsEnd
  <2>2. l - 1 \in 1..l /\ l \in 1..l /\ data + m + (l - 1) <= len /\ data + m + l <= len
    BY <1>2
  <2>3. data + m + (l - 1) - 1 = e /\ data + m + l - 1 = e + 1
    BY <1>2, <1>5
  <2>4. At(e) = 0 /\ At(e + 1) = 0
    BY <1>2, <2>1, <2>2, <2>3
  <2> QED
    BY <2>4 DEF Stop
<1>7. ~(e < t)
  <2>1. e \in Nat /\ from <= e
    BY <1>2, <1>3, <1>5
  <2> QED
    BY <1>4, <1>6, <2>1
<1>8. ASSUME t < e PROVE FALSE
  <2>1. t + 2 < End(k) /\ t + 1 < len
    BY <1>2, <1>4, <1>5, <1>8
  <2>2. ~(At(t) = 0 /\ At(t + 1) = 0)
    BY <1>3, <1>4, <2>1, NoStopInside
  <2>3. ~AtEnd(t)
    BY <1>2, <1>4, <2>1 DEF AtEnd
  <2> QED
    BY <1>4, <2>2, <2>3 DEF Stop
<1> QED
  BY <1>2, <1>3, <1>4, <1>5, <1>7, <1>8

\* ... and one that is cut short is not decoded.
LEMMA CutOff ==
  ASSUME NEW k, Here(k), End(k) > len
  PROVE  ~Fits(Terminator + 2) /\ Terminator + 2 > len
<1>1. data \in Nat /\ len \in Nat /\ End(k) \in Nat
  <2>1. PICK st, m, l : st = table[k] /\ m = BodySize(st.type) /\ l = Len(Strings(st))
    OBVIOUS
  <2> QED
    BY <2>1, HeaderHere
<1>2. PICK t, from : t = Terminator /\ from = StringsFrom
  OBVIOUS
<1>3. from \in Nat /\ t \in Nat /\ from <= t
  BY <1>2, TerminatorFound DEF Here
<1>4. ASSUME Fits(t + 2) PROVE FALSE
  <2>1. At(t) = 0 /\ At(t + 1) = 0 /\ t + 1 < len
    BY <1>2, <1>4, TwoNuls DEF Here
  <2>2. t + 2 < End(k)
    BY <1>1, <1>3, <1>4 DEF Fits
  <2> QED
    BY <1>2, <1>3, <2>1, <2>2, NoStopInside
<1> QED
  BY <1>1, <1>2, <1>3, <1>4 DEF Fits

\* What dmi_string finds of a structure that is all there.
LEMMA StringBytes ==
  ASSUME NEW k, Here(k), End(k) <= len, NEW st, st = table[k], NEW s \in 1..Len(st.strings),
         NEW str, str = st.strings[s], NEW b, b = StringsFrom + EndOf(WithNul(st), s - 1)
  PROVE  /\ b \in Nat /\ str \in Seq(Byte) /\ Len(str) \in Nat /\ Len(str) >= 1
         /\ \A q \in 1..Len(str) : At(b + q - 1) = str[q] /\ str[q] # 0
         /\ At(b) # 0 /\ Nul(b) = b + Len(str)
<1>1. PICK m, l : m = BodySize(st.type) /\ l = Len(Strings(st))
  OBVIOUS
<1>2. PICK a, n : a = EndOf(WithNul(st), s - 1) /\ n = Len(st.strings)
  OBVIOUS
<1>3. PICK c : c = Len(str)
  OBVIOUS
<1>4. /\ st \in StructureType /\ m \in {4, 8, 18} /\ l \in Nat /\ data \in Nat /\ len \in Nat
      /\ StringsFrom = data + m /\ End(k) = data + m + l
      /\ \A p \in 1..l : data + m + p <= len => At(data + m + p - 1) = Strings(st)[p]
  BY <1>1, HeaderHere, SMTT(30)
<1>5. /\ a \in Nat /\ c \in Nat /\ str \in Seq(Byte)
      /\ a + c + 1 <= EndOf(WithNul(st), n)
      /\ \A p \in 1..c : Strings(st)[a + p] = str[p]
      /\ Strings(st)[a + c + 1] = 0
  BY <1>2, <1>3, <1>4, StringPlaces
<1>6. /\ n \in Nat /\ EndOf(WithNul(st), n) \in Nat
      /\ n # 0 => l = EndOf(WithNul(st), n) + 1
  BY <1>1, <1>2, <1>4, StringsEnd
<1>7. n # 0
  BY <1>2, <1>6
<1>8. /\ a \in Nat /\ c \in Nat /\ l \in Nat /\ m \in Nat /\ data \in Nat /\ len \in Nat
      /\ a + c + 1 < l /\ b = data + m + a /\ b \in Nat /\ data + m + l <= len
  <2>1. m \in Nat
    BY <1>4
  <2>2. a + c + 1 < l
    BY <1>5, <1>6, <1>7
  <2>3. b = data + m + a
    BY <1>2, <1>4
  <2> QED
    <3>1. a \in Nat /\ c \in Nat
      BY <1>5
    <3>2. l \in Nat /\ data \in Nat /\ len \in Nat /\ data + m + l <= len
      BY <1>4
    <3>3. b \in Nat
      BY <2>1, <2>3, <3>1, <3>2
    <3> QED
      BY <2>1, <2>2, <2>3, <3>1, <3>2, <3>3
<1>9. ASSUME NEW p \in 1..(c + 1)
      PROVE  At(b + p - 1) = Strings(st)[a + p]
  <2>1. a + p \in 1..l /\ data + m + (a + p) <= len /\ data + m + (a + p) - 1 = b + p - 1
    BY <1>8
  <2> QED
    BY <1>4, <2>1
<1>10. str # <<>> /\ \A q \in 1..c : str[q] # 0
  BY <1>3 DEF Here, GoodStructure
<1>11. c >= 1
  <2>1. c # 0
    BY <1>3, <1>5, <1>10, EmptyIfNone
  <2> QED
    BY <1>5, <2>1
<1>12. \A q \in 1..c : At(b + q - 1) = str[q] /\ str[q] # 0
  <2>1. \A q \in 1..c : q \in 1..(c + 1)
    BY <1>8
  <2> QED
    BY <1>5, <1>9, <1>10, <2>1
<1>13. At(b + c) = 0
  <2>1. c + 1 \in 1..(c + 1) /\ b + (c + 1) - 1 = b + c /\ a + (c + 1) = a + c + 1
    BY <1>8
  <2> QED
    BY <1>5, <1>9, <2>1
<1>14. At(b) # 0
  <2>1. 1 \in 1..c /\ b + 1 - 1 = b
    BY <1>8, <1>11
  <2> QED
    BY <1>12, <2>1
<1>15. Nul(b) = b + c
  <2>1. b + c \in Nat /\ b <= b + c /\ b + c <= b + len
    BY <1>8
  <2>2. Nul(b) \in b..(b + c) /\ At(Nul(b)) = 0
    BY <1>8, <1>13, <2>1, NulFound DEF Here
  <2>3. ASSUME Nul(b) # b + c PROVE FALSE
    <3>1. PICK u : u = Nul(b)
      OBVIOUS
    <3>2. b \in Nat /\ c \in Nat
      BY <1>8
    <3>3. u \in b..(b + c) /\ u # b + c /\ At(u) = 0
      BY <2>2, <2>3, <3>1
    <3>4. u - b + 1 \in 1..c /\ b + (u - b + 1) - 1 = u
      BY <3>2, <3>3
    <3> QED
      BY <1>12, <3>3, <3>4
  <2> QED
    BY <2>3
<1> QED
  BY <1>3, <1>5, <1>8, <1>11, <1>12, <1>14, <1>15

\* Where string s begins; beyond the last string, where the second NUL is.
StringFrom(st, s) ==
  StringsFrom + EndOf(WithNul(st), IF s <= Len(st.strings) THEN s - 1 ELSE Len(st.strings))

LEMMA AfterStrings ==
  ASSUME NEW k, Here(k), End(k) <= len, NEW st, st = table[k], NEW s \in Nat, s > Len(st.strings)
  PROVE  At(StringFrom(st, s)) = 0
<1>1. PICK m, l : m = BodySize(st.type) /\ l = Len(Strings(st))
  OBVIOUS
<1>2. PICK n, a : n = Len(st.strings) /\ a = EndOf(WithNul(st), n)
  OBVIOUS
<1>3. /\ st \in StructureType /\ m \in {4, 8, 18} /\ l \in Nat /\ data \in Nat /\ len \in Nat
      /\ StringsFrom = data + m /\ End(k) = data + m + l
      /\ \A p \in 1..l : data + m + p <= len => At(data + m + p - 1) = Strings(st)[p]
  BY <1>1, HeaderHere
<1>4. /\ n \in Nat /\ a \in Nat /\ EndOf(WithNul(st), 0) = 0 /\ Strings(st)[a + 1] = 0
      /\ n # 0 => l = a + 1
      /\ n = 0 => l = 2
  BY <1>1, <1>2, <1>3, StringsEnd
<1>5. a + 1 <= l
  <2>1. CASE n = 0
    BY <1>2, <1>4, <2>1
  <2>2. CASE n # 0
    BY <1>4, <2>2
  <2> QED
    BY <2>1, <2>2
<1>6. m \in Nat
  BY <1>3
<1>7. a + 1 \in 1..l /\ data + m + (a + 1) <= len /\ data + m + (a + 1) - 1 = data + m + a
  BY <1>3, <1>4, <1>5, <1>6
<1>8. At(data + m + a) = 0
  BY <1>3, <1>4, <1>7
<1>9. ~(s <= n)
  BY <1>2, <1>4
<1> QED
  BY <1>2, <1>3, <1>8, <1>9 DEF StringFrom

LEMMA NextStringIs ==
  ASSUME NEW k, Here(k), End(k) <= len, NEW st, st = table[k], NEW s \in Nat \ {0}
  PROVE  NextString(StringFrom(st, s)) = StringFrom(st, s + 1)
<1>1. PICK n \in Nat : n = Len(st.strings)
  <2>1. st \in StructureType
    <3>1. PICK m, l : m = BodySize(st.type) /\ l = Len(Strings(st))
      OBVIOUS
    <3> QED
      BY <3>1, HeaderHere
  <2> QED
    BY <2>1, WithNulType
<1>2. CASE s <= n
  <2>1. s \in 1..Len(st.strings)
    BY <1>1, <1>2
  <2>2. PICK str, b : str = st.strings[s] /\ b = StringsFrom + EndOf(WithNul(st), s - 1)
    OBVIOUS
  <2>3. b \in Nat /\ Len(str) \in Nat /\ At(b) # 0 /\ Nul(b) = b + Len(str)
    BY <2>1, <2>2, StringBytes
  <2>4. st \in StructureType /\ StringsFrom \in Nat
    <3>1. PICK m, l : m = BodySize(st.type) /\ l = Len(Strings(st))
      OBVIOUS
    <3> QED
      BY <3>1, HeaderHere
  <2>5. /\ EndOf(WithNul(st), s - 1) \in Nat
        /\ EndOf(WithNul(st), s) = EndOf(WithNul(st), s - 1) + Len(str) + 1
    BY <2>1, <2>2, <2>4, StringPlaces
  <2>6. NextString(b) = StringsFrom + EndOf(WithNul(st), s)
    BY <2>2, <2>3, <2>4, <2>5, SMTT(30) DEF NextString
  <2>7. StringFrom(st, s) = b
    BY <1>1, <1>2, <2>2 DEF StringFrom
  <2>8. (IF s + 1 <= n THEN (s + 1) - 1 ELSE n) = s
    BY <1>1, <1>2
  <2>9. StringFrom(st, s + 1) = StringsFrom + EndOf(WithNul(st), s)
    BY <1>1, <2>8 DEF StringFrom
  <2> QED
    BY <2>6, <2>7, <2>9
<1>3. CASE ~(s <= n)
  <2>1. s > Len(st.strings) /\ ~(s + 1 <= n)
    BY <1>1, <1>3
  <2>2. At(StringFrom(st, s)) = 0
    BY <2>1, AfterStrings
  <2>3. StringFrom(st, s + 1) = StringFrom(st, s)
    BY <1>1, <1>3, <2>1 DEF StringFrom
  <2> QED
    BY <2>2, <2>3 DEF NextString
<1> QED
  BY <1>2, <1>3

LEMMA StringIsAt ==
  ASSUME NEW k, Here(k), End(k) <= len, NEW st, st = table[k], NEW s \in Nat \ {0}
  PROVE  StringAt(data, s) = StringFrom(st, s)
<1>1. DmiTypes /\ Fits(Terminator + 2)
  <2>1. len \in Nat
    BY DEF Here, DmiTypes
  <2> QED
    BY <2>1, EndFound DEF Here, Fits
<1>2. PICK bp : /\ StringAt(data, s) = bp[s]
                /\ \A j \in 1..s : bp[j] = IF j = 1 THEN StringsFrom ELSE NextString(bp[j - 1])
  BY <1>1, StringRun
<1>3. StringFrom(st, 1) = StringsFrom
  <2>1. PICK m, l : m = BodySize(st.type) /\ l = Len(Strings(st))
    OBVIOUS
  <2>2. st \in StructureType /\ StringsFrom \in Nat
    BY <2>1, HeaderHere
  <2>3. PICK n : n = Len(st.strings)
    OBVIOUS
  <2>4. n \in Nat /\ EndOf(WithNul(st), 0) = 0
    BY <2>2, <2>3, StringsEnd
  <2>5. (IF 1 <= n THEN 1 - 1 ELSE n) = 0
    BY <2>4
  <2> QED
    BY <2>2, <2>3, <2>4, <2>5 DEF StringFrom
<1> DEFINE T == {j \in Nat : j + 1 <= s => bp[j + 1] = StringFrom(st, j + 1)}
<1>4. 0 \in T
  <2>1. 1 \in 1..s /\ 0 + 1 = 1
    OBVIOUS
  <2>2. bp[1] = StringsFrom
    BY <1>2, <2>1
  <2> QED
    BY <1>3, <2>1, <2>2
<1>5. ASSUME NEW j \in T, (j + 1) + 1 <= s PROVE bp[(j + 1) + 1] = StringFrom(st, (j + 1) + 1)
  <2>1. j \in Nat /\ j + 1 <= s
    BY <1>5
  <2>2. bp[j + 1] = StringFrom(st, j + 1)
    BY <2>1
  <2>3. (j + 1) + 1 \in 1..s /\ (j + 1) + 1 # 1 /\ ((j + 1) + 1) - 1 = j + 1 /\ j + 1 \in Nat \ {0}
    BY <1>5, <2>1
  <2>4. bp[(j + 1) + 1] = NextString(bp[j + 1])
    BY <1>2, <2>3
  <2> QED
    BY <2>2, <2>3, <2>4, NextStringIs
<1>6. \A j \in T : j + 1 \in T
  BY <1>5
<1>7. T = Nat
  <2> HIDE DEF T
  <2>1. T \in SUBSET Nat
    BY DEF T
  <2> QED
    BY <1>4, <1>6, <2>1, SetInduction
<1>8. s - 1 \in Nat /\ (s - 1) + 1 = s /\ s <= s
  OBVIOUS
<1>9. s - 1 \in T
  BY <1>7, <1>8, Zenon
<1>10. bp[(s - 1) + 1] = StringFrom(st, (s - 1) + 1)
  BY <1>8, <1>9
<1> QED
  BY <1>2, <1>8, <1>10

\* dmi_string gives the string that was put there.
LEMMA StringHere ==
  ASSUME NEW k, Here(k), End(k) <= len, NEW st, st = table[k], NEW s \in Nat
  PROVE  dmi_string(data, s) = IF s = 0 THEN NotSpecified
                               ELSE IF s > Len(st.strings) THEN BadIndex ELSE Filtered(st.strings[s])
<1>1. CASE s = 0
  BY <1>1 DEF dmi_string
<1>2. CASE s # 0
  <2>1. PICK b : b = StringAt(data, s)
    OBVIOUS
  <2>2. s \in Nat \ {0} /\ b = StringFrom(st, s)
    BY <1>2, <2>1, StringIsAt
  <2>3. PICK n \in Nat : n = Len(st.strings)
    <3>1. PICK m, l : m = BodySize(st.type) /\ l = Len(Strings(st))
      OBVIOUS
    <3>2. st \in StructureType
      BY <3>1, HeaderHere
    <3> QED
      BY <3>2, WithNulType
  <2>4. CASE s > n
    <3>1. At(b) = 0
      BY <2>2, <2>3, <2>4, AfterStrings
    <3> QED
      BY <1>2, <2>1, <2>3, <2>4, <3>1 DEF dmi_string
  <2>5. CASE ~(s > n)
    <3>1. s \in 1..Len(st.strings) /\ s <= n
      BY <1>2, <2>3, <2>5
    <3>2. PICK str : str = st.strings[s]
      OBVIOUS
    <3>3. b = StringsFrom + EndOf(WithNul(st), s - 1)
      BY <2>2, <2>3, <3>1 DEF StringFrom
    <3>10. PICK c : c = Len(str)
      OBVIOUS
    <3>4. /\ b \in Nat /\ str \in Seq(Byte) /\ c \in Nat
          /\ \A q \in 1..c : At(b + q - 1) = str[q]
          /\ At(b) # 0 /\ Nul(b) = b + c
      <4>1. /\ b \in Nat /\ str \in Seq(Byte) /\ Len(str) \in Nat
            /\ \A q \in 1..Len(str) : At(b + q - 1) = str[q] /\ str[q] # 0
            /\ At(b) # 0 /\ Nul(b) = b + Len(str)
        BY <3>1, <3>2, <3>3, StringBytes, SMTT(30)
      <4> QED
        BY <3>10, <4>1
    <3>5. (b + c) - b = c
      BY <3>4
    <3>6. [q \in 1..(Nul(b) - b) |-> At(b + q - 1)] = [q \in 1..c |-> str[q]]
      BY <3>4, <3>5
    <3>7. str = [q \in 1..c |-> str[q]]
      BY <3>4, <3>10, SeqFun
    <3>8. [q \in 1..(Nul(b) - b) |-> At(b + q - 1)] = str
      BY <3>6, <3>7, Zenon
    <3>9. dmi_string(data, s) = Filtered([q \in 1..(Nul(b) - b) |-> At(b + q - 1)])
      BY <1>2, <2>1, <3>4, Zenon DEF dmi_string
    <3> QED
      BY <1>2, <2>3, <2>5, <3>2, <3>8, <3>9
  <2> QED
    BY <2>4, <2>5
<1> QED
  BY <1>1, <1>2

-----------------------------------------------------------------------------
(***************************************************************************)
(* What it makes of it                                                     *)
(***************************************************************************)

\* What the first m structures say.
Of(m, t) == {k \in 1..m : table[k].type = t}

TextTo(m, t, f) == IF Of(m, t) = {} \/ f \notin Fields(t) THEN <<>> ELSE Said(table[Max(Of(m, t))], f)

ExpectedTo(m, t, f) == IF Trimmed(t, f) THEN trim(TextTo(m, t, f)) ELSE TextTo(m, t, f)

LEMMA SaidIsText ==
  ASSUME NEW st \in StructureType, NEW f \in 1..4
  PROVE  Said(st, f) \in Seq(Int) /\ st.index[f] \in Nat
<1>1. PICK s \in Nat : s = st.index[f]
  <2>1. st.index \in [1..4 -> Byte]
    BY DEF StructureType
  <2>2. st.index[f] \in Byte
    BY <2>1
  <2> QED
    BY <2>2 DEF Byte
<1>2. NotSpecified \in Seq(Int) /\ BadIndex \in Seq(Int)
  BY DEF NotSpecified, BadIndex
<1>3. ASSUME NEW n \in Nat, n = Len(st.strings), s # 0, ~(s > n)
      PROVE  Cut(Filtered(st.strings[s])) \in Seq(Int)
  <2>1. PICK str : str = st.strings[s]
    OBVIOUS
  <2>2. s \in 1..Len(st.strings)
    BY <1>3
  <2>3. str \in Seq(Byte) /\ Len(str) \in Nat
    BY <2>1, <2>2, WithNulType
  <2>4. PICK c \in Nat : c = Len(str)
    BY <2>3
  <2>5. DOMAIN str = 1..c
    BY <2>3, <2>4
  <2>6. ASSUME NEW k \in 1..c PROVE Printable(str[k]) \in Int
    <3>1. str[k] \in Byte
      BY <2>3, <2>4, ElementIn
    <3> QED
      BY <3>1 DEF Byte, Printable
  <2>7. Filtered(str) = [k \in 1..c |-> Printable(str[k])]
    BY <2>5 DEF Filtered
  <2>8. Filtered(str) \in [1..c -> Int]
    BY <2>6, <2>7
  <2>9. Filtered(str) \in Seq(Int)
    BY <2>8, FunIsSeq
  <2> QED
    BY <2>1, <2>9, CutShort DEF Short
<1>4. PICK n \in Nat : n = Len(st.strings)
  BY WithNulType
<1> QED
  BY <1>1, <1>2, <1>3, <1>4 DEF Said

LEMMA TextIsSeq ==
  ASSUME table \in Seq(StructureType), NEW m \in 0..Len(table), NEW t \in Types, NEW f \in 1..4
  PROVE  TextTo(m, t, f) \in Seq(Int)
<1>1. CASE Of(m, t) = {} \/ f \notin Fields(t)
  BY <1>1 DEF TextTo
<1>2. CASE ~(Of(m, t) = {} \/ f \notin Fields(t))
  <2>1. PICK T : T = Of(m, t)
    OBVIOUS
  <2>2. T \in SUBSET (1..m) /\ T # {} /\ m \in Nat
    BY <1>2, <2>1 DEF Of
  <2>3. Max(T) \in 1..m
    BY <2>2, EndsOfInk
  <2>4. Max(T) \in 1..Len(table)
    BY <2>3
  <2>5. table[Max(T)] \in StructureType
    BY <2>4, ElementIn
  <2> QED
    BY <1>2, <2>1, <2>5, SaidIsText DEF TextTo
<1> QED
  BY <1>1, <1>2

\* One structure more.
LEMMA ExpectedStep ==
  ASSUME table \in Seq(StructureType), NEW k \in 1..Len(table), NEW t \in Types, NEW f \in 1..4,
         NEW text, text = IF t = table[k].type /\ f \in Fields(t) THEN Said(table[k], f)
                                                                ELSE ExpectedTo(k - 1, t, f)
  PROVE  ExpectedTo(k, t, f) = IF Trimmed(t, f) THEN trim(text) ELSE text
<1>1. k \in Nat /\ k >= 1 /\ k - 1 \in 0..Len(table)
  OBVIOUS
<1>2. CASE t = table[k].type
  <2>1. PICK T : T = Of(k, t)
    OBVIOUS
  <2>2. T \in SUBSET (1..k) /\ k \in T
    BY <1>1, <1>2, <2>1 DEF Of
  <2>3. T \in SUBSET Nat /\ \A j \in T : j <= k
    BY <1>1, <2>2
  <2>4. Max(T) = k
    BY <2>2, <2>3, MaxIs
  <2>5. CASE f \in Fields(t)
    <3>1. TextTo(k, t, f) = Said(table[k], f)
      BY <2>1, <2>2, <2>4, <2>5 DEF TextTo
    <3> QED
      BY <1>2, <2>5, <3>1 DEF ExpectedTo
  <2>6. CASE f \notin Fields(t)
    <3>1. TextTo(k, t, f) = <<>> /\ TextTo(k - 1, t, f) = <<>>
      BY <2>6 DEF TextTo
    <3>2. trim(trim(<<>>)) = trim(<<>>)
      <4>1. <<>> \in Seq(Int)
        OBVIOUS
      <4> QED
        BY <4>1, TrimTwice
    <3> QED
      BY <1>2, <2>6, <3>1, <3>2 DEF ExpectedTo
  <2> QED
    BY <2>5, <2>6
<1>3. CASE t # table[k].type
  <2>1. Of(k, t) = Of(k - 1, t)
    <3>1. ASSUME NEW j \in 1..k, table[j].type = t PROVE j \in 1..(k - 1)
      <4>1. j # k
        BY <1>3, <3>1
      <4> QED
        BY <1>1, <4>1
    <3>2. \A j \in 1..(k - 1) : j \in 1..k
      BY <1>1
    <3> QED
      BY <3>1, <3>2 DEF Of
  <2>2. PICK old : old = TextTo(k - 1, t, f)
    OBVIOUS
  <2>3. TextTo(k, t, f) = old
    BY <2>1, <2>2 DEF TextTo
  <2>4. old \in Seq(Int)
    BY <1>1, <2>2, TextIsSeq
  <2>5. trim(trim(old)) = trim(old)
    BY <2>4, TrimTwice
  <2> QED
    BY <1>3, <2>2, <2>3, <2>5 DEF ExpectedTo
<1> QED
  BY <1>2, <1>3

LEMMA SaidHere ==
  ASSUME NEW k, Here(k), End(k) <= len, NEW st, st = table[k], st.type \in Types, NEW f \in 1..4
  PROVE  Cut(dmi_string(data, At(data + 3 + f))) = Said(st, f)
<1>1. PICK m, l : m = BodySize(st.type) /\ l = Len(Strings(st))
  OBVIOUS
<1>2. /\ st \in StructureType /\ m \in {4, 8, 18} /\ l \in Nat /\ data \in Nat /\ len \in Nat
      /\ End(k) = data + m + l
  BY <1>1, HeaderHere
<1>3. m > 4
  BY <1>1 DEF BodySize, Types
<1>4. data + m <= len
  <2>1. m \in Nat
    BY <1>2
  <2> QED
    BY <1>2, <2>1
<1>5. PICK s \in Nat : s = st.index[f] /\ s = At(data + 3 + f)
  <2>1. At(data + 3 + f) = st.index[f]
    BY <1>1, <1>3, <1>4, HeaderHere
  <2> QED
    BY <1>2, <2>1, SaidIsText
<1>6. PICK n \in Nat : n = Len(st.strings)
  BY <1>2, WithNulType
<1>7. dmi_string(data, s) = IF s = 0 THEN NotSpecified
                            ELSE IF s > n THEN BadIndex ELSE Filtered(st.strings[s])
  BY <1>6, StringHere
<1>8. Cut(NotSpecified) = NotSpecified /\ Cut(BadIndex) = BadIndex
  <2>1. \A x \in Int : Cut(<<x>>) = <<x>>
    <3> SUFFICES ASSUME NEW x \in Int PROVE Cut(<<x>>) = <<x>>
      OBVIOUS
    <3>1. PICK one : one = <<x>>
      OBVIOUS
    <3>3. one \in Seq(Int) /\ Len(one) = 1
      BY <3>1, OneInSeq
    <3>4. SubSeq(one, 1, 1) = one
      BY <3>3
    <3>2. (IF 1 < MaxText THEN 1 ELSE MaxText) = 1
      BY BoundsAssumption
    <3> QED
      BY <3>1, <3>2, <3>3, <3>4 DEF Cut
  <2> QED
    BY <2>1 DEF NotSpecified, BadIndex
<1>9. CASE s = 0
  BY <1>5, <1>7, <1>8, <1>9 DEF Said
<1>10. CASE s # 0 /\ s > n
  BY <1>5, <1>6, <1>7, <1>8, <1>10 DEF Said
<1>11. CASE s # 0 /\ ~(s > n)
  BY <1>5, <1>6, <1>7, <1>11 DEF Said
<1> QED
  BY <1>9, <1>10, <1>11

\* dmi_data has the names of the first m structures.
ShowsFirst(m) == \A t \in Types, f \in 1..4 : dmi_data[t][f] = ExpectedTo(m, t, f)

LEMMA DecodeStep ==
  ASSUME NEW k, Here(k), End(k) <= len, ShowsFirst(k - 1), dmi_decode
  PROVE  \A t \in Types, f \in 1..4 : dmi_data'[t][f] = ExpectedTo(k, t, f)
<1> SUFFICES ASSUME NEW t \in Types, NEW f \in 1..4
             PROVE  dmi_data'[t][f] = ExpectedTo(k, t, f)
  OBVIOUS
<1>1. PICK st, m, l : st = table[k] /\ m = BodySize(st.type) /\ l = Len(Strings(st))
  OBVIOUS
<1>2. At(data) = st.type /\ At(data + 1) = m
  BY <1>1, HeaderHere
<1>3. st.type \in Types => LongEnough(st.type, m)
  BY <1>1 DEF Types, LongEnough, BodySize
<1>4. PICK text : text = IF t = st.type /\ f \in Fields(t) THEN Said(st, f) ELSE ExpectedTo(k - 1, t, f)
  OBVIOUS
<1>5. text = IF t = At(data) /\ LongEnough(At(data), At(data + 1)) /\ f \in Fields(t)
             THEN Cut(dmi_string(data, At(data + 3 + f))) ELSE dmi_data[t][f]
  <2>1. dmi_data[t][f] = ExpectedTo(k - 1, t, f)
    BY DEF ShowsFirst
  <2>2. CASE t = st.type /\ f \in Fields(t)
    <3>1. Cut(dmi_string(data, At(data + 3 + f))) = Said(st, f)
      BY <1>1, <2>2, SaidHere
    <3> QED
      BY <1>2, <1>3, <1>4, <2>2, <3>1
  <2>3. CASE ~(t = st.type /\ f \in Fields(t))
    BY <1>2, <1>4, <2>1, <2>3
  <2> QED
    BY <2>2, <2>3
<1>6. dmi_data'[t][f] = IF Trimmed(t, f) THEN trim(text) ELSE text
  BY <1>5 DEF dmi_decode
<1>7. table \in Seq(StructureType) /\ k \in 1..Len(table)
  BY DEF Here, Built
<1>8. ExpectedTo(k, t, f) = IF Trimmed(t, f) THEN trim(text) ELSE text
  BY <1>1, <1>4, <1>7, ExpectedStep
<1> QED
  BY <1>6, <1>8

\* The walk is at the end of the i-th structure, and all of them are shown; or the
\* i-th is cut short, and those before it are shown.
AtEndOf(m) == m \in 0..Len(table) /\ m <= num /\ End(m) <= len /\ ShowsFirst(m)

WalkSoFar ==
  \/ data = End(i) /\ AtEndOf(i)
  \/ data > len /\ i \in 1..Len(table) /\ End(i) > len /\ AtEndOf(i - 1)

Finished == \A t \in Types, f \in 1..4 : dmi_data[t][f] = Expected(t, f)

LEMMA CompleteIs ==
  ASSUME DmiTypes, Built, NEW m \in 0..Len(table), m <= num, End(m) <= len,
         m < Len(table) => m + 1 > num \/ End(m + 1) > len
  PROVE  Complete = 1..m
<1>1. PICK z : z = Pieces(table)
  OBVIOUS
<1>2. table \in Seq(StructureType) /\ z \in Seq(Seq(Byte)) /\ Len(z) = Len(table)
  BY <1>1, PiecesType DEF Built
<1>3. PICK n \in Nat : n = Len(table)
  BY <1>2
<1>4. m \in Nat /\ m <= n /\ num \in Nat /\ len \in Nat
  BY <1>3 DEF DmiTypes
<1>5. \A k \in 1..n : EndOf(z, k) \in Nat /\ Len(Bytes(SubSeq(table, 1, k))) = EndOf(z, k)
  <2> SUFFICES ASSUME NEW k \in 1..n
               PROVE  EndOf(z, k) \in Nat /\ Len(Bytes(SubSeq(table, 1, k))) = EndOf(z, k)
    OBVIOUS
  <2>1. k \in 0..Len(table) /\ k \in 0..Len(z)
    BY <1>2, <1>3
  <2> QED
    BY <1>1, <1>2, <2>1, FirstStructures, JoinedType
<1>6. ASSUME NEW k \in 1..n, k <= m PROVE k <= num /\ EndOf(z, k) <= len
  <2>1. k \in 0..Len(z) /\ m \in k..Len(z)
    BY <1>2, <1>3, <1>4, <1>6
  <2>2. EndOf(z, k) <= EndOf(z, m)
    BY <1>2, <2>1, JoinedGrows
  <2>3. m \in 0..Len(z)
    BY <1>2
  <2>4. EndOf(z, m) \in Nat /\ EndOf(z, m) <= len
    BY <1>1, <1>2, <2>3, JoinedType DEF End
  <2> QED
    BY <1>4, <1>5, <1>6, <2>2, <2>4
<1>7. ASSUME NEW k \in 1..n, ~(k <= m) PROVE ~(k <= num /\ EndOf(z, k) <= len)
  <2>1. m < Len(table) /\ m + 1 <= k
    BY <1>3, <1>4, <1>7
  <2>2. CASE m + 1 > num
    BY <1>4, <2>1, <2>2
  <2>3. CASE End(m + 1) > len
    <3>1. m + 1 \in 0..Len(z) /\ k \in (m + 1)..Len(z) /\ m + 1 \in 1..n
      BY <1>2, <1>3, <1>4, <2>1
    <3>2. EndOf(z, m + 1) <= EndOf(z, k)
      BY <1>2, <3>1, JoinedGrows
    <3>3. EndOf(z, m + 1) > len
      BY <1>1, <2>3 DEF End
    <3> QED
      BY <1>4, <1>5, <3>1, <3>2, <3>3
  <2> QED
    BY <2>1, <2>2, <2>3
<1>8. Complete = {k \in 1..n : k <= num /\ EndOf(z, k) <= len}
  BY <1>3, <1>5 DEF Complete
<1>9. \A k \in 1..m : k \in 1..n /\ k <= m
  BY <1>4
<1>10. \A k \in 1..n : k <= m => k \in 1..m
  BY <1>4
<1> QED
  BY <1>6, <1>7, <1>8, <1>9, <1>10

LEMMA AllShown ==
  ASSUME DmiTypes, Built, NEW m, AtEndOf(m), m < Len(table) => m + 1 > num \/ End(m + 1) > len
  PROVE  Finished
<1>1. Complete = 1..m
  BY CompleteIs DEF AtEndOf
<1>2. \A t \in Types, f \in 1..4 : Expected(t, f) = ExpectedTo(m, t, f)
  BY <1>1 DEF Expected, ExpectedTo, TextTo, Of
<1> QED
  BY <1>2 DEF AtEndOf, ShowsFirst, Finished

\* When the walk ends, all that is complete is shown.
LEMMA WalkEnds ==
  ASSUME DmiTypes, Built, WalkSoFar, ~(i < num /\ data + 4 <= len)
  PROVE  Finished
<1>1. i \in Nat /\ num \in Nat /\ i <= num /\ data \in Nat /\ len \in Nat
  BY DEF DmiTypes
<1>2. CASE data = End(i) /\ AtEndOf(i)
  <2>1. ASSUME i < Len(table), ~(i + 1 > num) PROVE End(i + 1) > len
    <3>1. i + 1 \in 1..Len(table) /\ (i + 1) - 1 = i
      <4>1. Len(table) \in Nat
        BY DEF Built
      <4> QED
        BY <1>1, <2>1, <4>1
    <3>2. PICK st, c, l, m : st = table[i + 1] /\ c = Len(Made(st)) /\ l = Len(Strings(st)) /\ m = BodySize(st.type)
      OBVIOUS
    <3>3. st \in StructureType /\ End(i + 1) = data + c
      BY <1>2, <3>1, <3>2, PieceBytes
    <3>4. l \in Nat /\ m \in {4, 8, 18} /\ c = m + l
      BY <3>2, <3>3, MadeShape
    <3>5. m \in Nat /\ m >= 4
      BY <3>4
    <3>6. data + 4 > len
      BY <1>1, <2>1
    <3>7. l >= 2
      BY <3>2, <3>3, StringsEnd
    <3> QED
      BY <1>1, <3>3, <3>4, <3>5, <3>6, <3>7
  <2> QED
    BY <1>2, <2>1, AllShown
<1>3. CASE data > len /\ i \in 1..Len(table) /\ End(i) > len /\ AtEndOf(i - 1)
  <2>1. (i - 1) + 1 = i
    BY <1>1
  <2> QED
    BY <1>3, <2>1, AllShown
<1> QED
  BY <1>2, <1>3 DEF WalkSoFar

LEMMA BiosStands ==
  ASSUME UNCHANGED bios
  PROVE  /\ \A m : End(m)' = End(m)
         /\ \A m, t, f : ExpectedTo(m, t, f)' = ExpectedTo(m, t, f)
         /\ \A t, f : Expected(t, f)' = Expected(t, f)
         /\ (OneEntry' <=> OneEntry) /\ (WellFormed' <=> WellFormed) /\ (Built' <=> Built)
<1>1. table' = table /\ buf' = buf /\ len' = len /\ num' = num /\ segment' = segment
  BY DEF bios
<1>2. \A m : End(m)' = End(m)
  BY <1>1 DEF End
<1>3. \A m, t, f : ExpectedTo(m, t, f)' = ExpectedTo(m, t, f)
  BY <1>1 DEF ExpectedTo, TextTo, Of
<1>4. \A t, f : Expected(t, f)' = Expected(t, f)
  BY <1>1 DEF Expected, Complete
<1> QED
  BY <1>1, <1>2, <1>3, <1>4 DEF OneEntry, WellFormed, Built

LEMMA ShownStands ==
  ASSUME UNCHANGED bios, UNCHANGED dmi_data
  PROVE  /\ \A m : ShowsFirst(m)' <=> ShowsFirst(m)
         /\ Finished' <=> Finished
BY BiosStands DEF ShowsFirst, Finished

\* One structure of the walk.
LEMMA WalkStep ==
  ASSUME DmiTypes, Built, WellFormed, WalkSoFar, Walk, i < num, data + 4 <= len
  PROVE  WalkSoFar' /\ pc' = pc
<1>1. i \in Nat /\ num \in Nat /\ data \in Nat /\ len \in Nat
  BY DEF DmiTypes
<1>2. data = End(i) /\ AtEndOf(i)
  BY <1>1 DEF WalkSoFar
<1>3. PICK n \in Nat : n = Len(table)
  BY DEF Built
<1>4. i < n
  <2>1. ASSUME i = n PROVE FALSE
    <3>1. End(n) = Len(buf)
      BY <1>3, PiecesType DEF Built, End
    <3>2. len <= Len(buf) /\ Len(buf) \in Nat
      BY DEF DmiTypes
    <3> QED
      BY <1>1, <1>2, <2>1, <3>1, <3>2
  <2> QED
    BY <1>1, <1>2, <1>3, <2>1 DEF AtEndOf
<1>5. PICK k \in Nat : k = i + 1
  BY <1>1
<1>6. k \in 1..Len(table) /\ k - 1 = i /\ k <= num
  BY <1>1, <1>3, <1>4, <1>5
<1>7. Here(k)
  BY <1>2, <1>6 DEF Here, WellFormed
<1>8. /\ UNCHANGED bios /\ pc' = pc /\ data' = Terminator + 2 /\ i' = k
      /\ Decode(Terminator + 2)
  BY <1>5 DEF Walk
<1>9. /\ table' = table /\ len' = len /\ num' = num
      /\ End(k)' = End(k) /\ End(k - 1)' = End(k - 1)
  BY <1>8, BiosStands DEF bios
<1>10. CASE End(k) <= len
  <2>1. Terminator + 2 = End(k)
    BY <1>7, <1>10, EndFound
  <2>2. dmi_decode
    BY <1>8, <1>10, <2>1 DEF Decode, Fits
  <2>3. \A t \in Types, f \in 1..4 : dmi_data'[t][f] = ExpectedTo(k, t, f)
    BY <1>2, <1>6, <1>7, <1>10, <2>2, DecodeStep DEF AtEndOf
  <2>4. ShowsFirst(k)'
    BY <1>8, <2>3, BiosStands DEF ShowsFirst
  <2>5. k \in 0..Len(table)
    BY <1>3, <1>6
  <2>6. AtEndOf(k)'
    BY <1>6, <1>9, <1>10, <2>4, <2>5 DEF AtEndOf
  <2>7. (data = End(i) /\ AtEndOf(i))'
    BY <1>8, <1>9, <2>1, <2>6
  <2> QED
    BY <1>8, <2>7 DEF WalkSoFar
<1>11. CASE ~(End(k) <= len)
  <2>1. End(k) > len
    BY <1>1, <1>6, <1>11, PieceBytes
  <2>2. ~Fits(Terminator + 2) /\ Terminator + 2 > len
    BY <1>7, <2>1, CutOff
  <2>3. UNCHANGED dmi_data
    BY <1>8, <2>2 DEF Decode
  <2>4. ShowsFirst(k - 1)'
    <3>1. ShowsFirst(k - 1)
      BY <1>2, <1>6 DEF AtEndOf
    <3> QED
      BY <1>8, <2>3, <3>1, ShownStands
  <2>5. AtEndOf(k - 1)'
    <3>1. k - 1 \in 0..Len(table) /\ k - 1 <= num /\ End(k - 1) <= len
      BY <1>2, <1>6 DEF AtEndOf
    <3> QED
      BY <1>9, <2>4, <3>1 DEF AtEndOf
  <2>6. data' > len' /\ i' \in 1..Len(table') /\ End(k)' > len'
    BY <1>6, <1>8, <1>9, <2>1, <2>2
  <2>7. (data > len /\ i \in 1..Len(table) /\ End(i) > len /\ AtEndOf(i - 1))'
    BY <1>8, <2>5, <2>6
  <2> QED
    BY <1>8, <2>7 DEF WalkSoFar
<1> QED
  BY <1>10, <1>11

-----------------------------------------------------------------------------
IsEntry(k) ==
  /\ k \in 1..(Len(segment) - 1) /\ segment[k] = "SM" /\ segment[k + 1] = "DMI"
  /\ \A j \in 1..Len(segment) : segment[j] = "SM" => j = k

\* The only entry point is met once, and the walk it starts is the only one.
NamesInv ==
  memory = "all" /\ OneEntry /\ WellFormed =>
    /\ \A k \in 1..Len(segment) : IsEntry(k) => (found = 0 <=> fp <= k)
    /\ found = 0 => pc = "scan" /\ ShowsFirst(0)
    /\ pc = "walk" => WalkSoFar
    /\ pc # "walk" /\ found # 0 => Finished

LEMMA InitNames ==
  ASSUME Init
  PROVE  NamesInv
<1> SUFFICES ASSUME memory = "all"
             PROVE  /\ \A k \in 1..Len(segment) : IsEntry(k) => (found = 0 <=> fp <= k)
                    /\ found = 0 => pc = "scan" /\ ShowsFirst(0)
                    /\ pc = "walk" => WalkSoFar
                    /\ pc # "walk" /\ found # 0 => Finished
  BY DEF NamesInv
<1>1. found = 0 /\ fp = 1 /\ pc = "scan" /\ dmi_data = [t \in Types |-> [f \in 1..4 |-> <<>>]]
  BY DEF Init
<1>2. \A k \in 1..Len(segment) : fp <= k
  BY <1>1
<1>3. ASSUME NEW t \in Types, NEW f \in 1..4 PROVE dmi_data[t][f] = ExpectedTo(0, t, f)
  <2>1. dmi_data[t][f] = <<>>
    BY <1>1
  <2>2. Of(0, t) = {}
    BY DEF Of
  <2>3. trim(<<>>) = <<>>
    <3>1. {k \in DOMAIN <<>> : <<>>[k] # 32} = {}
      OBVIOUS
    <3> QED
      BY <3>1 DEF trim
  <2> QED
    BY <2>1, <2>2, <2>3 DEF ExpectedTo, TextTo
<1> QED
  BY <1>1, <1>2, <1>3 DEF ShowsFirst

LEMMA ScanNames ==
  ASSUME DmiTypes, Built, NamesInv, Scan
  PROVE  NamesInv'
<1>1. UNCHANGED bios /\ UNCHANGED dmi_data /\ pc = "scan"
  BY DEF Scan
<1>2. /\ memory' = memory /\ segment' = segment /\ table' = table /\ num' = num /\ len' = len
      /\ (OneEntry' <=> OneEntry) /\ (WellFormed' <=> WellFormed)
  BY <1>1, BiosStands DEF bios
<1> SUFFICES ASSUME memory = "all", OneEntry, WellFormed
             PROVE  /\ \A k \in 1..Len(segment) : IsEntry(k)' => (found' = 0 <=> fp' <= k)
                    /\ found' = 0 => pc' = "scan" /\ ShowsFirst(0)'
                    /\ pc' = "walk" => WalkSoFar'
                    /\ pc' # "walk" /\ found' # 0 => Finished'
  BY <1>2 DEF NamesInv
<1>3. /\ \A k \in 1..Len(segment) : IsEntry(k) => (found = 0 <=> fp <= k)
      /\ found = 0 => ShowsFirst(0)
      /\ found # 0 => Finished
  BY <1>1 DEF NamesInv
<1>4. PICK n \in Nat : n = Len(segment)
  BY DEF DmiTypes
<1>5. fp \in Nat /\ found \in Nat /\ num \in Nat /\ len \in Nat
  BY <1>4 DEF DmiTypes
<1>6. PICK a \in 1..(n - 1) : IsEntry(a)
  BY <1>4 DEF OneEntry, IsEntry
<1>7. \A k \in 1..n : IsEntry(k) => k = a
  <2> SUFFICES ASSUME NEW k \in 1..n, IsEntry(k) PROVE k = a
    OBVIOUS
  <2>1. segment[k] = "SM"
    BY DEF IsEntry
  <2> QED
    BY <1>4, <1>6, <2>1 DEF IsEntry
<1>8. \A k : IsEntry(k)' <=> IsEntry(k)
  BY <1>2 DEF IsEntry
<1>9. /\ a \in 1..n /\ a < n /\ (found = 0 <=> fp <= a)
      /\ segment[a] = "SM" /\ segment[a + 1] = "DMI" /\ \A j \in 1..n : segment[j] = "SM" => j = a
  <2>1. a \in 1..n /\ a < n
    OBVIOUS
  <2> QED
    BY <1>3, <1>4, <1>6, <2>1 DEF IsEntry
<1>10. SUFFICES /\ found' = 0 <=> fp' <= a
                /\ found' = 0 => pc' = "scan"
                /\ pc' = "walk" => WalkSoFar'
                /\ found' # 0 /\ found = 0 => pc' = "walk"
                /\ found' = 0 => found = 0
  <2>1. (ShowsFirst(0)' <=> ShowsFirst(0)) /\ (Finished' <=> Finished)
    BY <1>1, ShownStands
  <2> QED
    BY <1>3, <1>4, <1>7, <1>8, <1>9, <1>10, <2>1
<1>11. CASE fp > n
  <2>1. pc' = "done" /\ UNCHANGED <<fp, found>>
    BY <1>4, <1>11 DEF Scan
  <2>2. found # 0
    BY <1>5, <1>9, <1>11
  <2> QED
    BY <1>9, <2>1, <2>2
<1>12. CASE fp <= n /\ segment[fp] = "SM"
  <2>1. fp \in 1..n
    BY <1>4, <1>12 DEF DmiTypes
  <2>2. fp = a
    BY <1>9, <1>12, <2>1
  <2>3. Anchor(fp) /\ EntryPoint(fp)
    BY <1>4, <1>9, <2>2 DEF Anchor, EntryPoint
  <2>4. ~(fp > Len(segment))
    BY <1>4, <1>5, <1>12
  <2>5. found' = found + 1 /\ data' = 0 /\ i' = 0 /\ pc' = "walk" /\ fp' = a + 2
    BY <2>2, <2>3, <2>4 DEF Scan, NextParagraph
  <2>6. found = 0
    BY <1>5, <1>9, <2>2
  <2>7. End(0) = 0
    <3>1. Pieces(table) \in Seq(Seq(Byte))
      BY PiecesType DEF Built
    <3> QED
      BY <3>1, JoinedNone DEF End
  <2>8. ShowsFirst(0)' /\ End(0)' = 0
    BY <1>1, <1>3, <2>6, <2>7, ShownStands, BiosStands
  <2>9. 0 \in 0..Len(table)
    BY DEF Built
  <2>10. AtEndOf(0)'
    BY <1>2, <1>5, <2>8, <2>9 DEF AtEndOf
  <2>11. (data = End(i) /\ AtEndOf(i))'
    BY <2>5, <2>8, <2>10
  <2>12. WalkSoFar'
    BY <2>11 DEF WalkSoFar
  <2>13. found' # 0 /\ ~(fp' <= a)
    BY <1>5, <2>2, <2>5
  <2> QED
    BY <2>5, <2>12, <2>13
<1>13. CASE fp <= n /\ segment[fp] # "SM"
  <2>1. ~Anchor(fp)
    BY <1>13 DEF Anchor
  <2>2. ~(fp > Len(segment))
    BY <1>4, <1>5, <1>13
  <2>3. fp' = fp + 1 /\ pc' = pc /\ found' = found
    BY <2>1, <2>2 DEF Scan, NextParagraph
  <2>4. fp # a
    BY <1>9, <1>13
  <2>5. fp' <= a <=> fp <= a
    BY <1>5, <2>3, <2>4
  <2> QED
    BY <1>1, <1>9, <2>3, <2>5
<1> QED
  BY <1>4, <1>5, <1>11, <1>12, <1>13

LEMMA WalkNames ==
  ASSUME DmiTypes, Built, NamesInv, Walk
  PROVE  NamesInv'
<1>1. UNCHANGED bios /\ UNCHANGED <<fp, found>> /\ pc = "walk"
  BY DEF Walk
<1>2. /\ memory' = memory /\ segment' = segment
      /\ (OneEntry' <=> OneEntry) /\ (WellFormed' <=> WellFormed)
  BY <1>1, BiosStands DEF bios
<1> SUFFICES ASSUME memory = "all", OneEntry, WellFormed
             PROVE  /\ \A k \in 1..Len(segment) : IsEntry(k)' => (found' = 0 <=> fp' <= k)
                    /\ found' = 0 => pc' = "scan" /\ ShowsFirst(0)'
                    /\ pc' = "walk" => WalkSoFar'
                    /\ pc' # "walk" /\ found' # 0 => Finished'
  BY <1>2 DEF NamesInv
<1>3. /\ \A k \in 1..Len(segment) : IsEntry(k) => (found = 0 <=> fp <= k)
      /\ found # 0 /\ WalkSoFar
  BY <1>1 DEF NamesInv
<1>4. \A k : IsEntry(k)' <=> IsEntry(k)
  BY <1>2 DEF IsEntry
<1>5. CASE i < num /\ data + 4 <= len
  <2>1. WalkSoFar' /\ pc' = pc
    BY <1>3, <1>5, WalkStep
  <2> QED
    BY <1>1, <1>3, <1>4, <2>1
<1>6. CASE ~(i < num /\ data + 4 <= len)
  <2>1. pc' = "scan" /\ UNCHANGED dmi_data
    BY <1>6 DEF Walk
  <2>2. Finished
    BY <1>3, <1>6, WalkEnds
  <2>3. Finished'
    BY <1>1, <2>1, <2>2, ShownStands
  <2> QED
    BY <1>1, <1>3, <1>4, <2>1, <2>3
<1> QED
  BY <1>5, <1>6

BuiltNames == Built /\ NamesInv

LEMMA InitBuilt == Init => BuiltNames
<1> SUFFICES ASSUME Init PROVE BuiltNames
  OBVIOUS
<1>1. Built
  BY TablesAssumption DEF Init, Built
<1> QED
  BY <1>1, InitNames DEF BuiltNames

LEMMA NextNames == DmiInv /\ BuiltNames /\ [Next]_vars => BuiltNames'
<1> SUFFICES ASSUME DmiInv, BuiltNames, [Next]_vars PROVE BuiltNames'
  OBVIOUS
<1>1. DmiTypes /\ Built /\ NamesInv
  BY DEF DmiInv, BuiltNames
<1>2. CASE Scan
  <2>1. UNCHANGED bios
    BY <1>2 DEF Scan
  <2> QED
    BY <1>1, <1>2, <2>1, ScanNames, BiosStands DEF BuiltNames
<1>3. CASE Walk
  <2>1. UNCHANGED bios
    BY <1>3 DEF Walk
  <2> QED
    BY <1>1, <1>3, <2>1, WalkNames, BiosStands DEF BuiltNames
<1>4. CASE UNCHANGED vars
  <2>1. UNCHANGED bios /\ UNCHANGED <<pc, fp, found, data, i, dmi_data>>
    BY <1>4 DEF vars
  <2>2. /\ memory' = memory /\ segment' = segment /\ table' = table /\ num' = num /\ len' = len
    BY <2>1 DEF bios
  <2>3. \A k : (AtEndOf(k)' <=> AtEndOf(k)) /\ (IsEntry(k)' <=> IsEntry(k)) /\ End(k)' = End(k)
    BY <2>1, <2>2, ShownStands, BiosStands DEF AtEndOf, IsEntry
  <2>4. WalkSoFar' <=> WalkSoFar
    BY <2>1, <2>2, <2>3 DEF WalkSoFar
  <2>5. NamesInv'
    BY <1>1, <2>1, <2>2, <2>3, <2>4, ShownStands, BiosStands DEF NamesInv
  <2> QED
    BY <1>1, <2>1, <2>5, BiosStands DEF BuiltNames
<1> QED
  BY <1>2, <1>3, <1>4 DEF Next

\* The names in the windows and in breakin.dat are those that the BIOS has written
\* (dmi_table, dmi_decode, dmi_string, trim): each is that of the last structure of its
\* type that the table has whole, wherever it is cut, if the BIOS has one entry point
\* and its structures are as long as they say.
THEOREM DecodedAlways == Spec => []Decoded
<1>1. DmiInv /\ BuiltNames => Decoded
  <2> SUFFICES ASSUME DmiInv, BuiltNames, pc = "done", memory = "all", OneEntry, WellFormed
               PROVE  \A t \in Types, f \in 1..4 : dmi_data[t][f] = Expected(t, f)
    BY DEF Decoded
  <2>1. Finished
    BY DEF BuiltNames, NamesInv
  <2> QED
    BY <2>1 DEF Finished
<1> QED
  BY DmiInvAlways, InitBuilt, NextNames, <1>1, PTL DEF Spec
=============================================================================
