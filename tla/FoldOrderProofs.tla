--------------------------- MODULE FoldOrderProofs ---------------------------
(***************************************************************************)
(* Fold order is a sort: a permutation of the positions of the log in which *)
(* a line is never before one that comes Before it, for logs of any length. *)
(*                                                                         *)
(* The library's induction over the naturals takes an operator as a        *)
(* parameter, which the provers cannot be given; here it is an induction   *)
(* over sets of naturals, and recursive functions are shown to exist one   *)
(* length at a time.                                                       *)
(***************************************************************************)
EXTENDS FoldOrder, FiniteSetTheorems, SequenceTheorems, TLAPS

-----------------------------------------------------------------------------
(* Induction. *)

LEMMA NatIsWellFounded == IsWellFoundedOn({p \in Nat \X Nat : p[1] < p[2]}, Nat)
BY NatLessThanWellFounded DEF OpToRel

LEMMA Smallest ==
    ASSUME NEW T \in SUBSET Nat, T # {}
    PROVE  \E x \in T : \A y \in T : x <= y
<1> DEFINE R == {p \in Nat \X Nat : p[1] < p[2]}
<1>1. PICK x \in T : \A y \in T : <<y, x>> \notin R
  <2> HIDE DEF R
  <2> QED BY NatIsWellFounded, WFMin DEF R
<1>2. \A y \in T : y < x => <<y, x>> \in R
  OBVIOUS
<1> HIDE DEF R
<1>3. ASSUME NEW y \in T PROVE x <= y
  <2>1. x \in Nat /\ y \in Nat
    OBVIOUS
  <2>2. ~ (y < x)
    BY <1>1, <1>2
  <2> QED BY <2>1, <2>2
<1> QED BY <1>3

LEMMA Largest ==
    ASSUME NEW n \in Nat, NEW T \in SUBSET (1..n), T # {}
    PROVE  \E x \in T : \A y \in T : y <= x
<1> DEFINE U == {m \in Nat : m <= n /\ n - m \in T}
<1>1. ASSUME NEW y \in T PROVE n - y \in U
  <2>1. y \in 1..n /\ n - y \in Nat /\ n - (n - y) = y
    OBVIOUS
  <2> QED BY <2>1
<1>2. U \in SUBSET Nat /\ U # {}
  BY <1>1
<1>3. PICK m \in U : \A l \in U : m <= l
  <2> HIDE DEF U
  <2> QED BY <1>2, Smallest
<1>4. ASSUME NEW y \in T PROVE y <= n - m
  <2>1. m <= n - y /\ m \in Nat /\ y \in 1..n
    BY <1>1, <1>3
  <2> QED BY <2>1
<1>5. n - m \in T
  BY <1>3
<1> QED BY <1>4, <1>5

LEMMA Induction ==
    ASSUME NEW S \in SUBSET Nat, 0 \in S, \A n \in S : n + 1 \in S
    PROVE  S = Nat
<1> SUFFICES ASSUME Nat \ S # {} PROVE FALSE
  OBVIOUS
<1>1. PICK x \in Nat \ S : \A y \in Nat \ S : x <= y
  <2>1. Nat \ S \in SUBSET Nat
    OBVIOUS
  <2> QED BY <2>1, Smallest
<1>2. x # 0 /\ x - 1 \in Nat
  BY <1>1
<1>3. x - 1 \in S
  BY <1>1, <1>2
<1> QED BY <1>1, <1>2, <1>3

-----------------------------------------------------------------------------
(* One insertion. *)

Stamped(log) == Len(log) \in Nat /\ \A i \in 1..Len(log) : log[i].at \in Nat

\* `order` is the first n positions, each once, in fold order.
Ordered(log, order, n) ==
    /\ order \in Seq(Nat) /\ Len(order) = n
    /\ \A k \in 1..n : order[k] \in 1..n
    /\ \A i \in 1..n : \E k \in 1..n : order[k] = i
    /\ \A j, k \in 1..n : j < k => Before(log, order[j], order[k])

\* What is not stamped later than a new position is a first part of the order.
LEMMA Cut ==
    ASSUME NEW log, Stamped(log), NEW n \in Nat, n + 1 <= Len(log), NEW order, Ordered(log, order, n)
    PROVE  \E c \in 0..n : /\ Cardinality(NotLater(log, order, n + 1)) = c
                           /\ \A i \in 1..n : log[order[i]].at <= log[n + 1].at <=> i <= c
<1> DEFINE at(i) == log[order[i]].at
           now == log[n + 1].at
           T == {i \in Nat : i >= 1 /\ (i = n + 1 \/ (i <= n /\ ~ (at(i) <= now)))}
<1>1. ASSUME NEW i \in 1..n PROVE order[i] \in 1..Len(log) /\ at(i) \in Nat
  <2>1. order[i] \in 1..n
    BY DEF Ordered
  <2>2. order[i] \in 1..Len(log)
    BY <2>1 DEF Stamped
  <2> QED BY <2>2 DEF Stamped
<1>2. now \in Nat
  BY DEF Stamped
<1>3. \A j, k \in 1..n : j < k => at(j) <= at(k)
  <2> SUFFICES ASSUME NEW j \in 1..n, NEW k \in 1..n, j < k PROVE at(j) <= at(k)
    OBVIOUS
  <2>1. Before(log, order[j], order[k])
    BY DEF Ordered
  <2> QED BY <1>1, <2>1 DEF Before
<1>4. PICK x \in T : \A y \in T : x <= y
  <2>1. n + 1 \in T /\ T \in SUBSET Nat
    OBVIOUS
  <2> HIDE DEF T
  <2> QED BY <2>1, Smallest
<1>5. x \in Nat /\ 1 <= x /\ x <= n + 1 /\ (x = n + 1 \/ ~ (at(x) <= now))
  BY <1>4
<1>6. ASSUME NEW i \in 1..n PROVE at(i) <= now <=> i <= x - 1
  <2>1. CASE i <= x - 1
    <3>1. i \notin T
      BY <1>4, <1>5, <2>1
    <3> QED BY <2>1, <3>1
  <2>2. CASE ~ (i <= x - 1)
    <3>1. x \in 1..n /\ x <= i /\ ~ (at(x) <= now)
      BY <1>5, <2>2
    <3> HIDE DEF at, now
    <3>2. at(x) <= at(i)
      <4>1. CASE x = i
        BY <1>1, <4>1
      <4>2. CASE x < i
        BY <1>3, <3>1, <4>2
      <4> QED BY <1>5, <3>1, <4>1, <4>2
    <3>3. at(x) \in Nat /\ at(i) \in Nat
      BY <1>1, <3>1
    <3> QED BY <1>2, <2>2, <3>1, <3>2, <3>3
  <2> QED BY <2>1, <2>2
<1>7. NotLater(log, order, n + 1) = 1..(x - 1)
  <2>1. Len(order) = n
    BY DEF Ordered
  <2>2. NotLater(log, order, n + 1) = {i \in 1..n : at(i) <= now}
    BY <2>1 DEF NotLater
  <2> HIDE DEF at, now
  <2>3. {i \in 1..n : at(i) <= now} = 1..(x - 1)
    BY <1>5, <1>6
  <2> QED BY <2>2, <2>3
<1>8. Cardinality(1..(x - 1)) = x - 1 /\ x - 1 \in 0..n
  BY <1>5, FS_Interval
<1> QED BY <1>6, <1>7, <1>8

LEMMA InsertedIsOrdered ==
    ASSUME NEW log, Stamped(log), NEW n \in Nat, n + 1 <= Len(log), NEW order, Ordered(log, order, n)
    PROVE  Ordered(log, Inserted(log, order, n + 1), n + 1)
<1>1. PICK c \in 0..n :
        /\ Cardinality(NotLater(log, order, n + 1)) = c
        /\ \A i \in 1..n : log[order[i]].at <= log[n + 1].at <=> i <= c
  BY Cut
<1> DEFINE new == Inserted(log, order, n + 1)
           old == SubSeq(order, 1, c)
           rest == SubSeq(order, c + 1, n)
<1>2. new = old \o <<n + 1>> \o rest
  <2>1. new = SubSeq(order, 1, (1 + c) - 1) \o <<n + 1>> \o SubSeq(order, 1 + c, Len(order))
    BY <1>1 DEF Inserted, InsertAt
  <2>2. (1 + c) - 1 = c /\ 1 + c = c + 1 /\ Len(order) = n
    BY DEF Ordered
  <2> QED BY <2>1, <2>2
<1>3. /\ order \in Seq(Nat) /\ Len(order) = n /\ \A i \in 1..n : order[i] \in Nat
  BY DEF Ordered
<1>4. /\ old \in Seq(Nat) /\ Len(old) = c /\ \A i \in 1..c : old[i] = order[i]
  BY <1>3, SubSeqProperties
<1>5. /\ rest \in Seq(Nat) /\ Len(rest) = n - c /\ \A i \in 1..(n - c) : rest[i] = order[c + i]
  BY <1>3, SubSeqProperties
<1>6. /\ new \in Seq(Nat) /\ Len(new) = n + 1
      /\ \A i \in 1..c : new[i] = order[i]
      /\ new[c + 1] = n + 1
      /\ \A i \in (c + 1)..n : new[i + 1] = order[i]
  <2> HIDE DEF new, old, rest
  <2>1. /\ old \o <<n + 1>> \in Seq(Nat) /\ Len(old \o <<n + 1>>) = c + 1
        /\ \A i \in 1..c : (old \o <<n + 1>>)[i] = order[i]
        /\ (old \o <<n + 1>>)[c + 1] = n + 1
    BY <1>4
  <2> DEFINE first == old \o <<n + 1>>
  <2> HIDE DEF first
  <2>2. first \in Seq(Nat) /\ Len(first) = c + 1
    BY <2>1 DEF first
  <2>3. /\ first \o rest \in Seq(Nat) /\ Len(first \o rest) = n + 1
        /\ \A i \in 1..(n + 1) : (first \o rest)[i] = IF i <= c + 1 THEN first[i] ELSE rest[i - (c + 1)]
    <3>1. Len(first) + Len(rest) = n + 1
      BY <1>5, <2>2
    <3>2. Len(first) = c + 1
      BY <2>2
    <3>3. /\ first \o rest \in Seq(Nat) /\ Len(first \o rest) = Len(first) + Len(rest)
          /\ \A i \in 1..(Len(first) + Len(rest)) :
                (first \o rest)[i] = IF i <= Len(first) THEN first[i] ELSE rest[i - Len(first)]
      BY <1>5, <2>2, ConcatProperties
    <3> QED BY <3>1, <3>2, <3>3
  <2>4. new = first \o rest
    BY <1>2 DEF first
  <2>5. /\ \A i \in 1..c : (first \o rest)[i] = order[i]
        /\ (first \o rest)[c + 1] = n + 1
    BY <2>1, <2>3 DEF first
  <2>6. ASSUME NEW i \in (c + 1)..n PROVE (first \o rest)[i + 1] = order[i]
    <3>1. /\ i + 1 \in 1..(n + 1) /\ ~ (i + 1 <= c + 1)
          /\ (i + 1) - (c + 1) = i - c /\ i - c \in 1..(n - c) /\ c + (i - c) = i
      OBVIOUS
    <3> QED BY <1>5, <2>3, <3>1
  <2> QED BY <2>3, <2>4, <2>5, <2>6
<1> HIDE DEF new
<1>7. ASSUME NEW k \in 1..(n + 1)
      PROVE  \/ k <= c /\ k \in 1..n /\ new[k] = order[k]
             \/ k = c + 1 /\ new[k] = n + 1
             \/ c < k - 1 /\ k - 1 \in 1..n /\ new[k] = order[k - 1]
  <2>1. CASE k <= c
    BY <1>6, <2>1
  <2>2. CASE k = c + 1
    BY <1>6, <2>2
  <2>3. CASE c < k - 1
    <3>1. k - 1 \in (c + 1)..n /\ (k - 1) + 1 = k
      BY <2>3
    <3> QED BY <1>6, <2>3, <3>1
  <2> QED BY <2>1, <2>2, <2>3
<1>8. ASSUME NEW i \in 1..(n + 1) PROVE \E k \in 1..(n + 1) : new[k] = i
  <2>1. CASE i = n + 1
    BY <1>6, <2>1
  <2>2. CASE i # n + 1
    <3>1. PICK k \in 1..n : order[k] = i
      BY <2>2 DEF Ordered
    <3>2. new[k] = i \/ new[k + 1] = i
      BY <1>6, <3>1
    <3> QED BY <3>2
  <2> QED BY <2>1, <2>2
<1>9. ASSUME NEW j \in 1..(n + 1), NEW k \in 1..(n + 1), j < k
      PROVE  Before(log, new[j], new[k])
  <2>1. \A i \in 1..n : /\ order[i] \in 1..n /\ log[order[i]].at \in Nat
                        /\ log[order[i]].at <= log[n + 1].at <=> i <= c
    <3> SUFFICES ASSUME NEW i \in 1..n
                 PROVE  /\ order[i] \in 1..n /\ log[order[i]].at \in Nat
                        /\ log[order[i]].at <= log[n + 1].at <=> i <= c
      OBVIOUS
    <3>1. order[i] \in 1..n
      BY DEF Ordered
    <3>2. order[i] \in 1..Len(log)
      BY <3>1 DEF Stamped
    <3> QED BY <1>1, <3>1, <3>2 DEF Stamped
  <2>2. log[n + 1].at \in Nat
    BY DEF Stamped
  <2>3. ASSUME NEW i \in 1..n, i <= c PROVE Before(log, order[i], n + 1)
    BY <2>1, <2>2, <2>3 DEF Before
  <2>4. ASSUME NEW i \in 1..n, c < i PROVE Before(log, n + 1, order[i])
    BY <2>1, <2>2, <2>4 DEF Before
  <2>5. \A x, y \in 1..n : x < y => Before(log, order[x], order[y])
    BY DEF Ordered
  <2>6. CASE j <= c
    <3>1. j \in 1..n /\ new[j] = order[j]
      BY <1>7, <2>6
    <3> QED BY <1>7, <1>9, <2>3, <2>5, <2>6, <3>1
  <2>7. CASE j = c + 1
    BY <1>7, <1>9, <2>4, <2>7
  <2>8. CASE c < j - 1
    <3>1. j - 1 \in 1..n /\ new[j] = order[j - 1] /\ k - 1 \in 1..n /\ new[k] = order[k - 1]
      BY <1>7, <1>9, <2>8
    <3>2. j - 1 < k - 1
      BY <1>9
    <3> QED BY <2>5, <3>1, <3>2
  <2> QED BY <2>6, <2>7, <2>8
<1>10. \A k \in 1..(n + 1) : new[k] \in 1..(n + 1)
  <2>1. \A i \in 1..n : order[i] \in 1..n
    BY DEF Ordered
  <2> QED BY <1>7, <2>1
<1>11. Ordered(log, new, n + 1)
  BY <1>6, <1>8, <1>9, <1>10 DEF Ordered
<1> QED BY <1>11 DEF new

-----------------------------------------------------------------------------
(* The whole log. *)

LEMMA FoldOrderIsOrdered ==
    ASSUME NEW log, Stamped(log)
    PROVE  Ordered(log, FoldOrder(log), Len(log))
<1> DEFINE Is(f, m) == f = [n \in 0..m |-> IF n = 0 THEN << >> ELSE Inserted(log, f[n - 1], n)]
<1>1. \A m \in Nat : \E f : Is(f, m)
  <2> DEFINE S == {m \in Nat : \E f : Is(f, m)}
  <2>1. 0 \in S
    <3>1. Is([n \in 0..0 |-> << >>], 0)
      OBVIOUS
    <3> QED BY <3>1
  <2>2. ASSUME NEW m \in S PROVE m + 1 \in S
    <3>1. PICK f : Is(f, m)
      OBVIOUS
    <3> DEFINE g == [n \in 0..(m + 1) |-> IF n = m + 1 THEN Inserted(log, f[m], m + 1) ELSE f[n]]
    <3>2. \A n \in 0..m : g[n] = f[n]
      OBVIOUS
    <3>3. ASSUME NEW n \in 0..(m + 1)
          PROVE  g[n] = IF n = 0 THEN << >> ELSE Inserted(log, g[n - 1], n)
      <4>1. CASE n = 0
        <5>1. f[0] = << >>
          BY <3>1
        <5> QED BY <3>2, <4>1, <5>1
      <4>2. CASE n = m + 1
        <5>1. g[n] = Inserted(log, f[m], m + 1) /\ n - 1 = m /\ g[m] = f[m] /\ n # 0
          BY <3>2, <4>2
        <5> HIDE DEF g
        <5> QED BY <4>2, <5>1
      <4>3. CASE n # 0 /\ n # m + 1
        <5>1. n \in 0..m /\ n - 1 \in 0..m
          BY <4>3
        <5>2. f[n] = Inserted(log, f[n - 1], n)
          BY <3>1, <4>3, <5>1
        <5>3. g[n] = f[n] /\ g[n - 1] = f[n - 1]
          BY <3>2, <5>1
        <5> HIDE DEF g
        <5> QED BY <4>3, <5>2, <5>3
      <4> QED BY <4>1, <4>2, <4>3
    <3>4. g = [n \in 0..(m + 1) |-> g[n]]
      OBVIOUS
    <3>5. Is(g, m + 1)
      <4> HIDE DEF g
      <4> QED BY <3>3, <3>4
    <3>6. m + 1 \in Nat
      OBVIOUS
    <3> HIDE DEF Is, g
    <3> QED BY <3>5, <3>6
  <2> HIDE DEF Is
  <2>3. S \in SUBSET Nat
    OBVIOUS
  <2>4. S = Nat
    <3> HIDE DEF S
    <3> QED BY <2>1, <2>2, <2>3, Induction
  <2> QED BY <2>4
<1> DEFINE order == CHOOSE f : Is(f, Len(log))
<1>2. Is(order, Len(log))
  <2>1. Len(log) \in Nat
    BY DEF Stamped
  <2> HIDE DEF Is
  <2> QED BY <1>1, <2>1
<1>3. FoldOrder(log) = order[Len(log)]
  BY DEF FoldOrder
<1> HIDE DEF order
<1>4. order[0] = << >> /\ \A n \in 1..Len(log) : order[n] = Inserted(log, order[n - 1], n)
  <2>1. Len(log) \in Nat
    BY DEF Stamped
  <2> QED BY <1>2, <2>1
<1> HIDE DEF Is
<1> DEFINE T == {n \in Nat : n <= Len(log) => Ordered(log, order[n], n)}
<1>5. 0 \in T
  <2>1. Ordered(log, << >>, 0)
    BY DEF Ordered
  <2> QED BY <1>4, <2>1
<1>6. ASSUME NEW n \in T PROVE n + 1 \in T
  <2> SUFFICES ASSUME n + 1 <= Len(log) PROVE Ordered(log, order[n + 1], n + 1)
    OBVIOUS
  <2>1. Len(log) \in Nat
    BY DEF Stamped
  <2>2. Ordered(log, order[n], n)
    BY <2>1
  <2>3. n + 1 \in 1..Len(log) /\ (n + 1) - 1 = n
    BY <2>1
  <2>4. order[n + 1] = Inserted(log, order[n], n + 1)
    BY <1>4, <2>3
  <2>5. Ordered(log, Inserted(log, order[n], n + 1), n + 1)
    <3>1. n \in Nat
      OBVIOUS
    <3> HIDE DEF T
    <3> QED BY <2>2, <3>1, InsertedIsOrdered
  <2> QED BY <2>4, <2>5
<1>7. T = Nat
  <2>1. T \in SUBSET Nat
    OBVIOUS
  <2> HIDE DEF T
  <2> QED BY <1>5, <1>6, <2>1, Induction
<1>8. Len(log) \in Nat
  BY DEF Stamped
<1> QED BY <1>3, <1>7, <1>8

\* Reading a log in fold order leaves no line out and makes none up.
LEMMA InFoldOrderKeepsLines ==
    ASSUME NEW log, Stamped(log)
    PROVE  /\ DOMAIN InFoldOrder(log) = 1..Len(log) /\ Len(InFoldOrder(log)) = Len(log)
           /\ \A k \in 1..Len(log) : FoldOrder(log)[k] \in 1..Len(log)
           /\ \A k \in 1..Len(log) : InFoldOrder(log)[k] = log[FoldOrder(log)[k]]
           /\ \A i \in 1..Len(log) : \E k \in 1..Len(log) : FoldOrder(log)[k] = i
           /\ \A j, k \in 1..Len(log) :
                 j < k => Before(log, FoldOrder(log)[j], FoldOrder(log)[k])
<1>1. Ordered(log, FoldOrder(log), Len(log)) /\ Len(log) \in Nat
  BY FoldOrderIsOrdered DEF Stamped
<1>2. InFoldOrder(log) = [k \in 1..Len(log) |-> log[FoldOrder(log)[k]]]
  BY DEF InFoldOrder, Arranged
<1>3. DOMAIN InFoldOrder(log) = 1..Len(log) /\ Len(InFoldOrder(log)) = Len(log)
  BY <1>1, <1>2
<1> QED BY <1>1, <1>2, <1>3 DEF Ordered
=============================================================================
