--------------------------- MODULE WriteOpsProofs ---------------------------
(***************************************************************************)
(* What FoldCheck's and WriteOps' runs check on two writers and logs of    *)
(* four lines, for any number of writers, any facts and logs of any        *)
(* length: the fold is an induction over the lines in order, and an order  *)
(* is carried from one log to another by a map between their positions.    *)
(***************************************************************************)
EXTENDS WriteOps, FoldOrderProofs

IsOf(lines, k, id, op) == lines[k].id = id /\ lines[k].op = op

Lawful(lines) ==
    /\ Stamped(lines)
    /\ \A k \in 1..Len(lines) :
          /\ lines[k].id \in Ids /\ lines[k].op \in {"assert", "withdraw", "retire"}
          /\ lines[k].op = "assert" => lines[k].fields \in Fields
          /\ lines[k].op = "retire" => lines[k].into \in MaybeId

-----------------------------------------------------------------------------
(* The fold of lines in order. *)

\* The fold exists and goes line by line.
LEMMA FoldLinesSteps ==
    ASSUME NEW lines, Len(lines) \in Nat
    PROVE  \E doc : /\ doc[0] = NoDoc
                    /\ \A k \in 1..Len(lines) : doc[k] = ApplyLine(doc[k - 1], lines[k])
                    /\ FoldLines(lines) = doc[Len(lines)]
<1> DEFINE Is(f, m) == f = [k \in 0..m |-> IF k = 0 THEN NoDoc ELSE ApplyLine(f[k - 1], lines[k])]
<1>1. \A m \in Nat : \E f : Is(f, m)
  <2> DEFINE S == {m \in Nat : \E f : Is(f, m)}
  <2>1. 0 \in S
    <3>1. Is([k \in 0..0 |-> NoDoc], 0)
      OBVIOUS
    <3> QED BY <3>1
  <2>2. ASSUME NEW m \in S PROVE m + 1 \in S
    <3>1. PICK f : Is(f, m)
      OBVIOUS
    <3> DEFINE g == [k \in 0..(m + 1) |-> IF k = m + 1 THEN ApplyLine(f[m], lines[m + 1]) ELSE f[k]]
    <3>2. \A k \in 0..m : g[k] = f[k]
      OBVIOUS
    <3>3. ASSUME NEW k \in 0..(m + 1)
          PROVE  g[k] = IF k = 0 THEN NoDoc ELSE ApplyLine(g[k - 1], lines[k])
      <4>1. CASE k = 0
        <5>1. f[0] = NoDoc
          BY <3>1
        <5> QED BY <3>2, <4>1, <5>1
      <4>2. CASE k = m + 1
        <5>1. g[k] = ApplyLine(f[m], lines[m + 1]) /\ k - 1 = m /\ g[m] = f[m] /\ k # 0
          BY <3>2, <4>2
        <5> HIDE DEF g
        <5> QED BY <4>2, <5>1
      <4>3. CASE k # 0 /\ k # m + 1
        <5>1. k \in 0..m /\ k - 1 \in 0..m
          BY <4>3
        <5>2. f[k] = ApplyLine(f[k - 1], lines[k])
          BY <3>1, <4>3, <5>1
        <5>3. g[k] = f[k] /\ g[k - 1] = f[k - 1]
          BY <3>2, <5>1
        <5> HIDE DEF g
        <5> QED BY <4>3, <5>2, <5>3
      <4> QED BY <4>1, <4>2, <4>3
    <3>4. g = [k \in 0..(m + 1) |-> g[k]]
      OBVIOUS
    <3>5. Is(g, m + 1)
      <4> HIDE DEF g
      <4> QED BY <3>3, <3>4
    <3>6. m + 1 \in Nat
      OBVIOUS
    <3> HIDE DEF Is, g
    <3> QED BY <3>5, <3>6
  <2> HIDE DEF Is
  <2>3. S \in SUBSET Nat
    OBVIOUS
  <2>4. S = Nat
    <3> HIDE DEF S
    <3> QED BY <2>1, <2>2, <2>3, Induction
  <2> QED BY <2>4
<1> DEFINE doc == CHOOSE f : Is(f, Len(lines))
<1>2. Is(doc, Len(lines))
  <2> HIDE DEF Is
  <2> QED BY <1>1
<1>3. FoldLines(lines) = doc[Len(lines)]
  BY DEF FoldLines
<1> HIDE DEF doc
<1>4. doc[0] = NoDoc /\ \A k \in 1..Len(lines) : doc[k] = ApplyLine(doc[k - 1], lines[k])
  BY <1>2
<1> QED BY <1>3, <1>4

\* Line k is the last of the first n to assert id.
LastAssert(lines, n, id, k) ==
    IsOf(lines, k, id, "assert") /\ \A j \in (k + 1)..n : ~ IsOf(lines, j, id, "assert")

\* The node line k declares, after lines k + 1 to n: withdrawn if one of them
\* withdraws it, folded into the target of the last that retires it.
NodeSince(lines, k, n, id, node) ==
    /\ node.kind = lines[k].fields.kind /\ node.words = lines[k].fields.words
    /\ node.supersedes = lines[k].fields.supersedes /\ node.answers = lines[k].fields.answers
    /\ (\E j \in (k + 1)..n : IsOf(lines, j, id, "withdraw")) => node.status = "withdrawn"
    /\ (\A j \in (k + 1)..n : ~ IsOf(lines, j, id, "withdraw"))
         => node.status = lines[k].fields.status
    /\ (\A j \in (k + 1)..n : ~ IsOf(lines, j, id, "retire"))
         => node.same_as = lines[k].fields.same_as
    /\ \A j \in (k + 1)..n :
         IsOf(lines, j, id, "retire") /\ (\A i \in (j + 1)..n : ~ IsOf(lines, i, id, "retire"))
           => node.same_as = lines[j].into

\* What the first n lines, in order, say of id.
SaidOf(lines, n, id, node) ==
    /\ node \in Fields \cup {Absent}
    /\ node = Absent <=> \A k \in 1..n : ~ IsOf(lines, k, id, "assert")
    /\ \A k \in 1..n : LastAssert(lines, n, id, k) => NodeSince(lines, k, n, id, node)

\* One line more.
LEMMA SaidOfNext ==
    ASSUME NEW lines, Lawful(lines), NEW n \in Nat, n + 1 <= Len(lines), NEW id \in Ids,
           NEW doc \in [Ids -> Fields \cup {Absent}], SaidOf(lines, n, id, doc[id])
    PROVE  SaidOf(lines, n + 1, id, ApplyLine(doc, lines[n + 1])[id])
<1> DEFINE a == lines[n + 1]
           old == doc[id]
           new == ApplyLine(doc, a)[id]
<1>1. /\ a.id \in Ids /\ a.op \in {"assert", "withdraw", "retire"}
      /\ a.op = "assert" => a.fields \in Fields
      /\ a.op = "retire" => a.into \in MaybeId
  BY DEF Lawful, Stamped
<1>2. \A op : IsOf(lines, n + 1, id, op) <=> a.id = id /\ a.op = op
  BY DEF IsOf
<1>3. /\ \A k \in 1..(n + 1) : k \in 1..n \/ k = n + 1
      /\ \A k \in 1..n : k \in 1..(n + 1)
      /\ n + 1 \in 1..(n + 1)
      /\ \A j : j \notin (n + 1 + 1)..(n + 1)
  OBVIOUS
<1>4. ASSUME NEW k \in 1..n
      PROVE  /\ \A j \in (k + 1)..(n + 1) : j \in (k + 1)..n \/ j = n + 1
             /\ \A j \in (k + 1)..n : j \in (k + 1)..(n + 1) /\ j \in 1..n
             /\ n + 1 \in (k + 1)..(n + 1)
  OBVIOUS
<1>5. old \in Fields \cup {Absent}
  OBVIOUS
<1> HIDE DEF a
<1>6. CASE a.id # id
  <2>1. new = old
    BY <1>1, <1>6 DEF ApplyLine
  <2>2. \A op : ~ IsOf(lines, n + 1, id, op)
    BY <1>2, <1>6
  <2> HIDE DEF new, old
  <2>3. ASSUME NEW k \in 1..(n + 1), LastAssert(lines, n + 1, id, k)
        PROVE  NodeSince(lines, k, n + 1, id, old)
    <3>1. k \in 1..n
      BY <1>3, <2>2, <2>3 DEF LastAssert
    <3>2. LastAssert(lines, n, id, k)
      BY <1>4, <2>3, <3>1 DEF LastAssert
    <3>3. NodeSince(lines, k, n, id, old)
      BY <3>1, <3>2 DEF SaidOf, old
    <3> QED BY <1>4, <2>2, <3>1, <3>3 DEF NodeSince
  <2>4. old = Absent <=> \A k \in 1..(n + 1) : ~ IsOf(lines, k, id, "assert")
    BY <1>3, <2>2 DEF SaidOf, old
  <2> QED BY <1>5, <2>1, <2>3, <2>4 DEF SaidOf, new, a
<1>7. CASE a.id = id /\ a.op = "assert"
  <2>1. new = a.fields
    BY <1>1, <1>7 DEF ApplyLine
  <2>2. IsOf(lines, n + 1, id, "assert")
    BY <1>2, <1>7
  <2> HIDE DEF new, old
  <2>3. ASSUME NEW k \in 1..(n + 1), LastAssert(lines, n + 1, id, k)
        PROVE  NodeSince(lines, k, n + 1, id, new)
    <3>1. k = n + 1
      BY <1>3, <1>4, <2>2, <2>3 DEF LastAssert
    <3> QED BY <1>3, <2>1, <3>1 DEF NodeSince, a
  <2>4. new \in Fields /\ new # Absent
    BY <1>1, <1>7, <2>1, AbsentIsNoNode
  <2> QED BY <1>3, <2>2, <2>3, <2>4 DEF SaidOf, new, a
<1>8. CASE a.id = id /\ a.op # "assert" /\ old = Absent
  <2>1. new = old
    BY <1>1, <1>8 DEF ApplyLine
  <2>2. \A k \in 1..(n + 1) : ~ IsOf(lines, k, id, "assert")
    BY <1>2, <1>3, <1>8 DEF SaidOf
  <2> HIDE DEF new, old
  <2> QED BY <1>5, <1>8, <2>1, <2>2 DEF SaidOf, LastAssert, new, a
<1>9. CASE a.id = id /\ a.op # "assert" /\ old # Absent
  <2>1. old \in Fields
    BY <1>5, <1>9
  <2>2. /\ new \in Fields
        /\ new.kind = old.kind /\ new.words = old.words
        /\ new.supersedes = old.supersedes /\ new.answers = old.answers
        /\ new.status = IF a.op = "withdraw" THEN "withdrawn" ELSE old.status
        /\ new.same_as = IF a.op = "retire" THEN a.into ELSE old.same_as
    <3>1. CASE a.op = "withdraw"
      <4>1. new = [old EXCEPT !.status = "withdrawn"]
        BY <1>1, <1>9, <3>1 DEF ApplyLine
      <4> HIDE DEF new, old
      <4> QED BY <2>1, <3>1, <4>1 DEF Fields, Statuses
    <3>2. CASE a.op = "retire"
      <4>1. new = [old EXCEPT !.same_as = a.into]
        BY <1>1, <1>9, <3>2 DEF ApplyLine
      <4> HIDE DEF new, old
      <4> QED BY <1>1, <2>1, <3>2, <4>1 DEF Fields
    <3> QED BY <1>1, <1>9, <3>1, <3>2
  <2>3. ~ IsOf(lines, n + 1, id, "assert")
    BY <1>2, <1>9
  <2> HIDE DEF new
  <2>4. ASSUME NEW k \in 1..(n + 1), LastAssert(lines, n + 1, id, k)
        PROVE  NodeSince(lines, k, n + 1, id, new)
    <3>1. k \in 1..n
      BY <1>3, <2>3, <2>4 DEF LastAssert
    <3>2. LastAssert(lines, n, id, k)
      BY <1>4, <2>4, <3>1 DEF LastAssert
    <3>3. NodeSince(lines, k, n, id, old)
      BY <3>1, <3>2 DEF SaidOf
    <3> HIDE DEF old
    <3>4. CASE a.op = "withdraw"
      <4>1. /\ IsOf(lines, n + 1, id, "withdraw") /\ ~ IsOf(lines, n + 1, id, "retire")
        BY <1>2, <1>9, <3>4
      <4> QED BY <1>4, <2>2, <3>1, <3>3, <3>4, <4>1 DEF NodeSince
    <3>5. CASE a.op = "retire"
      <4>1. /\ IsOf(lines, n + 1, id, "retire") /\ ~ IsOf(lines, n + 1, id, "withdraw")
        BY <1>2, <1>9, <3>5
      <4> QED BY <1>4, <2>2, <3>1, <3>3, <3>5, <4>1 DEF NodeSince, a
    <3> QED BY <1>1, <1>9, <3>4, <3>5
  <2>5. \E k \in 1..(n + 1) : IsOf(lines, k, id, "assert")
    BY <1>3, <1>9 DEF SaidOf
  <2>6. new # Absent
    BY <2>2, AbsentIsNoNode
  <2> HIDE DEF old
  <2> QED BY <2>2, <2>4, <2>5, <2>6 DEF SaidOf, new, a
<1> QED BY <1>6, <1>7, <1>8, <1>9

LEMMA FoldLinesSays ==
    ASSUME NEW lines, Lawful(lines)
    PROVE  /\ FoldLines(lines) \in [Ids -> Fields \cup {Absent}]
           /\ \A id \in Ids : SaidOf(lines, Len(lines), id, FoldLines(lines)[id])
<1>1. Len(lines) \in Nat
  BY DEF Lawful, Stamped
<1>2. PICK doc : /\ doc[0] = NoDoc
                 /\ \A k \in 1..Len(lines) : doc[k] = ApplyLine(doc[k - 1], lines[k])
                 /\ FoldLines(lines) = doc[Len(lines)]
  BY <1>1, FoldLinesSteps
<1> DEFINE Right(n) == /\ doc[n] \in [Ids -> Fields \cup {Absent}]
                       /\ \A id \in Ids : SaidOf(lines, n, id, doc[n][id])
           T == {n \in Nat : n <= Len(lines) => Right(n)}
<1>3. Right(0)
  BY <1>2 DEF NoDoc, SaidOf
<1>4. ASSUME NEW n \in Nat, n + 1 <= Len(lines), Right(n) PROVE Right(n + 1)
  <2>1. n + 1 \in 1..Len(lines) /\ (n + 1) - 1 = n
    BY <1>1, <1>4
  <2>2. doc[n + 1] = ApplyLine(doc[n], lines[n + 1])
    BY <1>2, <2>1
  <2>3. ApplyLine(doc[n], lines[n + 1]) \in [Ids -> Fields \cup {Absent}]
    <3> DEFINE a == lines[n + 1]
    <3>1. /\ a.id \in Ids /\ a.op \in {"assert", "withdraw", "retire"}
          /\ a.op = "assert" => a.fields \in Fields
          /\ a.op = "retire" => a.into \in MaybeId
      BY <2>1 DEF Lawful
    <3> HIDE DEF a
    <3>2. CASE a.op = "assert" \/ doc[n][a.id] = Absent
      BY <1>4, <3>1, <3>2 DEF ApplyLine, a
    <3>3. CASE a.op # "assert" /\ doc[n][a.id] # Absent
      <4>1. /\ [doc[n][a.id] EXCEPT !.status = "withdrawn"] \in Fields
            /\ a.op = "retire" => [doc[n][a.id] EXCEPT !.same_as = a.into] \in Fields
        <5>1. doc[n][a.id] \in Fields
          BY <1>4, <3>1, <3>3
        <5> QED BY <3>1, <5>1 DEF Fields, Statuses
      <4>2. \/ ApplyLine(doc[n], a) = [doc[n] EXCEPT ![a.id] = [doc[n][a.id] EXCEPT !.status = "withdrawn"]]
            \/ /\ a.op = "retire"
               /\ ApplyLine(doc[n], a) = [doc[n] EXCEPT ![a.id] = [doc[n][a.id] EXCEPT !.same_as = a.into]]
        BY <1>4, <3>1, <3>3 DEF ApplyLine
      <4>3. ApplyLine(doc[n], a) \in [Ids -> Fields \cup {Absent}]
        BY <1>4, <3>1, <4>1, <4>2
      <4> QED BY <4>3 DEF a
    <3> QED BY <3>2, <3>3
  <2>4. \A id \in Ids : SaidOf(lines, n + 1, id, ApplyLine(doc[n], lines[n + 1])[id])
    <3> SUFFICES ASSUME NEW id \in Ids
                 PROVE  SaidOf(lines, n + 1, id, ApplyLine(doc[n], lines[n + 1])[id])
      OBVIOUS
    <3> QED BY <1>4, SaidOfNext
  <2> QED BY <2>2, <2>3, <2>4
<1> HIDE DEF Right
<1>5. T = Nat
  <2>1. 0 \in T
    BY <1>3
  <2>2. ASSUME NEW n \in T PROVE n + 1 \in T
    <3>1. n \in Nat /\ n + 1 \in Nat /\ (n + 1 <= Len(lines) => Right(n))
      BY <1>1
    <3> QED BY <1>4, <3>1
  <2>3. T \in SUBSET Nat
    OBVIOUS
  <2> HIDE DEF T
  <2> QED BY <2>1, <2>2, <2>3, Induction
<1>6. Right(Len(lines))
  BY <1>1, <1>5
<1> QED BY <1>2, <1>6 DEF Right

-----------------------------------------------------------------------------
(* The fold of a log in any order. *)

\* The last of the positions T, in fold order.
LastOf(lines, T, j) == j \in T /\ \A i \in T : ~ Before(lines, j, i)

Since(lines, k, id, op) == {j \in 1..Len(lines) : IsOf(lines, j, id, op) /\ Before(lines, k, j)}

NodeOf(lines, k, id, node) ==
    /\ node.kind = lines[k].fields.kind /\ node.words = lines[k].fields.words
    /\ node.supersedes = lines[k].fields.supersedes /\ node.answers = lines[k].fields.answers
    /\ Since(lines, k, id, "withdraw") # {} => node.status = "withdrawn"
    /\ Since(lines, k, id, "withdraw") = {} => node.status = lines[k].fields.status
    /\ Since(lines, k, id, "retire") = {} => node.same_as = lines[k].fields.same_as
    /\ \A j : LastOf(lines, Since(lines, k, id, "retire"), j) => node.same_as = lines[j].into

\* What a log says of id.
Means(lines, id, node) ==
    /\ node \in Fields \cup {Absent}
    /\ node = Absent <=> Asserts(lines, id) = {}
    /\ \A k : LastOf(lines, Asserts(lines, id), k) => NodeOf(lines, k, id, node)

LEMMA BeforeIsStrict ==
    ASSUME NEW lines, Stamped(lines)
    PROVE  /\ \A i, j, k \in 1..Len(lines) :
                 Before(lines, i, j) /\ Before(lines, j, k) => Before(lines, i, k)
           /\ \A i, j \in 1..Len(lines) : ~ (Before(lines, i, j) /\ Before(lines, j, i))
           /\ \A i, j \in 1..Len(lines) : i = j \/ Before(lines, i, j) \/ Before(lines, j, i)
<1>1. \A i \in 1..Len(lines) : lines[i].at \in Nat /\ i \in Nat
  BY DEF Stamped
<1> QED BY <1>1 DEF Before

\* Of any lines one is the last.
LEMMA OneIsLast ==
    ASSUME NEW lines, Stamped(lines), NEW T \in SUBSET (1..Len(lines)), T # {}
    PROVE  \E j : LastOf(lines, T, j)
<1> DEFINE p == FoldOrder(lines)
           n == Len(lines)
           S == {i \in 1..n : p[i] \in T}
<1>1. /\ \A k \in 1..n : p[k] \in 1..n
      /\ \A i \in 1..n : \E k \in 1..n : p[k] = i
      /\ \A j, k \in 1..n : j < k => Before(lines, p[j], p[k])
      /\ n \in Nat
  BY InFoldOrderKeepsLines DEF Stamped
<1> HIDE DEF p, n
<1>2. PICK i \in S : \A k \in S : k <= i
  <2>1. S # {} /\ S \in SUBSET (1..n)
    BY <1>1 DEF n
  <2> HIDE DEF S
  <2> QED BY <1>1, <2>1, Largest
<1>3. ASSUME NEW t \in T PROVE ~ Before(lines, p[i], t)
  <2>1. PICK k \in 1..n : p[k] = t
    BY <1>1 DEF n
  <2>2. k <= i /\ i \in 1..n /\ p[i] \in 1..n /\ t \in 1..n
    BY <1>1, <1>2, <2>1 DEF n
  <2>3. CASE k = i
    BY <2>1, <2>2, <2>3, BeforeIsStrict DEF n
  <2>4. CASE k < i
    <3>1. Before(lines, t, p[i])
      BY <1>1, <2>1, <2>2, <2>4
    <3> QED BY <2>2, <3>1, BeforeIsStrict DEF n
  <2> QED BY <1>1, <2>2, <2>3, <2>4
<1>4. p[i] \in T
  BY <1>2
<1> QED BY <1>3, <1>4 DEF LastOf

LEMMA SinceArePositions ==
    ASSUME NEW lines, NEW id
    PROVE  /\ Asserts(lines, id) \in SUBSET (1..Len(lines))
           /\ \A k, op : Since(lines, k, id, op) \in SUBSET (1..Len(lines))
BY DEF Asserts, Since

\* A log says one thing of an id.
LEMMA MeansOneNode ==
    ASSUME NEW lines, Stamped(lines), NEW id, NEW x, NEW y, Means(lines, id, x), Means(lines, id, y)
    PROVE  x = y
<1>1. CASE Asserts(lines, id) = {}
  BY <1>1 DEF Means
<1>2. CASE Asserts(lines, id) # {}
  <2>1. PICK k : LastOf(lines, Asserts(lines, id), k)
    BY <1>2, OneIsLast, SinceArePositions
  <2>2. NodeOf(lines, k, id, x) /\ NodeOf(lines, k, id, y) /\ x \in Fields /\ y \in Fields
    BY <1>2, <2>1 DEF Means
  <2>3. x.kind = y.kind /\ x.words = y.words /\ x.supersedes = y.supersedes /\ x.answers = y.answers
    BY <2>2 DEF NodeOf
  <2>4. x.status = y.status
    BY <2>2 DEF NodeOf
  <2>5. x.same_as = y.same_as
    <3>1. CASE Since(lines, k, id, "retire") = {}
      BY <2>2, <3>1 DEF NodeOf
    <3>2. CASE Since(lines, k, id, "retire") # {}
      <4>1. PICK j : LastOf(lines, Since(lines, k, id, "retire"), j)
        BY <3>2, OneIsLast, SinceArePositions
      <4> QED BY <2>2, <4>1 DEF NodeOf
    <3> QED BY <3>1, <3>2
  <2> QED BY <2>2, <2>3, <2>4, <2>5 DEF Fields
<1> QED BY <1>1, <1>2

Sorted(lines) == \A i, j \in 1..Len(lines) : i < j => lines[i].at <= lines[j].at

\* Of lines in order, what they say line by line is what they say.
LEMMA SortedSays ==
    ASSUME NEW lines, Stamped(lines), Sorted(lines), NEW id, NEW node
    PROVE  SaidOf(lines, Len(lines), id, node) => Means(lines, id, node)
<1> DEFINE n == Len(lines)
<1>1. \A i, j \in 1..n : Before(lines, i, j) <=> i < j
  <2> SUFFICES ASSUME NEW i \in 1..n, NEW j \in 1..n PROVE Before(lines, i, j) <=> i < j
    OBVIOUS
  <2>1. lines[i].at \in Nat /\ lines[j].at \in Nat /\ i \in Nat /\ j \in Nat
    BY DEF Stamped
  <2>2. (i < j => lines[i].at <= lines[j].at) /\ (j < i => lines[j].at <= lines[i].at)
    BY DEF Sorted
  <2> QED BY <2>1, <2>2 DEF Before
<1>2. n \in Nat
  BY DEF Stamped
<1> HIDE DEF n
<1>3. \A k \in 1..n : \A j : j \in (k + 1)..n <=> j \in 1..n /\ k < j
  BY <1>2
<1>4. SUFFICES ASSUME SaidOf(lines, n, id, node) PROVE Means(lines, id, node)
  BY DEF n
<1>5. Asserts(lines, id) = {k \in 1..n : IsOf(lines, k, id, "assert")}
  BY DEF Asserts, IsOf, n
<1>6. \A k \in 1..n : \A op : Since(lines, k, id, op) = {j \in (k + 1)..n : IsOf(lines, j, id, op)}
  BY <1>1, <1>3 DEF Since, n
<1>7. ASSUME NEW k, LastOf(lines, Asserts(lines, id), k) PROVE NodeOf(lines, k, id, node)
  <2>1. k \in 1..n /\ LastAssert(lines, n, id, k)
    BY <1>1, <1>3, <1>5, <1>7 DEF LastOf, LastAssert
  <2>2. NodeSince(lines, k, n, id, node)
    BY <1>4, <2>1 DEF SaidOf
  <2>3. ASSUME NEW j, LastOf(lines, Since(lines, k, id, "retire"), j)
        PROVE  node.same_as = lines[j].into
    <3>1. j \in (k + 1)..n /\ IsOf(lines, j, id, "retire") /\ j \in 1..n
      BY <1>3, <1>6, <2>1, <2>3 DEF LastOf
    <3>2. ASSUME NEW i \in (j + 1)..n PROVE ~ IsOf(lines, i, id, "retire")
      <4>1. i \in 1..n /\ j < i
        BY <1>3, <3>1, <3>2
      <4>2. i \in (k + 1)..n
        BY <1>2, <2>1, <3>1, <4>1
      <4> QED BY <1>1, <1>6, <2>1, <2>3, <3>1, <4>1, <4>2 DEF LastOf
    <3> QED BY <2>2, <3>1, <3>2 DEF NodeSince
  <2> QED BY <1>6, <2>1, <2>2, <2>3 DEF NodeSince, NodeOf
<1> QED BY <1>4, <1>5, <1>7 DEF SaidOf, Means

\* Every line of `whole` is a line of `lines`, at h or before it; h keeps the order.
Covers(lines, whole, h) ==
    /\ \A i \in 1..Len(lines) : h[i] \in 1..Len(whole) /\ whole[h[i]] = lines[i]
    /\ \A i, j \in 1..Len(lines) : Before(lines, i, j) <=> Before(whole, h[i], h[j])
    /\ \A y \in 1..Len(whole) : \E i \in 1..Len(lines) :
          whole[y] = lines[i] /\ (y = h[i] \/ Before(whole, y, h[i]))

\* A line said again in a place before it changes nothing.
LEMMA CoveringMeansTheSame ==
    ASSUME NEW lines, NEW whole, NEW h, Stamped(lines), Stamped(whole), Covers(lines, whole, h),
           NEW id, NEW node
    PROVE  Means(lines, id, node) <=> Means(whole, id, node)
<1> DEFINE n == Len(lines)
           m == Len(whole)
<1>1. /\ \A i \in 1..n : h[i] \in 1..m /\ whole[h[i]] = lines[i]
      /\ \A i, j \in 1..n : Before(lines, i, j) <=> Before(whole, h[i], h[j])
      /\ \A y \in 1..m : \E i \in 1..n : whole[y] = lines[i] /\ (y = h[i] \/ Before(whole, y, h[i]))
  BY DEF Covers
<1>2. /\ \A i, j, k \in 1..m : Before(whole, i, j) /\ Before(whole, j, k) => Before(whole, i, k)
      /\ \A i, j \in 1..m : ~ (Before(whole, i, j) /\ Before(whole, j, i))
  BY BeforeIsStrict
<1>3. /\ Asserts(lines, id) = {i \in 1..n : IsOf(lines, i, id, "assert")}
      /\ Asserts(whole, id) = {i \in 1..m : IsOf(whole, i, id, "assert")}
  BY DEF Asserts, IsOf
<1>4. /\ \A k, op : Since(lines, k, id, op) = {j \in 1..n : IsOf(lines, j, id, op) /\ Before(lines, k, j)}
      /\ \A k, op : Since(whole, k, id, op) = {j \in 1..m : IsOf(whole, j, id, op) /\ Before(whole, k, j)}
  BY DEF Since
<1> HIDE DEF n, m
\* The same is said at h[i] as at i.
<1>5. \A i \in 1..n : \A op : IsOf(lines, i, id, op) <=> IsOf(whole, h[i], id, op)
  BY <1>1 DEF IsOf
<1>6. \A y \in 1..m : \A op : IsOf(whole, y, id, op) =>
        \E i \in 1..n : whole[y] = lines[i] /\ IsOf(lines, i, id, op) /\ (y = h[i] \/ Before(whole, y, h[i]))
  BY <1>1 DEF IsOf
<1>7. Asserts(lines, id) = {} <=> Asserts(whole, id) = {}
  BY <1>1, <1>3, <1>5, <1>6
<1>8. \A i \in 1..n : LastOf(lines, Asserts(lines, id), i) <=> LastOf(whole, Asserts(whole, id), h[i])
  <2> SUFFICES ASSUME NEW i \in 1..n
               PROVE  LastOf(lines, Asserts(lines, id), i) <=> LastOf(whole, Asserts(whole, id), h[i])
    OBVIOUS
  <2>1. ASSUME LastOf(lines, Asserts(lines, id), i), NEW y \in Asserts(whole, id)
        PROVE  ~ Before(whole, h[i], y)
    <3> SUFFICES ASSUME Before(whole, h[i], y) PROVE FALSE
      OBVIOUS
    <3>1. PICK j \in 1..n : IsOf(lines, j, id, "assert") /\ (y = h[j] \/ Before(whole, y, h[j]))
      BY <1>3, <1>6
    <3>2. Before(whole, h[i], h[j])
      BY <1>1, <1>2, <1>3, <3>1
    <3> QED BY <1>1, <1>3, <2>1, <3>1, <3>2 DEF LastOf
  <2>2. ASSUME LastOf(whole, Asserts(whole, id), h[i]), NEW j \in Asserts(lines, id)
        PROVE  ~ Before(lines, i, j)
    BY <1>1, <1>3, <1>5, <2>2 DEF LastOf
  <2>3. i \in Asserts(lines, id) <=> h[i] \in Asserts(whole, id)
    BY <1>1, <1>3, <1>5
  <2> QED BY <2>1, <2>2, <2>3 DEF LastOf
<1>9. ASSUME NEW y, LastOf(whole, Asserts(whole, id), y)
      PROVE  \E i \in 1..n : y = h[i] /\ LastOf(lines, Asserts(lines, id), i)
  <2>1. y \in 1..m /\ IsOf(whole, y, id, "assert")
    BY <1>3, <1>9 DEF LastOf
  <2>2. PICK i \in 1..n : IsOf(lines, i, id, "assert") /\ (y = h[i] \/ Before(whole, y, h[i]))
    BY <1>6, <2>1
  <2>3. h[i] \in Asserts(whole, id)
    BY <1>1, <1>3, <1>5, <2>2
  <2>4. y = h[i]
    BY <1>9, <2>2, <2>3 DEF LastOf
  <2> QED BY <1>8, <1>9, <2>4
<1>10. ASSUME NEW k \in 1..n, NEW op
       PROVE  Since(lines, k, id, op) = {} <=> Since(whole, h[k], id, op) = {}
  <2>1. ASSUME NEW j \in Since(lines, k, id, op) PROVE h[j] \in Since(whole, h[k], id, op)
    BY <1>1, <1>4, <1>5
  <2>2. ASSUME NEW y \in Since(whole, h[k], id, op) PROVE \E j : j \in Since(lines, k, id, op)
    <3>1. PICK j \in 1..n : IsOf(lines, j, id, op) /\ (y = h[j] \/ Before(whole, y, h[j]))
      BY <1>4, <1>6
    <3>2. Before(whole, h[k], h[j])
      BY <1>1, <1>2, <1>4, <3>1
    <3> QED BY <1>1, <1>4, <3>1, <3>2
  <2> QED BY <2>1, <2>2
<1>11. ASSUME NEW k \in 1..n, NEW j, LastOf(lines, Since(lines, k, id, "retire"), j)
       PROVE  j \in 1..n /\ LastOf(whole, Since(whole, h[k], id, "retire"), h[j])
  <2>1. j \in 1..n /\ h[j] \in Since(whole, h[k], id, "retire")
    BY <1>1, <1>4, <1>5, <1>11 DEF LastOf
  <2>2. ASSUME NEW y \in Since(whole, h[k], id, "retire"), Before(whole, h[j], y) PROVE FALSE
    <3>1. y \in 1..m /\ IsOf(whole, y, id, "retire") /\ Before(whole, h[k], y)
      BY <1>4
    <3>2. PICK i \in 1..n : IsOf(lines, i, id, "retire") /\ (y = h[i] \/ Before(whole, y, h[i]))
      BY <1>6, <3>1
    <3>3. h[i] \in 1..m /\ h[j] \in 1..m /\ h[k] \in 1..m
      BY <1>1, <2>1
    <3>4. Before(whole, h[j], h[i]) /\ Before(whole, h[k], h[i])
      BY <1>2, <2>2, <3>1, <3>2, <3>3
    <3> QED BY <1>1, <1>4, <1>11, <2>1, <3>2, <3>4 DEF LastOf
  <2> QED BY <2>1, <2>2 DEF LastOf
<1>12. ASSUME NEW k \in 1..n, NEW y, LastOf(whole, Since(whole, h[k], id, "retire"), y)
       PROVE  \E j \in 1..n : y = h[j] /\ LastOf(lines, Since(lines, k, id, "retire"), j)
  <2>1. y \in 1..m /\ IsOf(whole, y, id, "retire") /\ Before(whole, h[k], y)
    BY <1>4, <1>12 DEF LastOf
  <2>2. PICK j \in 1..n : IsOf(lines, j, id, "retire") /\ (y = h[j] \/ Before(whole, y, h[j]))
    BY <1>6, <2>1
  <2>3. h[j] \in 1..m /\ h[k] \in 1..m
    BY <1>1
  <2>4. Before(whole, h[k], h[j])
    BY <1>2, <2>1, <2>2, <2>3
  <2>5. h[j] \in Since(whole, h[k], id, "retire") /\ j \in Since(lines, k, id, "retire")
    BY <1>1, <1>4, <1>5, <2>2, <2>3, <2>4
  <2>6. y = h[j]
    BY <1>12, <2>2, <2>5 DEF LastOf
  <2>7. ASSUME NEW i \in Since(lines, k, id, "retire") PROVE ~ Before(lines, j, i)
    <3>1. i \in 1..n /\ h[i] \in Since(whole, h[k], id, "retire")
      BY <1>1, <1>4, <1>5
    <3> QED BY <1>1, <1>12, <2>6, <3>1 DEF LastOf
  <2> QED BY <2>5, <2>6, <2>7 DEF LastOf
<1>13. ASSUME NEW k \in 1..n PROVE NodeOf(lines, k, id, node) <=> NodeOf(whole, h[k], id, node)
  <2>1. whole[h[k]] = lines[k]
    BY <1>1
  <2>2. (\A j : LastOf(lines, Since(lines, k, id, "retire"), j) => node.same_as = lines[j].into)
        <=> (\A j : LastOf(whole, Since(whole, h[k], id, "retire"), j) => node.same_as = whole[j].into)
    BY <1>1, <1>11, <1>12
  <2> QED BY <1>10, <2>1, <2>2 DEF NodeOf
<1>14. (\A k : LastOf(lines, Asserts(lines, id), k) => NodeOf(lines, k, id, node))
       <=> (\A k : LastOf(whole, Asserts(whole, id), k) => NodeOf(whole, k, id, node))
  <2>1. \A k : LastOf(lines, Asserts(lines, id), k) => k \in 1..n
    BY <1>3 DEF LastOf
  <2> QED BY <1>8, <1>9, <1>13, <2>1
<1> QED BY <1>7, <1>14 DEF Means

LEMMA InFoldOrderIsSorted ==
    ASSUME NEW lines, Lawful(lines)
    PROVE  /\ Lawful(InFoldOrder(lines)) /\ Sorted(InFoldOrder(lines))
           /\ Covers(InFoldOrder(lines), lines, FoldOrder(lines))
<1> DEFINE L == InFoldOrder(lines)
           p == FoldOrder(lines)
           n == Len(lines)
<1>1. /\ Len(L) = n /\ n \in Nat
      /\ \A k \in 1..n : p[k] \in 1..n
      /\ \A k \in 1..n : L[k] = lines[p[k]]
      /\ \A i \in 1..n : \E k \in 1..n : p[k] = i
      /\ \A j, k \in 1..n : j < k => Before(lines, p[j], p[k])
  BY InFoldOrderKeepsLines DEF Lawful, Stamped
<1> HIDE DEF L, p
<1>2. \A i \in 1..n : lines[i].at \in Nat
  BY DEF Lawful, Stamped
<1> HIDE DEF n
<1>3. Lawful(L)
  <2>1. \A i \in 1..n : /\ lines[i].id \in Ids /\ lines[i].op \in {"assert", "withdraw", "retire"}
                        /\ lines[i].op = "assert" => lines[i].fields \in Fields
                        /\ lines[i].op = "retire" => lines[i].into \in MaybeId
    BY DEF Lawful, n
  <2>2. ASSUME NEW k \in 1..Len(L) PROVE L[k] = lines[p[k]] /\ p[k] \in 1..n
    BY <1>1
  <2>3. ASSUME NEW k \in 1..Len(L)
        PROVE  /\ L[k].at \in Nat /\ L[k].id \in Ids /\ L[k].op \in {"assert", "withdraw", "retire"}
               /\ L[k].op = "assert" => L[k].fields \in Fields
               /\ L[k].op = "retire" => L[k].into \in MaybeId
    BY <1>2, <2>1, <2>2
  <2> QED BY <1>1, <2>3 DEF Lawful, Stamped
<1>4. ASSUME NEW i \in 1..n, NEW j \in 1..n, i < j PROVE L[i].at <= L[j].at
  <2>1. Before(lines, p[i], p[j]) /\ L[i] = lines[p[i]] /\ L[j] = lines[p[j]]
        /\ p[i] \in 1..n /\ p[j] \in 1..n
    BY <1>1, <1>4
  <2>2. lines[p[i]].at \in Nat /\ lines[p[j]].at \in Nat
    BY <1>2, <2>1
  <2> QED BY <2>1, <2>2 DEF Before
<1>5. Sorted(L)
  BY <1>1, <1>4 DEF Sorted
<1>6. ASSUME NEW i \in 1..n, NEW j \in 1..n PROVE Before(L, i, j) <=> Before(lines, p[i], p[j])
  <2>1. /\ \A x, y \in 1..n : ~ (Before(lines, x, y) /\ Before(lines, y, x))
        /\ \A x, y \in 1..n : ~ (Before(L, x, y) /\ Before(L, y, x))
    BY <1>1, <1>3, BeforeIsStrict DEF Lawful, n
  <2>2. \A x, y \in 1..n : x < y => Before(L, x, y)
    <3> SUFFICES ASSUME NEW x \in 1..n, NEW y \in 1..n, x < y PROVE Before(L, x, y)
      OBVIOUS
    <3>1. L[x].at <= L[y].at /\ L[x].at \in Nat /\ L[y].at \in Nat
      BY <1>1, <1>3, <1>4 DEF Lawful, Stamped
    <3> QED BY <3>1 DEF Before
  <2>3. i \in Nat /\ j \in Nat /\ p[i] \in 1..n /\ p[j] \in 1..n
    BY <1>1
  <2>4. CASE i < j
    BY <1>1, <2>2, <2>4
  <2>5. CASE j < i
    BY <1>1, <2>1, <2>2, <2>3, <2>5
  <2>6. CASE i = j
    BY <2>1, <2>3, <2>6
  <2> QED BY <2>3, <2>4, <2>5, <2>6
<1>7. Covers(L, lines, p)
  <2>1. ASSUME NEW y \in 1..n PROVE \E i \in 1..n : lines[y] = L[i] /\ y = p[i]
    BY <1>1
  <2> QED BY <1>1, <1>6, <2>1 DEF Covers, n
<1> QED BY <1>3, <1>5, <1>7 DEF L, p

\* FoldAssertions returns what the log says.
LEMMA FoldMeans ==
    ASSUME NEW lines, Lawful(lines)
    PROVE  /\ Fold(lines) \in [Ids -> Fields \cup {Absent}]
           /\ \A id \in Ids : Means(lines, id, Fold(lines)[id])
<1> DEFINE L == InFoldOrder(lines)
<1>1. Lawful(L) /\ Sorted(L) /\ Covers(L, lines, FoldOrder(lines)) /\ Fold(lines) = FoldLines(L)
  BY InFoldOrderIsSorted DEF Fold
<1> HIDE DEF L
<1>2. Stamped(L) /\ Stamped(lines)
  BY <1>1 DEF Lawful
<1>3. ASSUME NEW id \in Ids PROVE Means(lines, id, FoldLines(L)[id])
  <2>1. SaidOf(L, Len(L), id, FoldLines(L)[id])
    BY <1>1, FoldLinesSays
  <2>2. Means(L, id, FoldLines(L)[id])
    BY <1>1, <1>2, <2>1, SortedSays
  <2> QED BY <1>1, <1>2, <2>2, CoveringMeansTheSame
<1> QED BY <1>1, <1>3, FoldLinesSays

-----------------------------------------------------------------------------
(* The specification. *)

LEMMA LinesAreLawful ==
    ASSUME NEW lines \in Seq(Lines)
    PROVE  Lawful(lines)
<1>1. \A k \in 1..Len(lines) : lines[k] \in Lines /\ Len(lines) \in Nat
  BY ElementOfSeq
<1>2. ASSUME NEW a \in Lines
      PROVE  /\ a.id \in Ids /\ a.op \in {"assert", "withdraw", "retire"} /\ a.at \in Nat
             /\ a.op = "assert" => a.fields \in Fields
             /\ a.op = "retire" => a.into \in MaybeId
  BY FoldCheckAssumption DEF Lines, Line, MaybeId
<1> QED BY <1>1, <1>2 DEF Lawful, Stamped

LEMMA LogIsLawful == AnyLog => [](log \in Seq(Lines))
<1>1. NoLines => log \in Seq(Lines)
  <2> HIDE DEF Lines
  <2> QED BY DEF NoLines
<1>2. log \in Seq(Lines) /\ [AnyLine]_log => (log \in Seq(Lines))'
  <2> HIDE DEF Lines
  <2> QED BY DEF AnyLine
<1> QED BY <1>1, <1>2, PTL DEF AnyLog

\* The deciding assert of FoldCheck is the last, and After is what is said since.
LEMMA DecidingIsLast ==
    ASSUME Lawful(log), NEW id \in Ids
    PROVE  /\ \A k : k \in Deciding(id) <=> LastOf(log, Asserts(log, id), k)
           /\ \A j, k \in Deciding(id) : j = k
           /\ \A k \in Deciding(id) : \A op : After(id, op) = Since(log, k, id, op)
           /\ Deciding(id) = {} <=> Asserts(log, id) = {}
<1>1. \A k : k \in Deciding(id) <=> LastOf(log, Asserts(log, id), k)
  BY DEF Deciding, LastOf, Asserts, Positions
<1>2. \A j, k \in Deciding(id) : j = k
  <2>1. \A j, k \in 1..Len(log) : j = k \/ Before(log, j, k) \/ Before(log, k, j)
    BY BeforeIsStrict DEF Lawful
  <2> QED BY <2>1 DEF Deciding, Positions
<1>3. ASSUME NEW k \in Deciding(id), NEW op PROVE After(id, op) = Since(log, k, id, op)
  BY <1>2 DEF After, Since, IsOf, Positions
<1>4. Deciding(id) = {} <=> Asserts(log, id) = {}
  <2>1. Asserts(log, id) # {} => \E k : LastOf(log, Asserts(log, id), k)
    BY OneIsLast, SinceArePositions DEF Lawful
  <2> QED BY <1>1, <2>1 DEF LastOf
<1> QED BY <1>1, <1>2, <1>3, <1>4

\* FoldAssertions' "LAST WRITE PER ID WINS", for a log of any length in any order
\* of timestamps.
THEOREM FoldIsLastWriteWins == AnyLog => []LastWriteWins
<1>1. log \in Seq(Lines) => LastWriteWins
  <2> SUFFICES ASSUME log \in Seq(Lines) PROVE LastWriteWins
    OBVIOUS
  <2>1. Lawful(log)
    BY LinesAreLawful
  <2>2. ASSUME NEW id \in Ids, Deciding(id) = {} PROVE Fold(log)[id] = Absent
    <3>1. Means(log, id, Fold(log)[id])
      BY <2>1, FoldMeans
    <3> QED BY <2>1, <2>2, <3>1, DecidingIsLast DEF Means
  <2>3. ASSUME NEW id \in Ids, NEW k \in Deciding(id)
        PROVE  /\ \A f \in {"kind", "words", "supersedes", "answers"} :
                      Fold(log)[id][f] = log[k].fields[f]
               /\ Fold(log)[id].status =
                      IF After(id, "withdraw") # {} THEN "withdrawn" ELSE log[k].fields.status
               /\ Fold(log)[id].same_as =
                      IF After(id, "retire") = {} THEN log[k].fields.same_as
                      ELSE log[CHOOSE j \in After(id, "retire") :
                                 \A i \in After(id, "retire") : ~ Before(log, j, i)].into
    <3> DEFINE node == Fold(log)[id]
               since == After(id, "retire")
               last == CHOOSE j \in since : \A i \in since : ~ Before(log, j, i)
    <3>1. NodeOf(log, k, id, node)
      BY <2>1, FoldMeans, DecidingIsLast DEF Means
    <3>2. since = Since(log, k, id, "retire") /\ After(id, "withdraw") = Since(log, k, id, "withdraw")
      BY <2>1, DecidingIsLast
    <3>3. since # {} => LastOf(log, since, last)
      <4>1. since \in SUBSET (1..Len(log)) /\ Stamped(log)
        <5> HIDE DEF since
        <5> QED BY <2>1, <3>2, SinceArePositions DEF Lawful
      <4> HIDE DEF since
      <4>2. since # {} => \E j \in since : \A i \in since : ~ Before(log, j, i)
        BY <4>1, OneIsLast DEF LastOf
      <4> QED BY <4>2 DEF LastOf
    <3> HIDE DEF node, since, last
    <3>4. \A f \in {"kind", "words", "supersedes", "answers"} : node[f] = log[k].fields[f]
      BY <3>1 DEF NodeOf
    <3>5. node.same_as = IF since = {} THEN log[k].fields.same_as ELSE log[last].into
      BY <3>1, <3>2, <3>3 DEF NodeOf
    <3>6. node.status = IF After(id, "withdraw") # {} THEN "withdrawn" ELSE log[k].fields.status
      BY <3>1, <3>2 DEF NodeOf
    <3> QED BY <3>4, <3>5, <3>6 DEF node, since, last
  <2> QED BY <2>2, <2>3 DEF LastWriteWins
<1> QED BY <1>1, LogIsLawful, PTL

\* A first part of a log that is in order, and then all of it: every line of the
\* part is said again later.
LEMMA RetryIsCovered ==
    ASSUME NEW lines \in Seq(Lines), Sorted(lines), NEW k \in 0..Len(lines)
    PROVE  LET again == SubSeq(lines, 1, k) \o lines
           IN  /\ again \in Seq(Lines)
               /\ Covers(lines, again, [i \in 1..Len(lines) |-> k + i])
<1> DEFINE n == Len(lines)
           part == SubSeq(lines, 1, k)
           again == part \o lines
           h == [i \in 1..n |-> k + i]
<1>1. n \in Nat /\ k \in 0..n /\ \A i \in 1..n : lines[i] \in Lines
  BY ElementOfSeq
<1>2. \A i \in 1..n : lines[i].at \in Nat
  BY LinesAreLawful DEF Lawful, Stamped
<1> HIDE DEF Lines
<1>3. part \in Seq(Lines) /\ Len(part) = k /\ \A i \in 1..k : part[i] = lines[i]
  BY <1>1, SubSeqProperties
<1>4. /\ again \in Seq(Lines) /\ Len(again) = k + n
      /\ \A y \in 1..(k + n) : again[y] = IF y <= k THEN lines[y] ELSE lines[y - k]
  <2> HIDE DEF part
  <2>1. /\ again \in Seq(Lines) /\ Len(again) = Len(part) + Len(lines)
        /\ \A y \in 1..(Len(part) + Len(lines)) :
              again[y] = IF y <= Len(part) THEN part[y] ELSE lines[y - Len(part)]
    BY <1>3, ConcatProperties
  <2> HIDE DEF again
  <2> QED BY <1>1, <1>3, <2>1
<1> HIDE DEF again, part, n
<1>5. ASSUME NEW i \in 1..n PROVE h[i] = k + i /\ h[i] \in 1..(k + n) /\ again[h[i]] = lines[i]
  <2>1. h[i] = k + i /\ k + i \in 1..(k + n) /\ ~ (k + i <= k) /\ (k + i) - k = i
    BY <1>1
  <2> HIDE DEF h
  <2> QED BY <1>4, <2>1
<1> HIDE DEF h
<1>6. \A i, j \in 1..n : Before(lines, i, j) <=> Before(again, h[i], h[j])
  <2> SUFFICES ASSUME NEW i \in 1..n, NEW j \in 1..n
               PROVE  Before(lines, i, j) <=> Before(again, h[i], h[j])
    OBVIOUS
  <2>1. h[i] < h[j] <=> i < j
    BY <1>1, <1>5
  <2> QED BY <1>5, <2>1 DEF Before
<1>7. ASSUME NEW y \in 1..(k + n)
      PROVE  \E i \in 1..n : again[y] = lines[i] /\ (y = h[i] \/ Before(again, y, h[i]))
  <2>1. CASE y <= k
    <3>1. y \in 1..n /\ again[y] = lines[y] /\ again[h[y]] = lines[y] /\ y < h[y]
      BY <1>1, <1>4, <1>5, <2>1
    <3> QED BY <3>1 DEF Before
  <2>2. CASE ~ (y <= k)
    <3>1. y - k \in 1..n /\ again[y] = lines[y - k] /\ k + (y - k) = y
      BY <1>1, <1>4, <2>2
    <3> QED BY <1>5, <3>1
  <2> QED BY <2>1, <2>2
<1>8. Covers(lines, again, h)
  BY <1>4, <1>5, <1>6, <1>7 DEF Covers, n
<1> QED BY <1>4, <1>8 DEF again, part, h, n

\* cmdImport's "the pair is what makes it safe", for a log of any length: an import
\* broken off anywhere and run again folds to what one whole import folds to.
THEOREM ImportConverges == AnyLog => []ImportRetryConverges
<1>1. log \in Seq(Lines) => ImportRetryConverges
  <2> SUFFICES ASSUME log \in Seq(Lines), NEW k \in 0..Len(log)
               PROVE  Fold(SubSeq(InFoldOrder(log), 1, k) \o InFoldOrder(log)) = Fold(log)
    BY DEF ImportRetryConverges
  <2> DEFINE L == InFoldOrder(log)
             again == SubSeq(L, 1, k) \o L
  <2>1. Lawful(log) /\ Lawful(L) /\ Sorted(L) /\ Covers(L, log, FoldOrder(log))
    BY LinesAreLawful, InFoldOrderIsSorted
  <2>2. L \in Seq(Lines) /\ k \in 0..Len(L)
    <3>1. /\ L = [i \in 1..Len(log) |-> log[FoldOrder(log)[i]]] /\ Len(L) = Len(log)
          /\ \A i \in 1..Len(log) : FoldOrder(log)[i] \in 1..Len(log)
      BY <2>1, InFoldOrderKeepsLines DEF Lawful, InFoldOrder, Arranged
    <3>2. \A i \in 1..Len(log) : log[FoldOrder(log)[i]] \in Lines
      BY <3>1, ElementOfSeq
    <3> HIDE DEF L, Lines
    <3> QED BY <3>1, <3>2
  <2> HIDE DEF L
  <2>3. again \in Seq(Lines) /\ Covers(L, again, [i \in 1..Len(L) |-> k + i])
    BY <2>1, <2>2, RetryIsCovered
  <2> HIDE DEF again
  <2>4. Lawful(again)
    BY <2>3, LinesAreLawful
  <2>5. ASSUME NEW id \in Ids PROVE Fold(again)[id] = Fold(log)[id]
    <3>1. Means(again, id, Fold(again)[id]) /\ Means(log, id, Fold(log)[id])
      BY <2>1, <2>4, FoldMeans
    <3>2. Stamped(L) /\ Stamped(log) /\ Stamped(again)
      BY <2>1, <2>4 DEF Lawful
    <3>3. Means(L, id, Fold(again)[id]) /\ Means(L, id, Fold(log)[id])
      BY <2>1, <2>3, <3>1, <3>2, CoveringMeansTheSame
    <3> QED BY <3>2, <3>3, MeansOneNode
  <2>6. Fold(again) \in [Ids -> Fields \cup {Absent}] /\ Fold(log) \in [Ids -> Fields \cup {Absent}]
    BY <2>1, <2>4, FoldMeans
  <2>7. Fold(again) = Fold(log)
    BY <2>5, <2>6
  <2> QED BY <2>7 DEF again, L
<1> QED BY <1>1, LogIsLawful, PTL

-----------------------------------------------------------------------------
(* The inductive invariant. *)

LineOf == {a \in [op : {"assert", "withdraw", "retire"}, id : Ids, fields : Fields \cup {Absent},
                  into : MaybeId, at : Nat] :
             /\ a.op = "assert" => a.fields \in Fields
             /\ a.op = "retire" => a.into \in Ids}

\* A reference or a closing that no caller wrote.
Replaces(a) ==
    a.op = "assert" /\ a.fields.supersedes \notin {NoId} \cup {f.supersedes : f \in Facts}
Closes(a) ==
    a.op = "assert" /\ a.fields.status = "resolved" /\ \A f \in Facts : f.status # "resolved"

\* After the lines `before`, the line a has before it what must not come after it.
Safe(a, before) ==
    /\ Replaces(a) => \E x \in before : x.op = "withdraw" /\ x.id = a.fields.supersedes
    /\ Closes(a) => \E x \in before : x.op = "assert" /\ x.fields.answers = a.id

FirstOf(lines, n) == {lines[k] : k \in 1..n}

\* The batch can land line by line on a log that has `lines`.
SafeBatch(batch, lines) == \A k \in 1..Len(batch) : Safe(batch[k], lines \cup FirstOf(batch, k - 1))

Act == [pc : {"idle", "stamp", "check", "append"},
        op : {"none", "assert", "withdraw", "retire", "correct", "answer", "amend"},
        batch : Seq(LineOf), landed : Nat, read : Nat]

ActInv(x, lines) ==
    /\ x \in Act
    /\ x.pc # "idle" => /\ x.landed + 1 <= Len(x.batch)
                        /\ SafeBatch(x.batch, lines)
                        /\ FirstOf(x.batch, x.landed) \subseteq lines
    /\ x.pc \in {"stamp", "check"} => x.landed = 0

IInv ==
    /\ log \in Seq(LineOf) /\ clock \in Nat /\ clock # Unstamped
    /\ \A k \in 1..Len(log) : Safe(log[k], FirstOf(log, k - 1))
    /\ act = [w \in Writers |-> act[w]]
    /\ \A w \in Writers : ActInv(act[w], FirstOf(log, Len(log)))

-----------------------------------------------------------------------------
(* Lines. *)

LEMMA MoreIsSafe ==
    ASSUME NEW S, NEW T, S \subseteq T
    PROVE  /\ \A a : Safe(a, S) => Safe(a, T)
           /\ \A batch : SafeBatch(batch, S) => SafeBatch(batch, T)
           /\ \A x : ActInv(x, S) => ActInv(x, T)
<1>1. \A a, U, V : U \subseteq V /\ Safe(a, U) => Safe(a, V)
  BY DEF Safe
<1>2. \A batch : SafeBatch(batch, S) => SafeBatch(batch, T)
  <2> SUFFICES ASSUME NEW batch, SafeBatch(batch, S), NEW k \in 1..Len(batch)
               PROVE  Safe(batch[k], T \cup FirstOf(batch, k - 1))
    BY DEF SafeBatch
  <2>1. Safe(batch[k], S \cup FirstOf(batch, k - 1))
    BY DEF SafeBatch
  <2>2. S \cup FirstOf(batch, k - 1) \subseteq T \cup FirstOf(batch, k - 1)
    OBVIOUS
  <2> QED BY <1>1, <2>1, <2>2
<1>3. \A x : ActInv(x, S) => ActInv(x, T)
  BY <1>2 DEF ActInv
<1> QED BY <1>1, <1>2, <1>3

LEMMA LogIsStamped ==
    ASSUME NEW lines \in Seq(LineOf)
    PROVE  Stamped(lines) /\ \A k \in 1..Len(lines) : lines[k] \in LineOf
<1>1. \A k \in 1..Len(lines) : lines[k] \in LineOf
  BY ElementOfSeq
<1>2. \A a \in LineOf : a.at \in Nat
  BY DEF LineOf
<1> QED BY <1>1, <1>2 DEF Stamped

\* LastFields returns what some line of the log asserts.
LEMMA LastFieldsAreAsserted ==
    ASSUME NEW lines \in Seq(LineOf), NEW id, LastFields(lines, id) # Absent
    PROVE  \E k \in 1..Len(lines) : /\ lines[k].op = "assert" /\ lines[k].id = id
                                    /\ LastFields(lines, id) = lines[k].fields
<1> DEFINE L == InFoldOrder(lines)
           T == Asserts(L, id)
<1>1. /\ Len(L) = Len(lines) /\ Len(lines) \in Nat
      /\ \A k \in 1..Len(lines) : FoldOrder(lines)[k] \in 1..Len(lines) /\ L[k] = lines[FoldOrder(lines)[k]]
  BY LogIsStamped, InFoldOrderKeepsLines DEF Stamped
<1>2. T # {} /\ LastFields(lines, id) = L[Max(T)].fields
  BY DEF LastFields, LastIn
<1>3. T = {k \in 1..Len(L) : L[k].id = id /\ L[k].op = "assert"}
  BY DEF Asserts
<1> HIDE DEF L, T
<1>4. Max(T) \in T
  <2>1. \E x \in T : \A y \in T : y <= x
    BY <1>1, <1>2, <1>3, Largest
  <2>2. \E x \in T : \A y \in T : x >= y
    BY <1>1, <1>3, <2>1
  <2> QED BY <2>2 DEF Max
<1> DEFINE last == Max(T)
<1>5. last \in 1..Len(lines) /\ L[last].id = id /\ L[last].op = "assert"
  BY <1>1, <1>3, <1>4
<1>6. FoldOrder(lines)[last] \in 1..Len(lines) /\ L[last] = lines[FoldOrder(lines)[last]]
  BY <1>1, <1>5
<1>7. LastFields(lines, id) = L[last].fields
  BY <1>2
<1> HIDE DEF last
<1> QED BY <1>5, <1>6, <1>7

LEMMA SmallSequences ==
    /\ \A S : \A a, b \in S : <<a>> \o <<b>> = <<a, b>>
    /\ \A S : \A s \in Seq(S) : \A k \in 1..Len(s) :
          SubSeq(s, k, k - 1) = << >> /\ SubSeq(s, k, k) = <<s[k]>>
<1>1. ASSUME NEW S, NEW a \in S, NEW b \in S PROVE <<a>> \o <<b>> = <<a, b>>
  <2>1. <<a>> \in Seq(S) /\ <<b>> \in Seq(S) /\ Len(<<a>>) = 1 /\ Len(<<b>>) = 1
    OBVIOUS
  <2>2. /\ <<a>> \o <<b>> \in Seq(S) /\ Len(<<a>> \o <<b>>) = 2
        /\ (<<a>> \o <<b>>)[1] = a /\ (<<a>> \o <<b>>)[2] = b
    BY <2>1
  <2>3. <<a, b>> \in Seq(S) /\ Len(<<a, b>>) = 2 /\ <<a, b>>[1] = a /\ <<a, b>>[2] = b
    OBVIOUS
  <2>4. \A k \in 1..2 : k = 1 \/ k = 2
    OBVIOUS
  <2> QED BY <2>2, <2>3, <2>4, SeqEqual
<1>2. ASSUME NEW S, NEW s \in Seq(S), NEW k \in 1..Len(s)
      PROVE  SubSeq(s, k, k - 1) = << >> /\ SubSeq(s, k, k) = <<s[k]>>
  <2>1. s[k] \in S
    BY ElementOfSeq
  <2>2. SubSeq(s, k, k) \in Seq(S) /\ Len(SubSeq(s, k, k)) = 1 /\ SubSeq(s, k, k)[1] = s[k]
    BY <2>1
  <2>3. <<s[k]>> \in Seq(S) /\ Len(<<s[k]>>) = 1 /\ <<s[k]>>[1] = s[k]
    BY <2>1
  <2>4. SubSeq(s, k, k) = <<s[k]>>
    <3> DEFINE t == SubSeq(s, k, k)
               u == <<s[k]>>
    <3>1. \A i \in 1..Len(t) : t[i] = u[i]
      BY <2>2, <2>3
    <3> HIDE DEF t, u
    <3>2. t = u
      BY <2>2, <2>3, <3>1, SeqEqual DEF t, u
    <3> QED BY <3>2 DEF t, u
  <2>5. SubSeq(s, k, k - 1) = << >>
    OBVIOUS
  <2> QED BY <2>4, <2>5
<1> QED BY <1>1, <1>2

LEMMA SeqOfOne ==
    /\ SetToSeq({}) = << >>
    /\ \A x : SetToSeq({x}) = <<x>>
<1>1. Cardinality({}) = 0
  BY FS_EmptySet
<1>2. SetToSeq({}) = << >>
  BY <1>1 DEF SetToSeq, IsInjective
<1>3. ASSUME NEW x PROVE SetToSeq({x}) = <<x>>
  <2>1. Cardinality({x}) = 1
    BY FS_Singleton
  <2>2. \A f \in [1..1 -> {x}] : f = <<x>>
    OBVIOUS
  <2>3. <<x>> \in [1..1 -> {x}] /\ IsInjective(<<x>>)
    BY DEF IsInjective
  <2> QED BY <2>1, <2>2, <2>3 DEF SetToSeq
<1> QED BY <1>2, <1>3

LEMMA BatchOfOne ==
    ASSUME NEW S, NEW a \in LineOf, Safe(a, S)
    PROVE  <<a>> \in Seq(LineOf) /\ Len(<<a>>) = 1 /\ SafeBatch(<<a>>, S)
<1>1. <<a>> \in Seq(LineOf) /\ Len(<<a>>) = 1 /\ <<a>>[1] = a
  <2> HIDE DEF LineOf
  <2> QED OBVIOUS
<1>2. S \subseteq S \cup FirstOf(<<a>>, 0)
  OBVIOUS
<1>3. Safe(a, S \cup FirstOf(<<a>>, 0))
  BY <1>2, MoreIsSafe
<1>4. \A k \in 1..Len(<<a>>) : k = 1 /\ k - 1 = 0
  BY <1>1
<1> QED BY <1>1, <1>3, <1>4 DEF SafeBatch

LEMMA BatchOfTwo ==
    ASSUME NEW S, NEW a \in LineOf, NEW b \in LineOf, Safe(a, S), Safe(b, S \cup {a})
    PROVE  <<a, b>> \in Seq(LineOf) /\ Len(<<a, b>>) = 2 /\ SafeBatch(<<a, b>>, S)
<1> DEFINE both == <<a, b>>
<1>1. both \in Seq(LineOf) /\ Len(both) = 2 /\ both[1] = a /\ both[2] = b
  <2> HIDE DEF LineOf
  <2> QED OBVIOUS
<1> HIDE DEF both
<1>2. /\ S \subseteq S \cup FirstOf(both, 0)
      /\ S \cup {a} \subseteq S \cup FirstOf(both, 1)
  BY <1>1 DEF FirstOf
<1>3. Safe(a, S \cup FirstOf(both, 0)) /\ Safe(b, S \cup FirstOf(both, 1))
  BY <1>2, MoreIsSafe
<1>4. \A k \in 1..Len(both) : (k = 1 /\ k - 1 = 0) \/ (k = 2 /\ k - 1 = 1)
  BY <1>1
<1>5. SafeBatch(both, S)
  BY <1>1, <1>3, <1>4 DEF SafeBatch
<1> QED BY <1>1, <1>5 DEF both

-----------------------------------------------------------------------------
(* Steps. *)

LEMMA IdleIsRight == \A S : ActInv(Idle, S)
<1>1. Idle \in Act
  <2> HIDE DEF LineOf
  <2>1. << >> \in Seq(LineOf)
    OBVIOUS
  <2> QED BY <2>1 DEF Idle, Act
<1>2. Idle.pc = "idle"
  BY DEF Idle
<1> QED BY <1>1, <1>2 DEF ActInv

\* A step of one writer that leaves the log.
LEMMA WriterStep ==
    ASSUME IInv, UNCHANGED <<log, clock>>, NEW w \in Writers, NEW x,
           ActInv(x, FirstOf(log, Len(log))), act' = [act EXCEPT ![w] = x]
    PROVE  IInv'
<1>1. /\ act' = [v \in Writers |-> act'[v]]
      /\ \A v \in Writers : act'[v] = IF v = w THEN x ELSE act[v]
  BY DEF IInv
<1>2. \A v \in Writers : ActInv(act'[v], FirstOf(log, Len(log)))
  BY <1>1 DEF IInv
<1>3. log' = log /\ clock' = clock
  OBVIOUS
<1> QED BY <1>1, <1>2, <1>3 DEF IInv

\* A line lands.
LEMMA LandingStep ==
    ASSUME IInv, NEW a \in LineOf, Safe(a, FirstOf(log, Len(log))), log' = Append(log, a), clock' = clock,
           NEW w \in Writers, NEW x, ActInv(x, FirstOf(log, Len(log)) \cup {a}),
           act' = [act EXCEPT ![w] = x]
    PROVE  IInv'
<1>1. /\ log' \in Seq(LineOf) /\ Len(log') = Len(log) + 1 /\ Len(log) \in Nat
      /\ \A k \in 1..Len(log) : log'[k] = log[k]
      /\ log'[Len(log) + 1] = a
  BY AppendProperties DEF IInv
<1>2. /\ \A k \in 1..Len(log) : FirstOf(log', k - 1) = FirstOf(log, k - 1)
      /\ FirstOf(log', Len(log)) = FirstOf(log, Len(log))
      /\ FirstOf(log', Len(log')) = FirstOf(log, Len(log)) \cup {a}
  <2>1. \A k \in 1..Len(log) : \A j \in 1..(k - 1) : log'[j] = log[j]
    BY <1>1
  <2>2. \A j \in 1..(Len(log) + 1) : j \in 1..Len(log) \/ j = Len(log) + 1
    BY <1>1
  <2>3. Len(log) + 1 \in 1..(Len(log) + 1) /\ \A j \in 1..Len(log) : j \in 1..(Len(log) + 1)
    BY <1>1
  <2> QED BY <1>1, <2>1, <2>2, <2>3 DEF FirstOf
<1>3. \A k \in 1..Len(log') : Safe(log'[k], FirstOf(log', k - 1))
  <2> SUFFICES ASSUME NEW k \in 1..Len(log') PROVE Safe(log'[k], FirstOf(log', k - 1))
    OBVIOUS
  <2>1. CASE k \in 1..Len(log)
    BY <1>1, <1>2, <2>1 DEF IInv
  <2>2. CASE k = Len(log) + 1
    <3>1. k - 1 = Len(log)
      BY <1>1, <2>2
    <3> QED BY <1>1, <1>2, <2>2, <3>1
  <2> QED BY <1>1, <2>1, <2>2
<1>4. /\ act' = [v \in Writers |-> act'[v]]
      /\ \A v \in Writers : act'[v] = IF v = w THEN x ELSE act[v]
  BY DEF IInv
<1>5. \A v \in Writers : ActInv(act'[v], FirstOf(log', Len(log')))
  <2>1. \A v \in Writers : ActInv(act[v], FirstOf(log, Len(log)) \cup {a})
    BY MoreIsSafe DEF IInv
  <2> QED BY <1>2, <1>4, <2>1
<1> QED BY <1>1, <1>3, <1>4, <1>5 DEF IInv

-----------------------------------------------------------------------------
(* The operations prepare safe batches. *)

LEMMA PreparedStep ==
    ASSUME IInv, NEW w \in Writers, NEW batch \in Seq(LineOf), 1 <= Len(batch),
           NEW op \in {"assert", "withdraw", "retire", "correct", "answer", "amend"},
           SafeBatch(batch, FirstOf(log, Len(log))), Prepare(w, op, batch)
    PROVE  IInv'
<1> DEFINE x == [Idle EXCEPT !.pc = "stamp", !.op = op, !.batch = batch, !.read = Len(log)]
<1>1. act' = [act EXCEPT ![w] = x] /\ UNCHANGED <<log, clock>>
  BY DEF Prepare
<1>2. x \in Act /\ x.pc = "stamp" /\ x.batch = batch /\ x.landed = 0
  <2>1. Idle \in Act /\ Idle.landed = 0
    BY IdleIsRight DEF ActInv, Idle
  <2>2. Len(log) \in Nat
    BY DEF IInv
  <2> HIDE DEF LineOf
  <2> QED BY <2>1, <2>2 DEF Act
<1> HIDE DEF x
<1>3. ActInv(x, FirstOf(log, Len(log)))
  <2>1. FirstOf(batch, 0) = {}
    BY DEF FirstOf
  <2> HIDE DEF LineOf
  <2> QED BY <1>2, <2>1 DEF ActInv
<1> QED BY <1>1, <1>3, WriterStep

LEMMA OneLineStep ==
    ASSUME IInv, NEW w \in Writers, NEW a \in LineOf, Safe(a, FirstOf(log, Len(log))),
           NEW op \in {"assert", "withdraw", "retire", "correct", "answer", "amend"},
           Prepare(w, op, <<a>>)
    PROVE  IInv'
<1>1. <<a>> \in Seq(LineOf) /\ 1 <= Len(<<a>>) /\ SafeBatch(<<a>>, FirstOf(log, Len(log)))
  BY BatchOfOne
<1> QED BY <1>1, PreparedStep

\* What a caller authors is no reference and no closing of an operation's.
LEMMA AuthoredLines ==
    ASSUME NEW f \in Facts, NEW id \in Ids, NEW at \in Nat
    PROVE  /\ f \in Fields /\ AssertLine(id, f, at) \in LineOf
           /\ \A S : Safe(AssertLine(id, f, at), S)
<1>1. f \in Fields
  BY FoldCheckAssumption
<1>2. /\ AssertLine(id, f, at).op = "assert" /\ AssertLine(id, f, at).fields = f
      /\ AssertLine(id, f, at).id = id
  BY DEF AssertLine, Line
<1>3. AssertLine(id, f, at) \in LineOf
  <2> HIDE DEF Fields
  <2> QED BY <1>1 DEF AssertLine, Line, LineOf, MaybeId
<1>4. ~ Replaces(AssertLine(id, f, at)) /\ ~ Closes(AssertLine(id, f, at))
  BY <1>2 DEF Replaces, Closes
<1> QED BY <1>1, <1>3, <1>4 DEF Safe

LEMMA WithdrawAndRetireLines ==
    ASSUME NEW id \in Ids, NEW into \in Ids, NEW at \in Nat
    PROVE  /\ WithdrawLine(id, at) \in LineOf /\ RetireLine(id, into) \in LineOf
           /\ \A S : Safe(WithdrawLine(id, at), S) /\ Safe(RetireLine(id, into), S)
<1>1. WithdrawLine(id, at) \in LineOf /\ RetireLine(id, into) \in LineOf
  <2> HIDE DEF Fields
  <2> QED BY DEF WithdrawLine, RetireLine, Line, LineOf, MaybeId, Unstamped
<1> QED BY <1>1 DEF Safe, Replaces, Closes, WithdrawLine, RetireLine, Line

\* Fields carried forward from the log had what they need before them there.
LEMMA CarriedFields ==
    ASSUME IInv, NEW id, NEW c, c = LastFields(log, id), c # Absent
    PROVE  /\ c \in Fields
           /\ c.supersedes \notin {NoId} \cup {f.supersedes : f \in Facts}
                => \E x \in FirstOf(log, Len(log)) : x.op = "withdraw" /\ x.id = c.supersedes
           /\ c.status = "resolved" /\ (\A f \in Facts : f.status # "resolved")
                => \E x \in FirstOf(log, Len(log)) : x.op = "assert" /\ x.fields.answers = id
<1>1. log \in Seq(LineOf)
  BY DEF IInv
<1>2. PICK k \in 1..Len(log) : log[k].op = "assert" /\ log[k].id = id /\ c = log[k].fields
  BY <1>1, LastFieldsAreAsserted
<1>3. log[k] \in LineOf
  BY <1>1, ElementOfSeq
<1>4. c \in Fields
  BY <1>2, <1>3 DEF LineOf
<1>5. Safe(log[k], FirstOf(log, Len(log)))
  <2>1. FirstOf(log, k - 1) \subseteq FirstOf(log, Len(log))
    <3>1. \A j \in 1..(k - 1) : j \in 1..Len(log)
      BY <1>1
    <3> QED BY <3>1 DEF FirstOf
  <2>2. Safe(log[k], FirstOf(log, k - 1))
    BY DEF IInv
  <2> QED BY <2>1, <2>2, MoreIsSafe
<1> QED BY <1>2, <1>4, <1>5 DEF Safe, Replaces, Closes

LEMMA CorrectStep ==
    ASSUME IInv, NEW w \in Writers, NEW old \in Ids, NEW new \in Ids, NEW f \in Facts,
           Correct(w, old, new, f)
    PROVE  IInv'
<1> DEFINE a == WithdrawLine(old, clock)
           g == [f EXCEPT !.supersedes = old]
           b == AssertLine(new, g, clock + CorrectionLead)
<1>1. old \in Ids /\ new \in Ids /\ clock \in Nat /\ clock + CorrectionLead \in Nat /\ f \in Fields
  BY FoldCheckAssumption DEF IInv, CorrectionLead
<1>2. g \in Fields /\ g.supersedes = old /\ g.status = f.status
  BY <1>1 DEF Fields, MaybeId
<1> HIDE DEF g
<1>3. b \in LineOf /\ b.op = "assert" /\ b.fields = g
  <2> HIDE DEF Fields
  <2> QED BY <1>1, <1>2 DEF AssertLine, Line, LineOf, MaybeId
<1>4. a \in LineOf /\ Safe(a, FirstOf(log, Len(log))) /\ a.op = "withdraw" /\ a.id = old
  BY <1>1, WithdrawAndRetireLines DEF WithdrawLine, Line
<1> HIDE DEF a, b
<1>5. Safe(b, FirstOf(log, Len(log)) \cup {a})
  BY <1>2, <1>3, <1>4 DEF Safe, Replaces, Closes
<1>6. <<a, b>> \in Seq(LineOf) /\ Len(<<a, b>>) = 2 /\ SafeBatch(<<a, b>>, FirstOf(log, Len(log)))
  BY <1>3, <1>4, <1>5, BatchOfTwo
<1> DEFINE batch == <<a, b>>
<1>7. Prepare(w, "correct", batch)
  BY DEF Correct, a, b, g
<1> HIDE DEF batch, LineOf
<1>8. batch \in Seq(LineOf) /\ 1 <= Len(batch) /\ SafeBatch(batch, FirstOf(log, Len(log)))
  BY <1>6 DEF batch
<1> QED BY <1>7, <1>8, PreparedStep

LEMMA AnswerStep ==
    ASSUME IInv, NEW w \in Writers, NEW q \in Ids, NEW id \in Ids, NEW f \in Facts,
           AnswerQuestion(w, q, id, f)
    PROVE  IInv'
<1> DEFINE S == FirstOf(log, Len(log))
           g == [f EXCEPT !.answers = q]
           a == AssertLine(id, g, Unstamped)
           closing == {AssertLine(q, [c EXCEPT !.status = "resolved"], Unstamped) : c \in Closable(q)}
<1>1. q \in Ids /\ id \in Ids /\ Unstamped \in Nat /\ f \in Fields
  BY FoldCheckAssumption DEF Unstamped
<1>2. g \in Fields /\ g.supersedes = f.supersedes /\ g.status = f.status /\ g.answers = q
  BY <1>1 DEF Fields, MaybeId
<1> HIDE DEF g
<1>3. a \in LineOf /\ a.op = "assert" /\ a.fields = g
  <2> HIDE DEF Fields
  <2> QED BY <1>1, <1>2 DEF AssertLine, Line, LineOf, MaybeId
<1>4. Prepare(w, "answer", <<a>> \o SetToSeq(closing))
  BY DEF AnswerQuestion, a, g
<1> HIDE DEF a
<1>5. Safe(a, S)
  BY <1>2, <1>3 DEF Safe, Replaces, Closes
<1>6. CASE closing = {}
  <2> HIDE DEF closing
  <2>1. <<a>> \o SetToSeq(closing) = <<a>>
    <3>1. SetToSeq(closing) = << >>
      BY <1>6, SeqOfOne
    <3> QED BY <3>1
  <2> QED BY <1>3, <1>4, <1>5, <2>1, OneLineStep
<1>7. CASE closing # {}
  <2> DEFINE c == LastFields(log, q)
             d == [c EXCEPT !.status = "resolved"]
             b == AssertLine(q, d, Unstamped)
  <2>1. c # Absent /\ closing = {b}
    BY <1>7 DEF Closable
  <2> HIDE DEF closing, c
  <2>2. /\ c \in Fields
        /\ c.supersedes \notin {NoId} \cup {h.supersedes : h \in Facts}
             => \E x \in S : x.op = "withdraw" /\ x.id = c.supersedes
    BY <2>1, CarriedFields DEF c
  <2>3. d \in Fields /\ d.supersedes = c.supersedes
    BY <2>2 DEF Fields, Statuses
  <2> HIDE DEF d
  <2>4. b \in LineOf /\ b.op = "assert" /\ b.fields = d /\ b.id = q
    <3> HIDE DEF Fields
    <3> QED BY <1>1, <2>3 DEF AssertLine, Line, LineOf, MaybeId
  <2>5. <<a>> \o SetToSeq(closing) = <<a, b>>
    <3> HIDE DEF b
    <3>1. SetToSeq(closing) = <<b>>
      BY <2>1, SeqOfOne
    <3> QED BY <1>3, <2>4, <3>1, SmallSequences
  <2> HIDE DEF b, S
  <2>6. Safe(b, S \cup {a})
    BY <1>2, <1>3, <2>2, <2>3, <2>4 DEF Safe, Replaces, Closes
  <2>7. <<a, b>> \in Seq(LineOf) /\ Len(<<a, b>>) = 2 /\ SafeBatch(<<a, b>>, S)
    BY <1>3, <1>5, <2>4, <2>6, BatchOfTwo
  <2> DEFINE batch == <<a, b>>
  <2>8. Prepare(w, "answer", batch)
    BY <1>4, <2>5
  <2> HIDE DEF batch, LineOf
  <2>9. batch \in Seq(LineOf) /\ 1 <= Len(batch) /\ SafeBatch(batch, S)
    BY <2>7 DEF batch
  <2> QED BY <2>8, <2>9, PreparedStep DEF S
<1> QED BY <1>6, <1>7

LEMMA AmendStep ==
    ASSUME IInv, NEW w \in Writers, NEW id \in Ids, NEW words \in Words,
           Amend(w, id, words)
    PROVE  IInv'
<1> DEFINE S == FirstOf(log, Len(log))
           c == LastFields(log, id)
           d == [c EXCEPT !.words = words]
           a == AssertLine(id, d, Unstamped)
<1>1. id \in Ids /\ Unstamped \in Nat
  BY FoldCheckAssumption DEF Unstamped
<1>2. c # Absent /\ Prepare(w, "amend", <<a>>)
  BY DEF Amend
<1> HIDE DEF c
<1>3. /\ c \in Fields
      /\ c.supersedes \notin {NoId} \cup {f.supersedes : f \in Facts}
           => \E x \in S : x.op = "withdraw" /\ x.id = c.supersedes
      /\ c.status = "resolved" /\ (\A f \in Facts : f.status # "resolved")
           => \E x \in S : x.op = "assert" /\ x.fields.answers = id
  BY <1>2, CarriedFields DEF c
<1>4. d \in Fields /\ d.supersedes = c.supersedes /\ d.status = c.status
  BY <1>3 DEF Fields
<1> HIDE DEF d
<1>5. a \in LineOf /\ a.op = "assert" /\ a.fields = d /\ a.id = id
  <2> HIDE DEF Fields
  <2> QED BY <1>1, <1>4 DEF AssertLine, Line, LineOf, MaybeId
<1> HIDE DEF a, S
<1>6. Safe(a, S)
  BY <1>3, <1>4, <1>5 DEF Safe, Replaces, Closes
<1> QED BY <1>2, <1>5, <1>6, OneLineStep DEF S

LEMMA OperationStep ==
    ASSUME IInv, NEW w \in Writers, Operation(w)
    PROVE  IInv'
<1> USE FoldCheckAssumption
<1>1. ASSUME NEW id \in Ids, NEW f \in Facts, AssertFact(w, id, f) PROVE IInv'
  <2>1. id \in Ids /\ Unstamped \in Nat
    BY DEF Unstamped
  <2> QED BY <1>1, <2>1, AuthoredLines, OneLineStep DEF AssertFact
<1>2. ASSUME NEW id \in Ids, Withdraw(w, id) PROVE IInv'
  <2>1. id \in Ids /\ Unstamped \in Nat
    BY DEF Unstamped
  <2> QED BY <1>2, <2>1, WithdrawAndRetireLines, OneLineStep DEF Withdraw
<1>3. ASSUME NEW id \in Ids, NEW into \in Ids, Retire(w, id, into) PROVE IInv'
  <2>1. id \in Ids /\ into \in Ids /\ Unstamped \in Nat
    BY DEF Unstamped
  <2> QED BY <1>3, <2>1, WithdrawAndRetireLines, OneLineStep DEF Retire
<1> QED BY <1>1, <1>2, <1>3, CorrectStep, AnswerStep, AmendStep DEF Operation

-----------------------------------------------------------------------------
(* Apply. *)

\* What Stamp makes of a batch: the same lines, but for when.
LEMMA StampedBatch ==
    ASSUME clock \in Nat, NEW b \in Seq(LineOf), NEW S, SafeBatch(b, S)
    PROVE  LET stamped == [k \in 1..Len(b) |-> IF b[k].at = Unstamped THEN [b[k] EXCEPT !.at = clock]
                                               ELSE b[k]]
           IN  stamped \in Seq(LineOf) /\ Len(stamped) = Len(b) /\ SafeBatch(stamped, S)
<1> DEFINE n == Len(b)
           t == [k \in 1..n |-> IF b[k].at = Unstamped THEN [b[k] EXCEPT !.at = clock] ELSE b[k]]
<1>1. n \in Nat /\ \A k \in 1..n : b[k] \in LineOf
  BY ElementOfSeq
<1>2. ASSUME NEW k \in 1..n
      PROVE  /\ t[k] \in LineOf /\ t[k].op = b[k].op /\ t[k].id = b[k].id /\ t[k].fields = b[k].fields
  <2>1. b[k] \in LineOf
    BY <1>1
  <2>2. t[k] = IF b[k].at = Unstamped THEN [b[k] EXCEPT !.at = clock] ELSE b[k]
    OBVIOUS
  <2> HIDE DEF t, Fields
  <2> QED BY <2>1, <2>2 DEF LineOf
<1>3. t \in Seq(LineOf) /\ Len(t) = n
  <2>1. t \in [1..n -> LineOf]
    <3>1. t = [k \in 1..n |-> t[k]]
      OBVIOUS
    <3> HIDE DEF t, LineOf, n
    <3> QED BY <1>2, <3>1
  <2> HIDE DEF t, LineOf, n
  <2> QED BY <1>1, <2>1
<1> HIDE DEF t
<1>4. ASSUME NEW k \in 1..n PROVE Safe(t[k], S \cup FirstOf(t, k - 1))
  <2>1. Safe(b[k], S \cup FirstOf(b, k - 1))
    BY DEF SafeBatch
  <2>2. /\ Replaces(t[k]) <=> Replaces(b[k])
        /\ Closes(t[k]) <=> Closes(b[k])
    BY <1>2 DEF Replaces, Closes
  <2>3. ASSUME NEW x \in S \cup FirstOf(b, k - 1)
        PROVE  \E y \in S \cup FirstOf(t, k - 1) : y.op = x.op /\ y.id = x.id /\ y.fields = x.fields
    <3>1. CASE x \in S
      BY <3>1
    <3>2. CASE x \in FirstOf(b, k - 1)
      <4>1. PICK j \in 1..(k - 1) : x = b[j]
        BY <3>2 DEF FirstOf
      <4>2. j \in 1..n /\ t[j] \in FirstOf(t, k - 1)
        BY <1>1, <4>1 DEF FirstOf
      <4> QED BY <1>2, <4>1, <4>2
    <3> QED BY <3>1, <3>2
  <2>4. Replaces(t[k]) => \E y \in S \cup FirstOf(t, k - 1) : y.op = "withdraw" /\ y.id = t[k].fields.supersedes
    BY <1>2, <2>1, <2>2, <2>3 DEF Safe
  <2>5. Closes(t[k]) => \E y \in S \cup FirstOf(t, k - 1) : y.op = "assert" /\ y.fields.answers = t[k].id
    BY <1>2, <2>1, <2>2, <2>3 DEF Safe
  <2> QED BY <2>4, <2>5 DEF Safe
<1>5. SafeBatch(t, S)
  BY <1>3, <1>4 DEF SafeBatch
<1> QED BY <1>3, <1>5 DEF t, n

\* Apply returns, whether or not it did anything.
LEMMA ReturnStep ==
    ASSUME IInv, NEW w \in Writers, Return(w), UNCHANGED <<log, clock>>
    PROVE  IInv'
BY IdleIsRight, WriterStep DEF Return

LEMMA StampStep ==
    ASSUME IInv, NEW w \in Writers, Stamp(w)
    PROVE  IInv'
<1> DEFINE b == act[w].batch
           t == [k \in 1..Len(b) |-> IF b[k].at = Unstamped THEN [b[k] EXCEPT !.at = clock] ELSE b[k]]
           x == [act[w] EXCEPT !.pc = "check", !.batch = t]
<1>1. UNCHANGED <<log, clock>> /\ act[w].pc = "stamp" /\ ActInv(act[w], FirstOf(log, Len(log)))
  BY DEF Stamp, IInv
<1>2. act[w] \in Act /\ b \in Seq(LineOf) /\ SafeBatch(b, FirstOf(log, Len(log))) /\ clock \in Nat
  BY <1>1 DEF ActInv, Act, IInv
<1>3. t \in Seq(LineOf) /\ Len(t) = Len(b) /\ SafeBatch(t, FirstOf(log, Len(log)))
  <2> HIDE DEF b
  <2> QED BY <1>2, StampedBatch
<1>4. CASE act' = [act EXCEPT ![w] = x]
  <2> HIDE DEF t, LineOf
  <2>1. x \in Act /\ x.pc = "check" /\ x.batch = t /\ x.landed = act[w].landed
    BY <1>2, <1>3 DEF Act
  <2> HIDE DEF x
  <2>2. act[w].landed = 0 /\ FirstOf(t, 0) = {} /\ act[w].landed + 1 <= Len(t)
    BY <1>1, <1>3 DEF ActInv, FirstOf
  <2>3. ActInv(x, FirstOf(log, Len(log)))
    BY <1>3, <2>1, <2>2 DEF ActInv
  <2> QED BY <1>1, <1>4, <2>3, WriterStep
<1>5. CASE Return(w)
  BY <1>1, <1>5, ReturnStep
<1>6. act' = [act EXCEPT ![w] = x] \/ Return(w)
  BY DEF Stamp, IInv
<1> QED BY <1>4, <1>5, <1>6

LEMMA CheckStep ==
    ASSUME IInv, NEW w \in Writers, Check(w)
    PROVE  IInv'
<1> DEFINE x == [act[w] EXCEPT !.pc = "append"]
<1>1. UNCHANGED <<log, clock>> /\ act[w].pc = "check" /\ ActInv(act[w], FirstOf(log, Len(log)))
  BY DEF Check, IInv
<1>2. CASE act' = [act EXCEPT ![w] = x]
  <2>1. x \in Act /\ x.pc = "append" /\ x.batch = act[w].batch /\ x.landed = act[w].landed
    <3> HIDE DEF LineOf
    <3> QED BY <1>1 DEF ActInv, Act
  <2> HIDE DEF x
  <2>2. ActInv(x, FirstOf(log, Len(log)))
    BY <1>1, <2>1 DEF ActInv
  <2> QED BY <1>1, <1>2, <2>2, WriterStep
<1>3. CASE Return(w)
  BY <1>1, <1>3, ReturnStep
<1>4. act' = [act EXCEPT ![w] = x] \/ Return(w)
  BY DEF Check, IInv
<1> QED BY <1>2, <1>3, <1>4

\* The line that is next is safe on the log it lands on.
LEMMA NextLineIsSafe ==
    ASSUME IInv, NEW w \in Writers, act[w].pc = "append"
    PROVE  /\ NextLine(w) \in LineOf /\ Safe(NextLine(w), FirstOf(log, Len(log)))
           /\ act[w].landed \in Nat /\ act[w].landed + 1 \in 1..Len(act[w].batch)
           /\ act[w].batch \in Seq(LineOf)
<1> DEFINE b == act[w].batch
           l == act[w].landed
           S == FirstOf(log, Len(log))
<1>1. ActInv(act[w], S)
  BY DEF IInv
<1>2. b \in Seq(LineOf) /\ l \in Nat /\ l + 1 <= Len(b) /\ SafeBatch(b, S) /\ FirstOf(b, l) \subseteq S
  BY <1>1 DEF ActInv, Act
<1> HIDE DEF b, l, S
<1>3. l + 1 \in 1..Len(b) /\ (l + 1) - 1 = l
  BY <1>2
<1>4. b[l + 1] \in LineOf
  BY <1>2, <1>3, ElementOfSeq
<1>5. Safe(b[l + 1], S \cup FirstOf(b, l))
  BY <1>2, <1>3 DEF SafeBatch
<1>6. S \cup FirstOf(b, l) = S
  BY <1>2
<1> QED BY <1>2, <1>3, <1>4, <1>5, <1>6 DEF b, l, S, NextLine

LEMMA AppendLineStep ==
    ASSUME IInv, NEW w \in Writers, AppendLine(w)
    PROVE  IInv'
<1> DEFINE a == NextLine(w)
           S == FirstOf(log, Len(log))
           x == [act[w] EXCEPT !.landed = act[w].landed + 1]
<1>1. act[w].pc = "append" /\ log' = Append(log, a) /\ clock' = clock
  BY DEF AppendLine
<1>2. /\ a \in LineOf /\ Safe(a, S)
      /\ act[w].landed \in Nat /\ act[w].landed + 1 \in 1..Len(act[w].batch)
      /\ act[w].batch \in Seq(LineOf) /\ a = act[w].batch[act[w].landed + 1]
  BY <1>1, NextLineIsSafe DEF NextLine
<1>3. CASE Return(w)
  BY <1>1, <1>2, <1>3, IdleIsRight, LandingStep DEF Return
<1>4. CASE ~ LastLine(w) /\ act' = [act EXCEPT ![w] = x]
  <2>1. ActInv(act[w], S)
    BY DEF IInv
  <2>2. x \in Act /\ x.pc = "append" /\ x.batch = act[w].batch /\ x.landed = act[w].landed + 1
    <3> HIDE DEF LineOf
    <3> QED BY <1>1, <1>2, <2>1 DEF ActInv, Act
  <2>3. x.landed + 1 <= Len(x.batch)
    BY <1>2, <1>4, <2>2 DEF LastLine
  <2> HIDE DEF x, S, a
  <2>4. FirstOf(x.batch, x.landed) \subseteq S \cup {a}
    <3>1. \A j \in 1..(act[w].landed + 1) : j \in 1..act[w].landed \/ j = act[w].landed + 1
      BY <1>2
    <3>2. FirstOf(act[w].batch, act[w].landed) \subseteq S
      BY <1>1, <2>1 DEF ActInv
    <3> QED BY <1>2, <2>2, <3>1, <3>2 DEF FirstOf
  <2>5. SafeBatch(x.batch, S \cup {a})
    <3>1. SafeBatch(act[w].batch, S)
      BY <1>1, <2>1 DEF ActInv
    <3> QED BY <2>2, <3>1, MoreIsSafe
  <2>6. ActInv(x, S \cup {a})
    BY <2>2, <2>3, <2>4, <2>5 DEF ActInv
  <2> QED BY <1>1, <1>2, <1>4, <2>6, LandingStep DEF S
<1>5. Return(w) \/ (~ LastLine(w) /\ act' = [act EXCEPT ![w] = x])
  BY DEF AppendLine, IInv
<1> QED BY <1>3, <1>4, <1>5

LEMMA AppendFailsStep ==
    ASSUME IInv, NEW w \in Writers, AppendFails(w)
    PROVE  IInv'
<1> DEFINE b == act[w].batch
           l == act[w].landed
           S == FirstOf(log, Len(log))
<1>1. /\ NextLine(w) \in LineOf /\ Safe(NextLine(w), S)
      /\ l \in Nat /\ l + 1 \in 1..Len(b) /\ b \in Seq(LineOf) /\ NextLine(w) = b[l + 1]
  BY NextLineIsSafe DEF AppendFails, NextLine
<1>2. Return(w) /\ clock' = clock /\ \E n \in {0, 1} : log' = log \o SubSeq(b, l + 1, l + n)
  BY DEF AppendFails
<1> HIDE DEF b, l
<1>3. log \in Seq(LineOf)
  BY DEF IInv
<1>4. SubSeq(b, l + 1, l + 0) = << >> /\ SubSeq(b, l + 1, l + 1) = <<b[l + 1]>>
  <2>1. (l + 1) - 1 = l + 0
    BY <1>1
  <2> QED BY <1>1, <2>1, SmallSequences
<1>5. log' = log \/ log' = Append(log, NextLine(w))
  <2> HIDE DEF LineOf
  <2>1. log \o << >> = log
    BY <1>3
  <2>2. log \o <<b[l + 1]>> = Append(log, b[l + 1])
    BY <1>1, <1>3
  <2> QED BY <1>1, <1>2, <1>4, <2>1, <2>2
<1>6. CASE log' = log
  BY <1>2, <1>6, ReturnStep
<1>7. CASE log' = Append(log, NextLine(w))
  BY <1>1, <1>2, <1>7, IdleIsRight, LandingStep DEF Return
<1> QED BY <1>5, <1>6, <1>7

-----------------------------------------------------------------------------
(* The specification. *)

LEMMA InitIInv == Init => IInv
<1> SUFFICES ASSUME Init PROVE IInv
  OBVIOUS
<1>1. log \in Seq(LineOf) /\ Len(log) = 0 /\ clock \in Nat /\ clock # Unstamped
  <2> HIDE DEF LineOf
  <2> QED BY DEF Init, Unstamped
<1>2. \A k \in 1..Len(log) : Safe(log[k], FirstOf(log, k - 1))
  BY <1>1
<1>3. act = [w \in Writers |-> act[w]] /\ \A w \in Writers : ActInv(act[w], FirstOf(log, Len(log)))
  BY IdleIsRight DEF Init
<1> QED BY <1>1, <1>2, <1>3 DEF IInv

LEMMA StepIInv == IInv /\ [Next]_vars => IInv'
<1> SUFFICES ASSUME IInv, [Next]_vars PROVE IInv'
  OBVIOUS
<1>1. CASE UNCHANGED vars
  BY <1>1 DEF vars, IInv
<1>2. CASE Tick
  <2>1. clock' \in Nat /\ clock' # Unstamped /\ log' = log /\ act' = act
    BY <1>2 DEF Tick, IInv, Unstamped
  <2> QED BY <2>1 DEF IInv
<1>3. ASSUME NEW w \in Writers,
             Operation(w) \/ Stamp(w) \/ Check(w) \/ AppendLine(w) \/ AppendFails(w) \/ Crash(w)
      PROVE  IInv'
  <2>1. CASE Crash(w)
    BY <2>1, ReturnStep DEF Crash
  <2> QED BY <1>3, <2>1, OperationStep, StampStep, CheckStep, AppendLineStep, AppendFailsStep
<1> QED BY <1>1, <1>2, <1>3 DEF Next

\* The inductive invariant: every line of the log, and every line a writer still has
\* to append, has before it what must not come after it.
THEOREM Invariance == Spec => []IInv
<1>1. Init => IInv
  BY InitIInv
<1>2. IInv /\ [Next]_vars => IInv'
  BY StepIInv
<1> QED BY <1>1, <1>2, PTL DEF Spec

\* The order Correct and AnswerQuestion put their two lines in, for any number of
\* writers, any facts and any log: whatever fails in between, a replacement is never
\* without its withdrawal nor a closed question without an answer.  (That both lines
\* land is promised too, and not kept: BatchesLandWhole.)
THEOREM HalvesAreInOrder == Spec => []HalvesComeInOrder
<1>1. IInv => HalvesComeInOrder
  <2> SUFFICES ASSUME IInv, NEW k \in 1..Len(log), log[k].op = "assert"
               PROVE  /\ log[k].fields.supersedes \notin {NoId} \cup {f.supersedes : f \in Facts}
                           => Withdrawn(k)
                      /\ log[k].fields.status = "resolved" /\ (\A f \in Facts : f.status # "resolved")
                           => Answered(k)
    BY DEF HalvesComeInOrder
  <2>1. Safe(log[k], FirstOf(log, k - 1))
    BY DEF IInv
  <2> QED BY <2>1 DEF Safe, Replaces, Closes, FirstOf, Withdrawn, Answered
<1> QED BY <1>1, Invariance, PTL
-----------------------------------------------------------------------------
(* What a line more does to the document. *)

LEMMA LinesOfOpsAreLawful ==
    ASSUME NEW lines \in Seq(LineOf)
    PROVE  Lawful(lines) /\ Stamped(lines) /\ Len(lines) \in Nat
<1>1. \A k \in 1..Len(lines) : lines[k] \in LineOf /\ Len(lines) \in Nat
  BY ElementOfSeq
<1>2. ASSUME NEW a \in LineOf
      PROVE  /\ a.id \in Ids /\ a.op \in {"assert", "withdraw", "retire"} /\ a.at \in Nat
             /\ a.op = "assert" => a.fields \in Fields
             /\ a.op = "retire" => a.into \in MaybeId
  <2> HIDE DEF Fields
  <2> QED BY DEF LineOf
<1>3. Len(lines) \in Nat
  OBVIOUS
<1> HIDE DEF LineOf
<1> QED BY <1>1, <1>2, <1>3 DEF Lawful, Stamped

\* The same node, whatever its status.
SameNode(x, y) ==
    /\ x = Absent <=> y = Absent
    /\ x # Absent => /\ x.kind = y.kind /\ x.words = y.words /\ x.supersedes = y.supersedes
                     /\ x.answers = y.answers /\ x.same_as = y.same_as

Docs == [Ids -> Fields \cup {Absent}]

SameDoc(d, e) == d \in Docs /\ e \in Docs /\ \A id \in Ids : SameNode(d[id], e[id])

\* The ends of chains of same_as.
LEMMA ChainsEnd ==
    ASSUME NEW d \in Docs, NEW id \in Ids
    PROVE  \E walk : /\ walk[0] = id /\ ChainEnd(d, id) = walk[Cardinality(Ids)]
                     /\ \A n \in 1..Cardinality(Ids) : walk[n] = Onward(d, walk[n - 1])
<1> DEFINE N == Cardinality(Ids)
           Is(f, m) == f = [n \in 0..m |-> IF n = 0 THEN id ELSE Onward(d, f[n - 1])]
<1>0. N \in Nat
  BY FactLogAssumption, FS_CardinalityType
<1>1. \A m \in Nat : \E f : Is(f, m)
  <2> DEFINE S == {m \in Nat : \E f : Is(f, m)}
  <2>1. 0 \in S
    <3>1. Is([n \in 0..0 |-> id], 0)
      OBVIOUS
    <3> QED BY <3>1
  <2>2. ASSUME NEW m \in S PROVE m + 1 \in S
    <3>1. PICK f : Is(f, m)
      OBVIOUS
    <3> DEFINE g == [k \in 0..(m + 1) |-> IF k = m + 1 THEN Onward(d, f[m]) ELSE f[k]]
    <3>2. \A k \in 0..m : g[k] = f[k]
      OBVIOUS
    <3>3. ASSUME NEW k \in 0..(m + 1)
          PROVE  g[k] = IF k = 0 THEN id ELSE Onward(d, g[k - 1])
      <4>1. CASE k = 0
        <5>1. f[0] = id
          BY <3>1
        <5> QED BY <3>2, <4>1, <5>1
      <4>2. CASE k = m + 1
        <5>1. g[k] = Onward(d, f[m]) /\ k - 1 = m /\ g[m] = f[m] /\ k # 0
          BY <3>2, <4>2
        <5> HIDE DEF g
        <5> QED BY <4>2, <5>1
      <4>3. CASE k # 0 /\ k # m + 1
        <5>1. k \in 0..m /\ k - 1 \in 0..m
          BY <4>3
        <5>2. f[k] = Onward(d, f[k - 1])
          BY <3>1, <4>3, <5>1
        <5>3. g[k] = f[k] /\ g[k - 1] = f[k - 1]
          BY <3>2, <5>1
        <5> HIDE DEF g
        <5> QED BY <4>3, <5>2, <5>3
      <4> QED BY <4>1, <4>2, <4>3
    <3>4. g = [k \in 0..(m + 1) |-> g[k]]
      OBVIOUS
    <3>5. Is(g, m + 1)
      <4> HIDE DEF g
      <4> QED BY <3>3, <3>4
    <3>6. m + 1 \in Nat
      OBVIOUS
    <3> HIDE DEF Is, g
    <3> QED BY <3>5, <3>6
  <2> HIDE DEF Is
  <2>3. S \in SUBSET Nat
    OBVIOUS
  <2>4. S = Nat
    <3> HIDE DEF S
    <3> QED BY <2>1, <2>2, <2>3, Induction
  <2> QED BY <2>4
<1> DEFINE walk == CHOOSE f : Is(f, N)
<1>2. Is(walk, N)
  <2> HIDE DEF Is, N
  <2> QED BY <1>0, <1>1
<1>3. ChainEnd(d, id) = walk[N]
  BY DEF ChainEnd
<1> HIDE DEF walk
<1>4. walk[0] = id /\ \A n \in 1..N : walk[n] = Onward(d, walk[n - 1])
  BY <1>0, <1>2
<1> QED BY <1>3, <1>4

LEMMA SameChains ==
    ASSUME NEW d, NEW e, SameDoc(d, e), NEW id \in Ids
    PROVE  ChainEnd(d, id) = ChainEnd(e, id) /\ ChainEnd(d, id) \in Ids
<1> DEFINE N == Cardinality(Ids)
<1>1. d \in Docs /\ e \in Docs /\ \A x \in Ids : SameNode(d[x], e[x])
  BY DEF SameDoc
<1>2. PICK f : /\ f[0] = id /\ ChainEnd(d, id) = f[N]
               /\ \A n \in 1..N : f[n] = Onward(d, f[n - 1])
  BY <1>1, ChainsEnd
<1>3. PICK g : /\ g[0] = id /\ ChainEnd(e, id) = g[N]
               /\ \A n \in 1..N : g[n] = Onward(e, g[n - 1])
  BY <1>1, ChainsEnd
<1>4. N \in Nat
  BY FactLogAssumption, FS_CardinalityType
<1> HIDE DEF N
<1>5. ASSUME NEW x \in Ids PROVE Onward(d, x) = Onward(e, x) /\ Onward(d, x) \in Ids
  <2>1. d[x] \in Fields \cup {Absent} /\ SameNode(d[x], e[x])
    BY <1>1 DEF Docs
  <2>2. d[x] # Absent => d[x].same_as \in MaybeId /\ e[x].same_as = d[x].same_as
    BY <2>1 DEF Fields, SameNode
  <2> QED BY <2>1, <2>2 DEF Onward, SameNode, MaybeId
<1> DEFINE S == {n \in Nat : n <= N => f[n] = g[n] /\ f[n] \in Ids}
<1>6. 0 \in S
  BY <1>2, <1>3
<1>7. ASSUME NEW n \in S PROVE n + 1 \in S
  <2> SUFFICES ASSUME n + 1 <= N PROVE f[n + 1] = g[n + 1] /\ f[n + 1] \in Ids
    OBVIOUS
  <2>1. n + 1 \in 1..N /\ (n + 1) - 1 = n /\ f[n] = g[n] /\ f[n] \in Ids
    BY <1>4
  <2>2. f[n + 1] = Onward(d, f[n]) /\ g[n + 1] = Onward(e, g[n])
    BY <1>2, <1>3, <2>1
  <2> QED BY <1>5, <2>1, <2>2
<1>8. S = Nat
  <2>1. S \in SUBSET Nat
    OBVIOUS
  <2> HIDE DEF S
  <2> QED BY <1>6, <1>7, <2>1, Induction
<1>9. f[N] = g[N] /\ f[N] \in Ids
  BY <1>4, <1>8
<1> QED BY <1>2, <1>3, <1>9

\* Whether a document loads does not depend on any status.
LEMMA StatusDecidesNothing ==
    ASSUME NEW d, NEW e, SameDoc(d, e), Builds(d)
    PROVE  Builds(e)
<1>1. d \in Docs /\ e \in Docs /\ \A x \in Ids : SameNode(d[x], e[x])
  BY DEF SameDoc
<1>2. Live(d) = Live(e) /\ \A x \in Live(d) : x \in Ids /\ d[x] # Absent
  BY <1>1 DEF Live, SameNode
<1>3. \A x \in Live(d) : /\ d[x].kind = e[x].kind /\ d[x].words = e[x].words
                         /\ d[x].supersedes = e[x].supersedes /\ d[x].answers = e[x].answers
                         /\ d[x].same_as = e[x].same_as
  BY <1>1, <1>2 DEF SameNode
<1>4. Retired(d) = Retired(e) /\ Retired(d) \subseteq Live(d)
  BY <1>2, <1>3 DEF Retired
<1>5. Idiomatic(e)
  BY <1>2, <1>3 DEF Builds, Idiomatic
<1>6. RefsResolve(e)
  BY <1>2, <1>3 DEF Builds, RefsResolve
<1>7. NoDuplicates(e)
  <2>1. \A x, y \in Live(d) \ Retired(d) : d[x].kind = d[y].kind /\ d[x].words = d[y].words => x = y
    BY DEF Builds, NoDuplicates
  <2> QED BY <1>2, <1>3, <1>4, <2>1 DEF NoDuplicates
<1>8. Merges(e)
  <2> SUFFICES ASSUME NEW x \in Retired(e)
               PROVE  /\ e[ChainEnd(e, x)] # Absent /\ e[ChainEnd(e, x)].same_as = NoId
                      /\ e[ChainEnd(e, x)].kind = e[x].kind
    BY DEF Merges
  <2> DEFINE end == ChainEnd(d, x)
  <2>1. x \in Ids /\ x \in Live(d) /\ x \in Retired(d)
    BY <1>2, <1>4
  <2>2. ChainEnd(e, x) = end /\ end \in Ids
    BY <2>1, SameChains
  <2>3. d[end] # Absent /\ d[end].same_as = NoId /\ d[end].kind = d[x].kind
    BY <2>1 DEF Builds, Merges
  <2> HIDE DEF end
  <2>4. SameNode(d[end], e[end])
    BY <1>1, <2>2
  <2> QED BY <1>3, <2>1, <2>2, <2>3, <2>4 DEF SameNode
<1> QED BY <1>5, <1>6, <1>7, <1>8 DEF Builds

\* The order of the lines there are is not disturbed by one more.
LEMMA OneLineMore ==
    ASSUME NEW lines \in Seq(LineOf), NEW a \in LineOf
    PROVE  LET more == Append(lines, a)
               n == Len(lines)
           IN  /\ more \in Seq(LineOf) /\ n \in Nat /\ Len(more) = n + 1 /\ more[n + 1] = a
               /\ \A i \in 1..n : i \in 1..Len(more) /\ more[i] = lines[i]
               /\ \A i \in 1..Len(more) : i \in 1..n \/ i = n + 1
               /\ n + 1 \in 1..Len(more) /\ n + 1 \notin 1..n
               /\ \A i, j \in 1..n : Before(more, i, j) <=> Before(lines, i, j)
<1> DEFINE more == Append(lines, a)
           n == Len(lines)
<1>1. /\ more \in Seq(LineOf) /\ n \in Nat /\ Len(more) = n + 1 /\ more[n + 1] = a
      /\ \A i \in 1..n : more[i] = lines[i]
  <2> HIDE DEF LineOf
  <2> QED BY AppendProperties
<1> HIDE DEF more
<1>2. /\ \A i \in 1..n : i \in 1..Len(more)
      /\ \A i \in 1..Len(more) : i \in 1..n \/ i = n + 1
      /\ n + 1 \in 1..Len(more) /\ n + 1 \notin 1..n
  BY <1>1
<1>3. \A i, j \in 1..n : Before(more, i, j) <=> Before(lines, i, j)
  BY <1>1 DEF Before
<1> QED BY <1>1, <1>2, <1>3 DEF more

\* A line that declares and retires nothing of id leaves all but the status of it.
LEMMA NodeIsKept ==
    ASSUME NEW lines \in Seq(LineOf), NEW a \in LineOf, NEW id, a.id = id => a.op = "withdraw",
           NEW x, NEW y, Means(lines, id, x), Means(Append(lines, a), id, y)
    PROVE  SameNode(x, y)
<1> DEFINE more == Append(lines, a)
           n == Len(lines)
<1>1. /\ more \in Seq(LineOf) /\ n \in Nat /\ Len(more) = n + 1 /\ more[n + 1] = a
      /\ \A i \in 1..n : i \in 1..Len(more) /\ more[i] = lines[i]
      /\ \A i \in 1..Len(more) : i \in 1..n \/ i = n + 1
      /\ \A i, j \in 1..n : Before(more, i, j) <=> Before(lines, i, j)
  BY OneLineMore
<1>2. Stamped(lines)
  BY LinesOfOpsAreLawful
<1> HIDE DEF more
<1>3. Asserts(more, id) = Asserts(lines, id) /\ Asserts(lines, id) \in SUBSET (1..n)
  BY <1>1 DEF Asserts
<1>4. \A k \in 1..n : Since(more, k, id, "retire") = Since(lines, k, id, "retire")
  BY <1>1 DEF Since, IsOf
<1>5. \A T \in SUBSET (1..n) : \A k : LastOf(lines, T, k) <=> LastOf(more, T, k)
  BY <1>1 DEF LastOf
<1>6. x = Absent <=> y = Absent
  BY <1>3 DEF Means, more
<1>7. CASE x # Absent
  <2>1. Asserts(lines, id) # {}
    BY <1>7 DEF Means
  <2>2. PICK k : LastOf(lines, Asserts(lines, id), k)
    BY <1>2, <2>1, OneIsLast, SinceArePositions
  <2>3. k \in 1..n /\ LastOf(more, Asserts(more, id), k)
    BY <1>3, <1>5, <2>2 DEF LastOf
  <2>4. NodeOf(lines, k, id, x) /\ NodeOf(more, k, id, y) /\ more[k] = lines[k]
    BY <1>1, <2>2, <2>3 DEF Means, more
  <2>5. /\ x.kind = y.kind /\ x.words = y.words /\ x.supersedes = y.supersedes
        /\ x.answers = y.answers
    BY <2>4 DEF NodeOf
  <2> DEFINE T == Since(lines, k, id, "retire")
  <2>6. T = Since(more, k, id, "retire") /\ T \in SUBSET (1..n)
    BY <1>4, <2>3 DEF Since
  <2> HIDE DEF T
  <2>7. x.same_as = y.same_as
    <3>1. CASE T = {}
      BY <2>4, <2>6, <3>1 DEF NodeOf, T
    <3>2. CASE T # {}
      <4>1. PICK j : LastOf(lines, T, j)
        BY <1>2, <2>6, <3>2, OneIsLast
      <4>2. LastOf(more, T, j) /\ j \in 1..n
        BY <1>5, <2>6, <4>1 DEF LastOf
      <4> QED BY <1>1, <2>4, <2>6, <4>1, <4>2 DEF NodeOf, T
    <3> QED BY <3>1, <3>2
  <2> QED BY <1>6, <2>5, <2>7 DEF SameNode
<1> QED BY <1>6, <1>7 DEF SameNode

LEMMA WithdrawingKeepsTheRest ==
    ASSUME NEW lines \in Seq(LineOf), NEW a \in LineOf, a.op = "withdraw"
    PROVE  SameDoc(Fold(lines), Fold(Append(lines, a)))
<1>1. Append(lines, a) \in Seq(LineOf)
  BY OneLineMore
<1>2. /\ Fold(lines) \in Docs /\ \A id \in Ids : Means(lines, id, Fold(lines)[id])
      /\ Fold(Append(lines, a)) \in Docs
      /\ \A id \in Ids : Means(Append(lines, a), id, Fold(Append(lines, a))[id])
  BY <1>1, FoldMeans, LinesOfOpsAreLawful DEF Docs
<1>3. \A id \in Ids : SameNode(Fold(lines)[id], Fold(Append(lines, a))[id])
  BY <1>2, NodeIsKept
<1> QED BY <1>2, <1>3 DEF SameDoc

\* A fact asserted again as it was last but for its status: where it was folded into
\* another it may no longer be.
LEMMA ClosingKeepsTheRest ==
    ASSUME NEW lines \in Seq(LineOf), NEW a \in LineOf, a.op = "assert",
           NEW k, LastOf(lines, Asserts(lines, a.id), k),
           a.fields = [lines[k].fields EXCEPT !.status = "resolved"]
    PROVE  LET x == Fold(lines)[a.id]
               y == Fold(Append(lines, a))[a.id]
           IN  /\ \A o \in Ids : o # a.id => SameNode(Fold(lines)[o], Fold(Append(lines, a))[o])
               /\ x # Absent /\ y # Absent
               /\ x.kind = y.kind /\ x.words = y.words /\ x.supersedes = y.supersedes
               /\ x.answers = y.answers
               /\ x.same_as = y.same_as \/ x.same_as # NoId
<1> DEFINE more == Append(lines, a)
           n == Len(lines)
           id == a.id
<1>1. /\ more \in Seq(LineOf) /\ n \in Nat /\ Len(more) = n + 1 /\ more[n + 1] = a
      /\ \A i \in 1..n : i \in 1..Len(more) /\ more[i] = lines[i]
      /\ \A i \in 1..Len(more) : i \in 1..n \/ i = n + 1
      /\ n + 1 \in 1..Len(more)
      /\ \A i, j \in 1..n : Before(more, i, j) <=> Before(lines, i, j)
  BY OneLineMore
<1>2. /\ Fold(lines) \in Docs /\ \A o \in Ids : Means(lines, o, Fold(lines)[o])
      /\ Fold(more) \in Docs /\ \A o \in Ids : Means(more, o, Fold(more)[o])
  <2> HIDE DEF more
  <2> QED BY <1>1, FoldMeans, LinesOfOpsAreLawful DEF Docs
<1>3. \A o \in Ids : o # id => SameNode(Fold(lines)[o], Fold(more)[o])
  BY <1>2, NodeIsKept
<1>4. LET x == Fold(lines)[id]
           y == Fold(more)[id]
       IN  /\ x # Absent /\ y # Absent
           /\ x.kind = y.kind /\ x.words = y.words /\ x.supersedes = y.supersedes
           /\ x.answers = y.answers
           /\ x.same_as = y.same_as \/ x.same_as # NoId
  <2> DEFINE x == Fold(lines)[id]
             y == Fold(more)[id]
  <2>1. Means(lines, id, x) /\ Means(more, id, y)
    <3>1. id \in Ids
      <4> HIDE DEF Fields
      <4> QED BY DEF LineOf
    <3> QED BY <1>2, <3>1
  <2> HIDE DEF x, y
  <2>2. /\ Asserts(lines, id) = {i \in 1..n : IsOf(lines, i, id, "assert")}
        /\ Asserts(more, id) = {i \in 1..Len(more) : IsOf(more, i, id, "assert")}
    BY DEF Asserts, IsOf
  <2>3. k \in 1..n /\ k \in Asserts(lines, id) /\ n + 1 \in Asserts(more, id)
    <3> HIDE DEF more
    <3> QED BY <1>1, <2>2 DEF LastOf, IsOf
  <2>4. x # Absent /\ y # Absent
    <3> HIDE DEF more, id
    <3> QED BY <2>1, <2>3 DEF Means
  <2>5. PICK m : LastOf(more, Asserts(more, id), m)
    <3>1. Stamped(more) /\ Asserts(more, id) \in SUBSET (1..Len(more)) /\ Asserts(more, id) # {}
      <4> HIDE DEF more, id
      <4> QED BY <1>1, <2>3, LinesOfOpsAreLawful, SinceArePositions
    <3> HIDE DEF more, id
    <3> QED BY <3>1, OneIsLast
  <2>6. m = k \/ m = n + 1
    <3> SUFFICES ASSUME m # n + 1 PROVE m = k
      OBVIOUS
    <3> HIDE DEF more, id
    <3>1. m \in 1..n /\ IsOf(more, m, id, "assert")
      BY <1>1, <2>2, <2>5 DEF LastOf
    <3>2. m \in Asserts(lines, id) /\ k \in Asserts(more, id)
      BY <1>1, <2>2, <2>3, <3>1 DEF IsOf
    <3>3. ~ Before(lines, k, m) /\ ~ Before(lines, m, k)
      <4>1. ~ Before(lines, k, m)
        BY <3>2 DEF LastOf, id
      <4>2. ~ Before(more, m, k)
        BY <2>5, <3>2 DEF LastOf
      <4> QED BY <1>1, <2>3, <3>1, <4>1, <4>2
    <3> QED BY <2>3, <3>1, <3>3, BeforeIsStrict, LinesOfOpsAreLawful
  <2>7. lines[k].fields \in Fields /\ more[m].fields.same_as = lines[k].fields.same_as
        /\ more[m].fields.kind = lines[k].fields.kind /\ more[m].fields.words = lines[k].fields.words
        /\ more[m].fields.supersedes = lines[k].fields.supersedes
        /\ more[m].fields.answers = lines[k].fields.answers
    <3>1. lines[k].fields \in Fields
      <4>1. Lawful(lines) /\ lines[k].op = "assert"
        BY <2>2, <2>3, LinesOfOpsAreLawful DEF IsOf
      <4> QED BY <2>3, <4>1 DEF Lawful
    <3>2. more[m].fields = lines[k].fields \/ more[m].fields = [lines[k].fields EXCEPT !.status = "resolved"]
      <4> HIDE DEF more, id
      <4> QED BY <1>1, <2>3, <2>6
    <3> QED BY <3>1, <3>2 DEF Fields
  <2>8. NodeOf(lines, k, id, x) /\ NodeOf(more, m, id, y)
    BY <2>1, <2>5 DEF Means
  <2> DEFINE T == Since(lines, k, id, "retire")
  <2>9. T = {j \in 1..n : IsOf(lines, j, id, "retire") /\ Before(lines, k, j)}
    BY DEF Since
  <2>10. CASE T = {}
    <3>1. ASSUME NEW j \in Since(more, m, id, "retire") PROVE FALSE
      <4> HIDE DEF more, id, T
      <4>1. j \in 1..Len(more) /\ IsOf(more, j, id, "retire") /\ Before(more, m, j)
        BY <3>1 DEF Since
      <4>2. j \in 1..n /\ IsOf(lines, j, id, "retire")
        BY <1>1, <4>1 DEF IsOf
      <4>3. CASE m = k
        BY <1>1, <2>3, <2>9, <2>10, <4>1, <4>2, <4>3
      <4>4. CASE m = n + 1
        <5>1. k \in 1..Len(more) /\ m \in 1..Len(more) /\ k # m /\ ~ Before(more, m, k)
          <6>1. k \in Asserts(more, id) /\ k # n + 1
            BY <1>1, <2>2, <2>3 DEF IsOf
          <6> QED BY <1>1, <2>3, <2>5, <4>4, <6>1 DEF LastOf
        <5>2. Before(more, k, j)
          BY <1>1, <4>1, <5>1, BeforeIsStrict, LinesOfOpsAreLawful
        <5> QED BY <1>1, <2>3, <2>9, <2>10, <4>2, <5>2
      <4> QED BY <2>6, <4>3, <4>4
    <3>2. Since(more, m, id, "retire") = {}
      BY <3>1
    <3>3. Since(lines, k, id, "retire") = {}
      BY <2>10
    <3> HIDE DEF more, id, T
    <3>4. /\ x.kind = y.kind /\ x.words = y.words /\ x.supersedes = y.supersedes
          /\ x.answers = y.answers
      BY <2>7, <2>8 DEF NodeOf
    <3>5. x.same_as = lines[k].fields.same_as /\ y.same_as = more[m].fields.same_as
      BY <2>8, <3>2, <3>3 DEF NodeOf
    <3> QED BY <2>4, <2>7, <3>4, <3>5 DEF x, y
  <2>11. CASE T # {}
    <3>1. PICK j : LastOf(lines, T, j)
      <4>1. Stamped(lines) /\ T \in SUBSET (1..n)
        BY <2>9, LinesOfOpsAreLawful
      <4> HIDE DEF T
      <4> QED BY <2>11, <4>1, OneIsLast
    <3>2. j \in 1..n /\ lines[j].op = "retire"
      <4> HIDE DEF T
      <4> QED BY <2>9, <3>1 DEF LastOf, IsOf
    <3>3. lines[j] \in LineOf
      BY <3>2, ElementOfSeq
    <3>4. lines[j].into # NoId
      <4> HIDE DEF Fields
      <4> QED BY <3>2, <3>3, FactLogAssumption DEF LineOf
    <3>5. x.same_as = lines[j].into
      BY <2>8, <3>1 DEF NodeOf
    <3> HIDE DEF more, id, T
    <3>6. /\ x.kind = y.kind /\ x.words = y.words /\ x.supersedes = y.supersedes
          /\ x.answers = y.answers
      BY <2>7, <2>8 DEF NodeOf
    <3> QED BY <2>4, <3>4, <3>5, <3>6 DEF x, y
  <2> HIDE DEF more, id
  <2> QED BY <2>10, <2>11
<1> HIDE DEF more
<1> QED BY <1>3, <1>4 DEF more

\* What Check folds, the log in its order and the batch, is what the log will fold to.
LEMMA ReadInOrder ==
    ASSUME NEW lines \in Seq(LineOf), NEW batch \in Seq(LineOf)
    PROVE  Fold(InFoldOrder(lines) \o batch) = Fold(lines \o batch)
<1> DEFINE L == InFoldOrder(lines)
           p == FoldOrder(lines)
           n == Len(lines)
           m == Len(batch)
           read == L \o batch
           whole == lines \o batch
           h == [i \in 1..(n + m) |-> IF i <= n THEN p[i] ELSE i]
<1>0. Lawful(lines) /\ Stamped(lines) /\ n \in Nat /\ m \in Nat
  BY LinesOfOpsAreLawful
<1>a. Covers(L, lines, p)
  BY <1>0, InFoldOrderIsSorted
<1>b. L = [k \in 1..n |-> lines[p[k]]]
  BY <1>0, InFoldOrderKeepsLines DEF InFoldOrder, Arranged
<1>1. /\ Len(L) = n /\ n \in Nat /\ m \in Nat
      /\ \A k \in 1..n : p[k] \in 1..n /\ L[k] = lines[p[k]]
      /\ \A i \in 1..n : \E k \in 1..n : p[k] = i
  BY <1>0, InFoldOrderKeepsLines
<1>2. \A k \in 1..n : lines[k] \in LineOf
  BY ElementOfSeq
<1> HIDE DEF LineOf
<1>3. L \in Seq(LineOf)
  <2>1. \A k \in 1..n : lines[p[k]] \in LineOf
    BY <1>1, <1>2
  <2> HIDE DEF L, p, n, LineOf
  <2>2. L \in [1..n -> LineOf]
    BY <1>b, <2>1
  <2> QED BY <1>1, <2>2, SeqDef
<1>4. /\ read \in Seq(LineOf) /\ Len(read) = n + m
      /\ \A i \in 1..(n + m) : read[i] = IF i <= n THEN L[i] ELSE batch[i - n]
  <2> HIDE DEF L, n
  <2>1. /\ read \in Seq(LineOf) /\ Len(read) = Len(L) + Len(batch)
        /\ \A i \in 1..(Len(L) + Len(batch)) : read[i] = IF i <= Len(L) THEN L[i] ELSE batch[i - Len(L)]
    BY <1>3, ConcatProperties
  <2> HIDE DEF read
  <2> QED BY <1>1, <2>1
<1>5. /\ whole \in Seq(LineOf) /\ Len(whole) = n + m
      /\ \A i \in 1..(n + m) : whole[i] = IF i <= n THEN lines[i] ELSE batch[i - n]
  BY ConcatProperties
<1> HIDE DEF L, p, n, m, read, whole
<1>6. ASSUME NEW i \in 1..(n + m)
      PROVE  /\ h[i] \in 1..(n + m) /\ whole[h[i]] = read[i]
             /\ i <= n => i \in 1..n /\ h[i] = p[i] /\ h[i] <= n
             /\ ~ (i <= n) => h[i] = i
  <2>1. h[i] = IF i <= n THEN p[i] ELSE i
    OBVIOUS
  <2> HIDE DEF h
  <2>2. CASE i <= n
    <3>1. i \in 1..n /\ p[i] \in 1..n /\ p[i] \in 1..(n + m) /\ p[i] <= n
      BY <1>1, <2>2
    <3>2. h[i] = p[i]
      BY <2>1, <2>2
    <3>3. read[i] = L[i] /\ whole[p[i]] = lines[p[i]] /\ L[i] = lines[p[i]]
      BY <1>1, <1>4, <1>5, <2>2, <3>1
    <3> QED BY <2>2, <3>1, <3>2, <3>3
  <2>3. CASE ~ (i <= n)
    <3>1. h[i] = i
      BY <2>1, <2>3
    <3>2. read[i] = batch[i - n] /\ whole[i] = batch[i - n]
      BY <1>4, <1>5, <2>3
    <3> QED BY <2>3, <3>1, <3>2
  <2> QED BY <2>2, <2>3
<1>7. \A y \in 1..(n + m) : \E i \in 1..(n + m) : y = h[i]
  <2> SUFFICES ASSUME NEW y \in 1..(n + m) PROVE \E i \in 1..(n + m) : y = h[i]
    OBVIOUS
  <2> HIDE DEF h
  <2>1. CASE y <= n
    <3>1. y \in 1..n
      BY <1>1, <2>1
    <3>2. PICK k \in 1..n : p[k] = y
      BY <1>1, <3>1
    <3>3. k \in 1..(n + m) /\ k <= n
      BY <1>1
    <3> QED BY <1>6, <3>2, <3>3
  <2>2. CASE ~ (y <= n)
    BY <1>6, <2>2
  <2> QED BY <2>1, <2>2
<1> HIDE DEF h
<1>8. ASSUME NEW i \in 1..(n + m), NEW j \in 1..(n + m)
      PROVE  Before(read, i, j) <=> Before(whole, h[i], h[j])
  <2>1. /\ whole[h[i]] = read[i] /\ whole[h[j]] = read[j]
        /\ i \in Nat /\ j \in Nat /\ h[i] \in Nat /\ h[j] \in Nat
    <3>1. h[i] \in 1..(n + m) /\ h[j] \in 1..(n + m) /\ whole[h[i]] = read[i] /\ whole[h[j]] = read[j]
      BY <1>6
    <3> QED BY <1>1, <3>1
  <2>2. CASE i <= n /\ j <= n
    <3>1. /\ i \in 1..n /\ j \in 1..n /\ h[i] = p[i] /\ h[j] = p[j]
          /\ p[i] \in 1..n /\ p[j] \in 1..n
      BY <1>1, <1>6, <2>2
    <3>2. Before(L, i, j) <=> Before(lines, p[i], p[j])
      BY <1>a, <1>1, <3>1 DEF Covers
    <3>3. read[i] = L[i] /\ read[j] = L[j] /\ L[i] = lines[p[i]] /\ L[j] = lines[p[j]]
      BY <1>1, <1>4, <2>2, <3>1
    <3> QED BY <2>1, <3>1, <3>2, <3>3 DEF Before
  <2>3. CASE i <= n /\ ~ (j <= n)
    <3>0. h[i] <= n /\ h[j] = j
      BY <1>6, <2>3
    <3>a. \A x, y, k \in Nat : x <= k /\ ~ (y <= k) => x < y
      OBVIOUS
    <3>1. i < j /\ h[i] < h[j]
      BY <1>0, <2>1, <2>3, <3>0, <3>a
    <3> QED BY <2>1, <3>1 DEF Before
  <2>4. CASE ~ (i <= n) /\ j <= n
    <3>0. h[i] = i /\ h[j] <= n
      BY <1>6, <2>4
    <3>a. \A x, y, k \in Nat : ~ (x <= k) /\ y <= k => ~ (x < y)
      OBVIOUS
    <3>1. ~ (i < j) /\ ~ (h[i] < h[j])
      BY <1>0, <2>1, <2>4, <3>0, <3>a
    <3> QED BY <2>1, <3>1 DEF Before
  <2>5. CASE ~ (i <= n) /\ ~ (j <= n)
    <3>1. h[i] = i /\ h[j] = j
      BY <1>6, <2>5
    <3> QED BY <2>1, <3>1 DEF Before
  <2> QED BY <2>2, <2>3, <2>4, <2>5
<1>9. Covers(read, whole, h)
  <2>1. \A y \in 1..Len(whole) : \E i \in 1..Len(read) : whole[y] = read[i] /\ y = h[i]
    <3> SUFFICES ASSUME NEW y \in 1..(n + m)
                 PROVE  \E i \in 1..(n + m) : whole[y] = read[i] /\ y = h[i]
      BY <1>4, <1>5
    <3>1. PICK i \in 1..(n + m) : y = h[i]
      BY <1>7
    <3>2. whole[h[i]] = read[i]
      BY <1>6
    <3> QED BY <3>1, <3>2
  <2> QED BY <1>4, <1>5, <1>6, <1>8, <2>1 DEF Covers
<1>10. Lawful(read) /\ Stamped(read) /\ Lawful(whole) /\ Stamped(whole)
  BY <1>4, <1>5, LinesOfOpsAreLawful
<1>11. /\ Fold(read) \in [Ids -> Fields \cup {Absent}] /\ Fold(whole) \in [Ids -> Fields \cup {Absent}]
       /\ \A id \in Ids : Means(read, id, Fold(read)[id]) /\ Means(whole, id, Fold(whole)[id])
  BY <1>10, FoldMeans
<1>12. ASSUME NEW id \in Ids PROVE Fold(read)[id] = Fold(whole)[id]
  <2>1. Means(whole, id, Fold(read)[id])
    BY <1>9, <1>10, <1>11, CoveringMeansTheSame
  <2> QED BY <1>10, <1>11, <2>1, MeansOneNode
<1>13. Fold(read) = Fold(whole)
  BY <1>11, <1>12
<1> QED BY <1>13 DEF read, whole, L

\* LastFields returns what the last assert says.
LEMMA LastFieldsAreTheLast ==
    ASSUME NEW lines \in Seq(LineOf), NEW id, LastFields(lines, id) # Absent
    PROVE  \E k : LastOf(lines, Asserts(lines, id), k) /\ LastFields(lines, id) = lines[k].fields
<1> DEFINE L == InFoldOrder(lines)
           p == FoldOrder(lines)
           n == Len(lines)
           T == Asserts(L, id)
<1>1. /\ Len(L) = n /\ n \in Nat
      /\ \A k \in 1..n : p[k] \in 1..n /\ L[k] = lines[p[k]]
      /\ \A i \in 1..n : \E k \in 1..n : p[k] = i
      /\ \A j, k \in 1..n : j < k => Before(lines, p[j], p[k])
  <2>1. Stamped(lines) /\ n \in Nat
    BY LinesOfOpsAreLawful
  <2> QED BY <2>1, InFoldOrderKeepsLines
<1>2. T # {} /\ LastFields(lines, id) = L[Max(T)].fields
  BY DEF LastFields, LastIn
<1>3. T = {k \in 1..n : L[k].id = id /\ L[k].op = "assert"}
  BY <1>1 DEF Asserts
<1>4. Asserts(lines, id) = {k \in 1..n : lines[k].id = id /\ lines[k].op = "assert"}
  BY DEF Asserts
<1> HIDE DEF L, T, p, n
<1>5. Max(T) \in T /\ \A y \in T : y <= Max(T)
  <2>1. \E x \in T : \A y \in T : y <= x
    BY <1>1, <1>2, <1>3, Largest
  <2>2. \E x \in T : \A y \in T : x >= y
    BY <1>1, <1>3, <2>1
  <2>3. Max(T) \in T /\ \A y \in T : Max(T) >= y
    BY <2>2 DEF Max
  <2> QED BY <1>1, <1>3, <2>3
<1> DEFINE last == Max(T)
<1>6. last \in 1..n /\ p[last] \in Asserts(lines, id) /\ L[last] = lines[p[last]]
  BY <1>1, <1>3, <1>4, <1>5
<1>7. \A y \in T : y <= last
  BY <1>5
<1>8. LastFields(lines, id) = L[last].fields
  BY <1>2
<1> HIDE DEF last
<1>9. ASSUME NEW i \in Asserts(lines, id) PROVE ~ Before(lines, p[last], i)
  <2>1. PICK k \in 1..n : p[k] = i
    BY <1>1, <1>4
  <2>2. k \in T /\ k <= last
    BY <1>1, <1>3, <1>4, <1>7, <2>1
  <2>3. \A x, y \in 1..n : ~ (Before(lines, x, y) /\ Before(lines, y, x))
    BY LinesOfOpsAreLawful, BeforeIsStrict DEF n
  <2>4. CASE k = last
    BY <1>1, <1>6, <2>1, <2>3, <2>4
  <2>5. CASE k < last
    BY <1>1, <1>6, <2>1, <2>3, <2>5
  <2> QED BY <1>1, <1>6, <2>1, <2>2, <2>4, <2>5
<1> QED BY <1>6, <1>8, <1>9 DEF LastOf

\* ... of any id that one declares.
LEMMA DeclaredHaveFields ==
    ASSUME NEW lines \in Seq(LineOf), NEW id, Asserts(lines, id) # {}
    PROVE  LastFields(lines, id) # Absent
<1> DEFINE L == InFoldOrder(lines)
           p == FoldOrder(lines)
           n == Len(lines)
           T == Asserts(L, id)
<1>1. /\ Len(L) = n /\ n \in Nat
      /\ \A k \in 1..n : p[k] \in 1..n /\ L[k] = lines[p[k]]
      /\ \A i \in 1..n : \E k \in 1..n : p[k] = i
  <2>1. Stamped(lines) /\ n \in Nat
    BY LinesOfOpsAreLawful
  <2> QED BY <2>1, InFoldOrderKeepsLines
<1>2. T = {k \in 1..n : L[k].id = id /\ L[k].op = "assert"}
  BY <1>1 DEF Asserts
<1>3. PICK i \in 1..n : lines[i].id = id /\ lines[i].op = "assert"
  BY DEF Asserts
<1>4. LastFields(lines, id) = IF T = {} THEN Absent ELSE L[Max(T)].fields
  BY DEF LastFields, LastIn
<1> HIDE DEF L, p, n, T
<1>5. T # {} /\ T \in SUBSET (1..n)
  <2>1. PICK k \in 1..n : p[k] = i
    BY <1>1, <1>3
  <2>2. L[k] = lines[i]
    BY <1>1, <2>1
  <2>3. k \in T
    BY <1>2, <1>3, <2>2 DEF n
  <2> QED BY <1>1, <1>2, <2>3
<1>6. Max(T) \in T
  <2>1. \E x \in T : \A y \in T : y <= x
    BY <1>1, <1>5, Largest
  <2>2. \E x \in T : \A y \in T : x >= y
    BY <1>1, <1>5, <2>1
  <2> QED BY <2>2 DEF Max
<1> DEFINE last == Max(T)
<1>7. last \in 1..n /\ L[last].op = "assert" /\ LastFields(lines, id) = L[last].fields
  BY <1>2, <1>4, <1>5, <1>6
<1> HIDE DEF last
<1>8. p[last] \in 1..n /\ L[last] = lines[p[last]]
  BY <1>1, <1>7
<1>9. lines[p[last]] \in LineOf
  BY <1>8, ElementOfSeq DEF n
<1>10. L[last].fields \in Fields
  <2> HIDE DEF Fields
  <2> QED BY <1>7, <1>8, <1>9 DEF LineOf
<1> QED BY <1>7, <1>10, AbsentIsNoNode

-----------------------------------------------------------------------------
(* A batch that nobody has come between. *)

Corrects(batch) ==
    /\ Len(batch) = 2 /\ batch[1].op = "withdraw" /\ batch[2].op = "assert"
    /\ batch[2].id # batch[1].id /\ batch[2].fields.supersedes = batch[1].id
    /\ batch[1].at # Unstamped /\ batch[2].at = batch[1].at + CorrectionLead

AnswersOn(batch, base) ==
    /\ Len(batch) = 2 /\ batch[1].op = "assert" /\ batch[2].op = "assert"
    /\ LastFields(base, batch[2].id) # Absent /\ LastFields(base, batch[2].id).kind = "question"
    /\ batch[2].fields = [LastFields(base, batch[2].id) EXCEPT !.status = "resolved"]

\* What the operation x made of the log it read, and that the two build together.
On(x, base) ==
    /\ \/ Len(x.batch) = 1 /\ x.op # "correct"
       \/ x.op = "correct" /\ Corrects(x.batch)
       \/ x.op = "answer" /\ AnswersOn(x.batch, base)
    /\ x.pc = "append" => Builds(Fold(base \o x.batch))

\* If the log is as long as x found it and has made it, it is what x has made it.
Alone(x, lines) ==
    x.pc # "idle" =>
        /\ x.read + x.landed <= Len(lines)
        /\ Len(lines) = x.read + x.landed =>
              \/ x.landed = 0 /\ On(x, lines)
              \/ x.landed = 1 /\ \E base \in Seq(LineOf) : lines = Append(base, x.batch[1]) /\ On(x, base)

BatchInv == \A w \in Writers : Alone(act[w], log)

LEMMA IdleIsAlone == \A lines : Alone(Idle, lines)
BY DEF Alone, Idle

\* What a writer's step does to the others.
LEMMA AloneStep ==
    ASSUME IInv, BatchInv, NEW w \in Writers, NEW x, act' = [act EXCEPT ![w] = x],
           log' = log \/ (\E a \in LineOf : log' = Append(log, a)), Alone(x, log')
    PROVE  BatchInv'
<1>1. log \in Seq(LineOf) /\ \A v \in Writers : act'[v] = IF v = w THEN x ELSE act[v]
  BY DEF IInv
<1>2. ASSUME NEW v \in Writers, v # w, NEW a \in LineOf, log' = Append(log, a)
      PROVE  Alone(act[v], log')
  <2>1. Len(log') = Len(log) + 1 /\ Len(log) \in Nat
    BY <1>1, <1>2, OneLineMore
  <2>2. act[v].pc # "idle" => act[v].read + act[v].landed <= Len(log)
    BY DEF BatchInv, Alone
  <2>3. act[v].read \in Nat /\ act[v].landed \in Nat
    BY DEF IInv, ActInv, Act
  <2> QED BY <2>1, <2>2, <2>3 DEF Alone
<1>3. \A v \in Writers : Alone(act'[v], log')
  BY <1>1, <1>2 DEF BatchInv
<1> QED BY <1>3 DEF BatchInv

LEMMA PreparedAlone ==
    ASSUME IInv, BatchInv, NEW w \in Writers, NEW batch, NEW op,
           \/ Len(batch) = 1 /\ op # "correct"
           \/ op = "correct" /\ Corrects(batch)
           \/ op = "answer" /\ AnswersOn(batch, log),
           Prepare(w, op, batch)
    PROVE  BatchInv'
<1> DEFINE x == [Idle EXCEPT !.pc = "stamp", !.op = op, !.batch = batch, !.read = Len(log)]
<1>1. act' = [act EXCEPT ![w] = x] /\ log' = log
  BY DEF Prepare
<1>2. x.pc = "stamp" /\ x.op = op /\ x.batch = batch /\ x.landed = 0 /\ x.read = Len(log)
  BY DEF Idle
<1>3. Len(log) \in Nat
  BY DEF IInv
<1> HIDE DEF x
<1>4. Alone(x, log)
  BY <1>2, <1>3 DEF Alone, On
<1> QED BY <1>1, <1>4, AloneStep

LEMMA CorrectAlone ==
    ASSUME IInv, BatchInv, NEW w \in Writers, NEW old \in Ids, NEW new \in Ids, NEW f \in Facts,
           Correct(w, old, new, f)
    PROVE  BatchInv'
<1> DEFINE a == WithdrawLine(old, clock)
           b == AssertLine(new, [f EXCEPT !.supersedes = old], clock + CorrectionLead)
           batch == <<a, b>>
<1>1. f \in Fields /\ clock # Unstamped /\ old # new
  BY FoldCheckAssumption DEF IInv, Correct
<1>2. /\ a.op = "withdraw" /\ a.id = old /\ a.at = clock
      /\ b.op = "assert" /\ b.id = new /\ b.at = clock + CorrectionLead /\ b.fields.supersedes = old
  BY <1>1 DEF WithdrawLine, AssertLine, Line, Fields
<1>3. Prepare(w, "correct", batch)
  BY DEF Correct
<1> HIDE DEF a, b
<1>4. Len(batch) = 2 /\ batch[1] = a /\ batch[2] = b
  OBVIOUS
<1> HIDE DEF batch
<1>5. Corrects(batch)
  BY <1>1, <1>2, <1>4 DEF Corrects
<1> QED BY <1>3, <1>5, PreparedAlone

LEMMA AnswerAlone ==
    ASSUME IInv, BatchInv, NEW w \in Writers, NEW q \in Ids, NEW id \in Ids, NEW f \in Facts,
           AnswerQuestion(w, q, id, f)
    PROVE  BatchInv'
<1> DEFINE a == AssertLine(id, [f EXCEPT !.answers = q], Unstamped)
           c == LastFields(log, q)
           b == AssertLine(q, [c EXCEPT !.status = "resolved"], Unstamped)
           closing == {AssertLine(q, [d EXCEPT !.status = "resolved"], Unstamped) : d \in Closable(q)}
<1>1. Prepare(w, "answer", <<a>> \o SetToSeq(closing))
  BY DEF AnswerQuestion
<1>2. closing = {} \/ (closing = {b} /\ c # Absent /\ c.kind = "question")
  BY DEF Closable
<1>3. a.op = "assert" /\ a.id = id /\ b.op = "assert" /\ b.id = q
      /\ b.fields = [c EXCEPT !.status = "resolved"]
  BY DEF AssertLine, Line
<1> HIDE DEF a, b, c, closing
<1>4. CASE closing = {}
  <2>1. SetToSeq(closing) = << >>
    BY <1>4, SeqOfOne
  <2>2. <<a>> \o SetToSeq(closing) = <<a>> /\ Len(<<a>>) = 1
    BY <2>1
  <2> QED BY <1>1, <2>2, PreparedAlone
<1>5. CASE closing = {b} /\ c # Absent /\ c.kind = "question"
  <2>1. SetToSeq(closing) = <<b>>
    BY <1>5, SeqOfOne
  <2> DEFINE batch == <<a, b>>
             S == {a, b}
  <2>2. <<a>> \o SetToSeq(closing) = batch
    <3>1. a \in S /\ b \in S
      OBVIOUS
    <3> HIDE DEF S
    <3> QED BY <2>1, <3>1, SmallSequences
  <2>3. Len(batch) = 2 /\ batch[1] = a /\ batch[2] = b
    OBVIOUS
  <2> HIDE DEF batch
  <2>4. AnswersOn(batch, log)
    BY <1>3, <1>5, <2>3 DEF AnswersOn, c
  <2> QED BY <1>1, <2>2, <2>4, PreparedAlone
<1> QED BY <1>2, <1>4, <1>5

LEMMA OperationAlone ==
    ASSUME IInv, BatchInv, NEW w \in Writers, Operation(w)
    PROVE  BatchInv'
<1>1. \A a : Len(<<a>>) = 1
  OBVIOUS
<1>2. ASSUME NEW a, NEW op \in {"assert", "withdraw", "retire", "amend"}, Prepare(w, op, <<a>>)
      PROVE  BatchInv'
  BY <1>1, <1>2, PreparedAlone
<1>3. ASSUME NEW id, NEW f, AssertFact(w, id, f) PROVE BatchInv'
  BY <1>2, <1>3 DEF AssertFact
<1>4. ASSUME NEW id, Withdraw(w, id) PROVE BatchInv'
  BY <1>2, <1>4 DEF Withdraw
<1>5. ASSUME NEW id, NEW into, Retire(w, id, into) PROVE BatchInv'
  BY <1>2, <1>5 DEF Retire
<1>6. ASSUME NEW id, NEW words, Amend(w, id, words) PROVE BatchInv'
  BY <1>2, <1>6 DEF Amend
<1> QED BY <1>3, <1>4, <1>5, <1>6, CorrectAlone, AnswerAlone DEF Operation

LEMMA ReturnAlone ==
    ASSUME IInv, BatchInv, NEW w \in Writers, Return(w),
           log' = log \/ (\E a \in LineOf : log' = Append(log, a))
    PROVE  BatchInv'
BY IdleIsAlone, AloneStep DEF Return

LEMMA StampAlone ==
    ASSUME IInv, BatchInv, NEW w \in Writers, Stamp(w)
    PROVE  BatchInv'
<1> DEFINE b == act[w].batch
           t == [k \in 1..Len(b) |-> IF b[k].at = Unstamped THEN [b[k] EXCEPT !.at = clock] ELSE b[k]]
           x == [act[w] EXCEPT !.pc = "check", !.batch = t]
<1>1. log' = log /\ act[w].pc = "stamp" /\ ActInv(act[w], FirstOf(log, Len(log))) /\ Alone(act[w], log)
  BY DEF Stamp, IInv, BatchInv
<1>2. act[w] \in Act /\ b \in Seq(LineOf) /\ act[w].landed = 0 /\ Len(b) \in Nat
  <2>1. act[w] \in Act /\ act[w].landed = 0
    BY <1>1 DEF ActInv
  <2> HIDE DEF LineOf
  <2> QED BY <2>1 DEF Act
<1>3. \A k \in 1..Len(b) : b[k] \in LineOf
  BY <1>2, ElementOfSeq
<1>4. ASSUME NEW k \in 1..Len(b)
      PROVE  /\ t[k].op = b[k].op /\ t[k].id = b[k].id /\ t[k].fields = b[k].fields
             /\ b[k].at # Unstamped => t[k].at = b[k].at
  <2>1. b[k] \in LineOf /\ t[k] = IF b[k].at = Unstamped THEN [b[k] EXCEPT !.at = clock] ELSE b[k]
    BY <1>3
  <2> HIDE DEF t, b, Fields
  <2> QED BY <2>1 DEF LineOf
<1>5. Len(t) = Len(b)
  BY <1>2
<1>6. CASE act' = [act EXCEPT ![w] = x]
  <2> HIDE DEF t, LineOf
  <2>1. x.pc = "check" /\ x.batch = t /\ x.landed = 0 /\ x.op = act[w].op /\ x.read = act[w].read
    BY <1>2 DEF Act
  <2> HIDE DEF x
  <2>2. Corrects(b) => Corrects(t)
    <3> SUFFICES ASSUME Corrects(b) PROVE Corrects(t)
      OBVIOUS
    <3>1. /\ 1 \in 1..Len(b) /\ 2 \in 1..Len(b)
          /\ b[1].at # Unstamped /\ b[2].at # Unstamped
      <4>1. Len(b) = 2 /\ b[1].at # Unstamped /\ b[2].at = b[1].at + CorrectionLead
        BY DEF Corrects
      <4>2. b[1].at \in Nat
        BY <1>3, <4>1 DEF LineOf
      <4> QED BY <4>1, <4>2 DEF CorrectionLead, Unstamped
    <3> HIDE DEF b
    <3> QED BY <1>4, <1>5, <3>1 DEF Corrects
  <2>3. ASSUME AnswersOn(b, log) PROVE AnswersOn(t, log)
    <3>1. 1 \in 1..Len(b) /\ 2 \in 1..Len(b)
      BY <2>3 DEF AnswersOn
    <3> HIDE DEF b
    <3> QED BY <1>4, <1>5, <2>3, <3>1 DEF AnswersOn
  <2>4. On(act[w], log) => On(x, log)
    BY <1>5, <2>1, <2>2, <2>3 DEF On
  <2>5. Alone(x, log)
    BY <1>1, <1>2, <2>1, <2>4 DEF Alone
  <2> QED BY <1>1, <1>6, <2>5, AloneStep
<1>7. CASE Return(w)
  BY <1>1, <1>7, ReturnAlone
<1>8. act' = [act EXCEPT ![w] = x] \/ Return(w)
  BY DEF Stamp, IInv
<1> QED BY <1>6, <1>7, <1>8

LEMMA CheckAlone ==
    ASSUME IInv, BatchInv, NEW w \in Writers, Check(w)
    PROVE  BatchInv'
<1> DEFINE x == [act[w] EXCEPT !.pc = "append"]
<1>1. log' = log /\ act[w].pc = "check" /\ ActInv(act[w], FirstOf(log, Len(log))) /\ Alone(act[w], log)
  BY DEF Check, IInv, BatchInv
<1>2. act[w] \in Act /\ act[w].batch \in Seq(LineOf) /\ log \in Seq(LineOf) /\ act[w].landed = 0
  <2>1. act[w] \in Act /\ act[w].landed = 0 /\ log \in Seq(LineOf)
    BY <1>1 DEF ActInv, IInv
  <2> HIDE DEF LineOf
  <2> QED BY <2>1 DEF Act
<1>3. CASE act' = [act EXCEPT ![w] = x] /\ Builds(Fold(InFoldOrder(log) \o act[w].batch))
  <2>1. Builds(Fold(log \o act[w].batch))
    BY <1>2, <1>3, ReadInOrder
  <2>2. /\ x.pc = "append" /\ x.batch = act[w].batch /\ x.landed = 0 /\ x.op = act[w].op
        /\ x.read = act[w].read
    <3> HIDE DEF LineOf
    <3> QED BY <1>2 DEF Act
  <2> HIDE DEF x
  <2>3. On(act[w], log) => On(x, log)
    BY <2>1, <2>2 DEF On
  <2>4. Alone(x, log)
    BY <1>1, <1>2, <2>2, <2>3 DEF Alone
  <2> QED BY <1>1, <1>3, <2>4, AloneStep
<1>4. CASE Return(w)
  BY <1>1, <1>4, ReturnAlone
<1>5. (act' = [act EXCEPT ![w] = x] /\ Builds(Fold(InFoldOrder(log) \o act[w].batch))) \/ Return(w)
  BY DEF Check, IInv
<1> QED BY <1>3, <1>4, <1>5

LEMMA AppendLineAlone ==
    ASSUME IInv, BatchInv, NEW w \in Writers, AppendLine(w)
    PROVE  BatchInv'
<1> DEFINE a == NextLine(w)
           x == [act[w] EXCEPT !.landed = act[w].landed + 1]
<1>1. act[w].pc = "append" /\ log' = Append(log, a) /\ Alone(act[w], log)
  BY DEF AppendLine, BatchInv
<1>2. /\ a \in LineOf /\ act[w].landed \in Nat /\ act[w].landed + 1 \in 1..Len(act[w].batch)
      /\ act[w].batch \in Seq(LineOf) /\ a = act[w].batch[act[w].landed + 1]
  BY <1>1, NextLineIsSafe DEF NextLine
<1>3. CASE Return(w)
  BY <1>1, <1>2, <1>3, ReturnAlone
<1>4. CASE ~ LastLine(w) /\ act' = [act EXCEPT ![w] = x]
  <2>1. act[w] \in Act /\ log \in Seq(LineOf)
    BY DEF IInv, ActInv
  <2>2. /\ x.pc = "append" /\ x.batch = act[w].batch /\ x.landed = act[w].landed + 1
        /\ x.op = act[w].op /\ x.read = act[w].read /\ x.read \in Nat
    <3> HIDE DEF LineOf
    <3> QED BY <1>1, <2>1 DEF Act
  <2>3. Len(log') = Len(log) + 1 /\ Len(log) \in Nat /\ act[w].read + act[w].landed <= Len(log)
    BY <1>1, <1>2, <2>1, OneLineMore DEF Alone
  <2>4. ASSUME Len(log) = act[w].read + act[w].landed
        PROVE  act[w].landed = 0 /\ On(act[w], log)
    <3>1. CASE act[w].landed = 0 /\ On(act[w], log)
      BY <3>1
    <3>2. ASSUME act[w].landed = 1, NEW base, On(act[w], base) PROVE FALSE
      <4>1. Len(act[w].batch) = 1 \/ Len(act[w].batch) = 2
        BY <3>2 DEF On, Corrects, AnswersOn
      <4> QED BY <1>2, <1>4, <3>2, <4>1 DEF LastLine
    <3> QED BY <1>1, <2>4, <3>1, <3>2 DEF Alone
  <2> HIDE DEF x, a, LineOf
  <2>5. On(act[w], log) => On(x, log)
    BY <1>1, <2>2 DEF On
  <2>6. ASSUME Len(log') = x.read + x.landed
        PROVE  x.landed = 1 /\ \E base \in Seq(LineOf) : log' = Append(base, x.batch[1]) /\ On(x, base)
    <3>1. act[w].landed = 0 /\ On(act[w], log)
      BY <1>2, <2>2, <2>3, <2>4, <2>6
    <3>2. a = x.batch[1] /\ x.landed = 1
      BY <1>2, <2>2, <3>1
    <3> QED BY <1>1, <2>1, <2>5, <3>1, <3>2
  <2>7. x.read + x.landed <= Len(log')
    BY <1>2, <2>2, <2>3
  <2>8. Alone(x, log')
    BY <2>6, <2>7 DEF Alone
  <2> QED BY <1>1, <1>2, <1>4, <2>8, AloneStep
<1>5. Return(w) \/ (~ LastLine(w) /\ act' = [act EXCEPT ![w] = x])
  BY DEF AppendLine, IInv
<1> QED BY <1>3, <1>4, <1>5

\* A failed append adds the line or does not.
LEMMA FailedAppend ==
    ASSUME IInv, NEW w \in Writers, AppendFails(w)
    PROVE  log' = log \/ log' = Append(log, NextLine(w))
<1> DEFINE b == act[w].batch
           l == act[w].landed
<1>1. /\ NextLine(w) \in LineOf /\ l \in Nat /\ l + 1 \in 1..Len(b) /\ b \in Seq(LineOf)
      /\ NextLine(w) = b[l + 1]
  BY NextLineIsSafe DEF AppendFails, NextLine
<1>2. \E n \in {0, 1} : log' = log \o SubSeq(b, l + 1, l + n)
  BY DEF AppendFails
<1> HIDE DEF b, l
<1>3. log \in Seq(LineOf)
  BY DEF IInv
<1>4. SubSeq(b, l + 1, l + 0) = << >> /\ SubSeq(b, l + 1, l + 1) = <<b[l + 1]>>
  <2>1. (l + 1) - 1 = l + 0
    BY <1>1
  <2> QED BY <1>1, <2>1, SmallSequences
<1> HIDE DEF LineOf
<1>5. log \o << >> = log
  BY <1>3
<1>6. log \o <<b[l + 1]>> = Append(log, b[l + 1])
  BY <1>1, <1>3
<1> QED BY <1>1, <1>2, <1>4, <1>5, <1>6

LEMMA StepBatchInv == IInv /\ BatchInv /\ [Next]_vars => BatchInv'
<1> SUFFICES ASSUME IInv, BatchInv, [Next]_vars PROVE BatchInv'
  OBVIOUS
<1>1. CASE UNCHANGED <<log, act>>
  BY <1>1 DEF BatchInv
<1>2. ASSUME NEW w \in Writers,
             Operation(w) \/ Stamp(w) \/ Check(w) \/ AppendLine(w) \/ AppendFails(w) \/ Crash(w)
      PROVE  BatchInv'
  <2>1. CASE Crash(w)
    BY <2>1, ReturnAlone DEF Crash
  <2>2. CASE AppendFails(w)
    <3>1. NextLine(w) \in LineOf /\ Return(w)
      BY <2>2, NextLineIsSafe DEF AppendFails
    <3> QED BY <2>2, <3>1, FailedAppend, ReturnAlone
  <2> QED BY <1>2, <2>1, <2>2, OperationAlone, StampAlone, CheckAlone, AppendLineAlone
<1>3. Tick \/ UNCHANGED vars => UNCHANGED <<log, act>>
  BY DEF Tick, vars
<1> QED BY <1>1, <1>2, <1>3 DEF Next

\* Of a batch that nobody has come between the log is what the batch has made of
\* what its operation read, and the two build together once that was checked.
THEOREM BatchInvariance == Spec => [](IInv /\ BatchInv)
<1>1. Init => IInv /\ BatchInv
  <2>1. Init => BatchInv
    BY IdleIsAlone DEF Init, BatchInv
  <2> QED BY <2>1, InitIInv
<1>2. (IInv /\ BatchInv) /\ [Next]_vars => (IInv /\ BatchInv)'
  BY StepIInv, StepBatchInv
<1> QED BY <1>1, <1>2, PTL DEF Spec
-----------------------------------------------------------------------------
(* Chains of same_as as walks that go on for ever. *)

Walk(d, id, f) ==
    f \in [Nat -> Ids] /\ f[0] = id /\ \A n \in Nat : f[n + 1] = Onward(d, f[n])

\* merge's inner loop ends here.
Ended(d, id) == d[id] = Absent \/ d[id].same_as = NoId

LEMMA OnwardIsAnId ==
    ASSUME NEW d \in Docs, NEW id \in Ids
    PROVE  Onward(d, id) \in Ids /\ (Ended(d, id) => Onward(d, id) = id)
<1>1. d[id] \in Fields \cup {Absent}
  BY DEF Docs
<1>2. d[id] # Absent => d[id].same_as \in MaybeId
  BY <1>1 DEF Fields
<1> QED BY <1>2 DEF Onward, MaybeId, Ended

LEMMA WalkExists ==
    ASSUME NEW d \in Docs, NEW id \in Ids
    PROVE  \E f : Walk(d, id, f)
<1> DEFINE Is(g, m) == /\ g \in [0..m -> Ids] /\ g[0] = id
                       /\ \A n \in Nat : n + 1 <= m => g[n + 1] = Onward(d, g[n])
           S == {m \in Nat : \E g : Is(g, m)}
<1>1. 0 \in S
  <2> DEFINE g == [n \in 0..0 |-> id]
  <2>1. Is(g, 0)
    OBVIOUS
  <2> HIDE DEF g, Is
  <2> QED BY <2>1
<1>2. ASSUME NEW m \in S PROVE m + 1 \in S
  <2>1. m \in Nat /\ m + 1 \in Nat
    OBVIOUS
  <2>2. PICK g : Is(g, m)
    OBVIOUS
  <2> DEFINE h == [n \in 0..(m + 1) |-> IF n = m + 1 THEN Onward(d, g[m]) ELSE g[n]]
  <2>3. Onward(d, g[m]) \in Ids
    BY <2>1, <2>2, OnwardIsAnId
  <2>4. h \in [0..(m + 1) -> Ids]
    BY <2>1, <2>2, <2>3
  <2>5. h[m + 1] = Onward(d, g[m]) /\ \A n \in 0..m : h[n] = g[n]
    BY <2>1
  <2> HIDE DEF h
  <2>6. h[0] = id
    BY <2>1, <2>2, <2>5
  <2>7. ASSUME NEW n \in Nat, n + 1 <= m + 1 PROVE h[n + 1] = Onward(d, h[n])
    <3>1. CASE n = m
      BY <2>1, <2>5, <3>1
    <3>2. CASE n # m
      <4>1. n + 1 <= m /\ n \in 0..m /\ n + 1 \in 0..m
        BY <2>1, <2>7, <3>2
      <4> QED BY <2>2, <2>5, <4>1
    <3> QED BY <3>1, <3>2
  <2>8. Is(h, m + 1)
    BY <2>4, <2>6, <2>7
  <2> HIDE DEF Is
  <2> QED BY <2>1, <2>8
<1>3. S = Nat
  <2>1. S \in SUBSET Nat
    OBVIOUS
  <2> HIDE DEF S
  <2> QED BY <1>1, <1>2, <2>1, Induction
<1> DEFINE G == [m \in Nat |-> CHOOSE g : Is(g, m)]
           f == [m \in Nat |-> G[m][m]]
<1>4. ASSUME NEW m \in Nat PROVE Is(G[m], m)
  <2>1. G[m] = CHOOSE g : Is(g, m)
    OBVIOUS
  <2>2. \E g : Is(g, m)
    BY <1>3
  <2> HIDE DEF Is, G
  <2> QED BY <2>1, <2>2
<1> HIDE DEF G
<1> DEFINE T == {k \in Nat : \A m, o \in Nat : k <= m /\ k <= o => G[m][k] = G[o][k]}
<1>5. 0 \in T
  BY <1>4
<1>6. ASSUME NEW k \in T PROVE k + 1 \in T
  <2> SUFFICES ASSUME NEW m \in Nat, NEW o \in Nat, k + 1 <= m, k + 1 <= o
               PROVE  G[m][k + 1] = G[o][k + 1]
    OBVIOUS
  <2>1. k \in Nat /\ k <= m /\ k <= o
    OBVIOUS
  <2>2. G[m][k] = G[o][k]
    BY <2>1
  <2>3. G[m][k + 1] = Onward(d, G[m][k]) /\ G[o][k + 1] = Onward(d, G[o][k])
    <3>1. \A n \in Nat : n + 1 <= m => G[m][n + 1] = Onward(d, G[m][n])
      BY <1>4
    <3>2. \A n \in Nat : n + 1 <= o => G[o][n + 1] = Onward(d, G[o][n])
      BY <1>4
    <3> QED BY <2>1, <3>1, <3>2
  <2> QED BY <2>2, <2>3
<1>7. T = Nat
  <2>1. T \in SUBSET Nat
    OBVIOUS
  <2> HIDE DEF T
  <2> QED BY <1>5, <1>6, <2>1, Induction
<1>8. \A m \in Nat : f[m] = G[m][m]
  OBVIOUS
<1>9. f \in [Nat -> Ids]
  <2>1. \A m \in Nat : G[m][m] \in Ids
    BY <1>4
  <2> QED BY <2>1
<1> HIDE DEF f
<1>10. ASSUME NEW n \in Nat PROVE f[n + 1] = Onward(d, f[n])
  <2> DEFINE m == n + 1
  <2>1. m \in Nat /\ n <= m
    OBVIOUS
  <2>2. G[m][m] = Onward(d, G[m][n])
    <3>1. \A k \in Nat : k + 1 <= m => G[m][k + 1] = Onward(d, G[m][k])
      BY <1>4, <2>1
    <3>2. n + 1 <= m /\ n + 1 = m
      OBVIOUS
    <3> HIDE DEF m
    <3> QED BY <3>1, <3>2
  <2>3. G[m][n] = G[n][n]
    <3>1. n \in T
      BY <1>7
    <3> QED BY <2>1, <3>1
  <2>4. f[m] = G[m][m] /\ f[n] = G[n][n]
    BY <1>8, <2>1
  <2> QED BY <2>2, <2>3, <2>4
<1>11. f[0] = id
  BY <1>4, <1>8
<1> QED BY <1>9, <1>10, <1>11 DEF Walk

\* There is one walk from an id.
LEMMA WalksAgree ==
    ASSUME NEW d, NEW e, NEW id, NEW f, NEW g, Walk(d, id, f), Walk(e, id, g), NEW m \in Nat,
           \A n \in Nat : n < m => Onward(d, f[n]) = Onward(e, f[n])
    PROVE  \A n \in Nat : n <= m => g[n] = f[n]
<1> DEFINE S == {n \in Nat : n <= m => g[n] = f[n]}
<1>1. 0 \in S
  BY DEF Walk
<1>2. ASSUME NEW n \in S PROVE n + 1 \in S
  <2> SUFFICES ASSUME n + 1 <= m PROVE g[n + 1] = f[n + 1]
    OBVIOUS
  <2>1. n \in Nat /\ n < m /\ g[n] = f[n]
    OBVIOUS
  <2>2. g[n + 1] = Onward(e, g[n]) /\ f[n + 1] = Onward(d, f[n])
    BY <2>1 DEF Walk
  <2> QED BY <2>1, <2>2
<1>3. S = Nat
  <2>1. S \in SUBSET Nat
    OBVIOUS
  <2> HIDE DEF S
  <2> QED BY <1>1, <1>2, <2>1, Induction
<1> QED BY <1>3

\* The part of a walk from its n-th id on.
LEMMA RestOfWalk ==
    ASSUME NEW d, NEW id, NEW f, Walk(d, id, f), NEW i \in Nat
    PROVE  Walk(d, f[i], [n \in Nat |-> f[i + n]])
<1> DEFINE g == [n \in Nat |-> f[i + n]]
<1>1. g \in [Nat -> Ids] /\ \A n \in Nat : g[n] = f[i + n]
  BY DEF Walk
<1> HIDE DEF g
<1>2. g[0] = f[i]
  BY <1>1
<1>3. ASSUME NEW n \in Nat PROVE g[n + 1] = Onward(d, g[n])
  <2> DEFINE m == i + n
  <2>1. m \in Nat /\ g[n] = f[m] /\ g[n + 1] = f[m + 1]
    <3>1. n + 1 \in Nat /\ i + (n + 1) = m + 1 /\ m \in Nat
      OBVIOUS
    <3> HIDE DEF m
    <3>2. g[n + 1] = f[i + (n + 1)]
      BY <1>1, <3>1
    <3> QED BY <1>1, <3>1, <3>2 DEF m
  <2> HIDE DEF m
  <2> QED BY <2>1 DEF Walk
<1>4. Walk(d, f[i], g)
  BY <1>1, <1>2, <1>3 DEF Walk
<1> QED BY <1>4 DEF g

\* merge's loop is as many steps of the walk as there are ids.
LEMMA ChainIsWalked ==
    ASSUME NEW d \in Docs, NEW id \in Ids, NEW f, Walk(d, id, f)
    PROVE  ChainEnd(d, id) = f[Cardinality(Ids)]
<1> DEFINE N == Cardinality(Ids)
<1>1. PICK g : /\ g[0] = id /\ ChainEnd(d, id) = g[N]
               /\ \A n \in 1..N : g[n] = Onward(d, g[n - 1])
  BY ChainsEnd
<1>2. N \in Nat
  BY FactLogAssumption, FS_CardinalityType
<1> HIDE DEF N
<1> DEFINE S == {n \in Nat : n <= N => g[n] = f[n]}
<1>3. 0 \in S
  BY <1>1 DEF Walk
<1>4. ASSUME NEW n \in S PROVE n + 1 \in S
  <2> SUFFICES ASSUME n + 1 <= N PROVE g[n + 1] = f[n + 1]
    OBVIOUS
  <2>1. n \in Nat /\ n + 1 \in 1..N /\ (n + 1) - 1 = n /\ g[n] = f[n]
    BY <1>2
  <2>2. g[n + 1] = Onward(d, g[n])
    BY <1>1, <2>1
  <2>3. f[n + 1] = Onward(d, f[n])
    BY <2>1 DEF Walk
  <2> QED BY <2>1, <2>2, <2>3
<1>5. S = Nat
  <2>1. S \in SUBSET Nat
    OBVIOUS
  <2> HIDE DEF S
  <2> QED BY <1>3, <1>4, <2>1, Induction
<1>6. g[N] = f[N]
  BY <1>2, <1>5
<1> QED BY <1>1, <1>6 DEF N

\* A walk that ends does so within as many steps as there are ids: until then no id
\* comes twice.
LEMMA WalkEnds ==
    ASSUME NEW d \in Docs, NEW id \in Ids, NEW f, Walk(d, id, f), NEW m \in Nat, Ended(d, f[m])
    PROVE  f[Cardinality(Ids)] = f[m]
<1> DEFINE N == Cardinality(Ids)
           E == {n \in Nat : Ended(d, f[n])}
<1>1. N \in Nat /\ IsFiniteSet(Ids)
  BY FactLogAssumption, FS_CardinalityType
<1>2. f \in [Nat -> Ids] /\ \A n \in Nat : f[n + 1] = Onward(d, f[n])
  BY DEF Walk
<1>3. PICK l \in E : \A n \in E : l <= n
  <2>1. E \in SUBSET Nat /\ E # {}
    OBVIOUS
  <2> HIDE DEF E
  <2> QED BY <2>1, Smallest
<1>4. l \in Nat /\ l <= m /\ Ended(d, f[l]) /\ \A n \in Nat : Ended(d, f[n]) => l <= n
  BY <1>3
<1> HIDE DEF N, E
<1>5. \A n \in Nat : f[l + n] = f[l]
  <2> DEFINE S == {n \in Nat : f[l + n] = f[l]}
  <2>1. 0 \in S
    BY <1>4
  <2>2. ASSUME NEW n \in S PROVE n + 1 \in S
    <3> DEFINE k == l + n
    <3>1. k \in Nat /\ l + (n + 1) = k + 1 /\ f[k] = f[l]
      BY <1>4
    <3> HIDE DEF k
    <3>2. f[k + 1] = Onward(d, f[k]) /\ f[k] \in Ids
      BY <1>2, <3>1
    <3>3. f[k + 1] = f[l]
      BY <1>4, <3>1, <3>2, OnwardIsAnId
    <3> QED BY <3>1, <3>3
  <2>3. S = Nat
    <3>1. S \in SUBSET Nat
      OBVIOUS
    <3> HIDE DEF S
    <3> QED BY <2>1, <2>2, <3>1, Induction
  <2> QED BY <2>3
<1>6. ASSUME NEW i \in Nat, NEW j \in Nat, i < j, j <= l, f[i] = f[j] PROVE FALSE
  <2> DEFINE S == {n \in Nat : f[i + n] = f[j + n]}
  <2>1. 0 \in S
    BY <1>6
  <2>2. ASSUME NEW n \in S PROVE n + 1 \in S
    <3> DEFINE k == i + n
               o == j + n
    <3>1. k \in Nat /\ o \in Nat /\ i + (n + 1) = k + 1 /\ j + (n + 1) = o + 1 /\ f[k] = f[o]
      OBVIOUS
    <3> HIDE DEF k, o
    <3>2. f[k + 1] = Onward(d, f[k]) /\ f[o + 1] = Onward(d, f[o])
      BY <1>2, <3>1
    <3> QED BY <3>1, <3>2
  <2>3. S = Nat
    <3>1. S \in SUBSET Nat
      OBVIOUS
    <3> HIDE DEF S
    <3> QED BY <2>1, <2>2, <3>1, Induction
  <2> DEFINE n == l - j
  <2>4. n \in Nat /\ j + n = l /\ i + n < l /\ i + n \in Nat
    BY <1>4, <1>6
  <2>5. f[i + n] = f[j + n]
    <3> HIDE DEF n
    <3>1. n \in S
      BY <2>3, <2>4
    <3> QED BY <3>1
  <2> HIDE DEF n, S
  <2>6. Ended(d, f[i + n])
    BY <1>4, <2>4, <2>5
  <2>7. l <= i + n
    BY <1>4, <2>4, <2>6
  <2> QED BY <1>4, <2>4, <2>7
<1>7. l < N
  <2> DEFINE g == [n \in 0..l |-> f[n]]
  <2>1. g \in [0..l -> Ids] /\ \A n \in 0..l : g[n] = f[n]
    BY <1>2, <1>4
  <2> HIDE DEF g
  <2>2. \A i, j \in 0..l : g[i] = g[j] => i = j
    <3> SUFFICES ASSUME NEW i \in 0..l, NEW j \in 0..l, g[i] = g[j], i # j PROVE FALSE
      OBVIOUS
    <3>1. i \in Nat /\ j \in Nat /\ i <= l /\ j <= l /\ f[i] = f[j] /\ (i < j \/ j < i)
      BY <1>4, <2>1
    <3> QED BY <1>6, <3>1
  <2>3. g \in Injection(0..l, Ids)
    BY <2>1, <2>2 DEF Injection, IsInjective
  <2>4. Cardinality(0..l) <= N
    BY <1>1, <2>3, FS_Injection DEF N
  <2>5. Cardinality(0..l) = l + 1
    <3>1. 0 \in Int /\ l \in Int /\ ~ (0 > l)
      BY <1>4
    <3>2. Cardinality(0..l) = l - 0 + 1
      BY <3>1, FS_Interval
    <3> QED BY <1>4, <3>2
  <2> QED BY <1>1, <1>4, <2>4, <2>5
<1>8. N - l \in Nat /\ l + (N - l) = N /\ m - l \in Nat /\ l + (m - l) = m
  BY <1>1, <1>4, <1>7
<1>9. f[N] = f[l] /\ f[m] = f[l]
  <2>1. f[l + (N - l)] = f[l] /\ f[l + (m - l)] = f[l]
    BY <1>5, <1>8
  <2> QED BY <1>8, <2>1
<1> QED BY <1>9 DEF N

-----------------------------------------------------------------------------
(* An answer without its closing. *)

\* What survives a merge is of the kind of everything folded into it.
LEMMA OneKindAlongAWalk ==
    ASSUME NEW d \in Docs, Merges(d), NEW id \in Retired(d), NEW f, Walk(d, id, f)
    PROVE  /\ \A n \in Nat : d[f[n]] # Absent /\ d[f[n]].kind = d[id].kind
           /\ Ended(d, f[Cardinality(Ids)])
<1> DEFINE N == Cardinality(Ids)
           end == f[N]
<1>1. N \in Nat
  BY FactLogAssumption, FS_CardinalityType
<1>2. id \in Ids /\ f \in [Nat -> Ids]
  BY DEF Retired, Live, Walk
<1>3. \A x \in Retired(d) : /\ d[ChainEnd(d, x)] # Absent /\ d[ChainEnd(d, x)].same_as = NoId
                            /\ d[ChainEnd(d, x)].kind = d[x].kind
  BY DEF Merges
<1>4. d[end] # Absent /\ d[end].same_as = NoId /\ d[end].kind = d[id].kind
  BY <1>2, <1>3, ChainIsWalked
<1> HIDE DEF N
<1>5. ASSUME NEW n \in Nat PROVE d[f[n]] # Absent /\ d[f[n]].kind = d[id].kind
  <2>1. CASE Ended(d, f[n])
    <3>1. f[n] = end
      BY <1>2, <2>1, WalkEnds DEF N
    <3> HIDE DEF end
    <3> QED BY <1>4, <3>1
  <2>2. CASE ~ Ended(d, f[n])
    <3> DEFINE g == [k \in Nat |-> f[n + k]]
    <3>1. f[n] \in Ids /\ f[n] \in Retired(d)
      BY <1>2, <2>2 DEF Ended, Retired, Live
    <3>2. Walk(d, f[n], g)
      BY RestOfWalk
    <3>3. g[N] = f[n + N] /\ n + N \in Nat
      BY <1>1
    <3> HIDE DEF g
    <3>4. ChainEnd(d, f[n]) = f[n + N]
      BY <3>1, <3>2, <3>3, ChainIsWalked DEF N
    <3>5. Ended(d, f[n + N]) /\ d[f[n + N]].kind = d[f[n]].kind
      BY <1>3, <3>1, <3>4 DEF Ended
    <3>6. f[n + N] = end
      BY <1>2, <3>3, <3>5, WalkEnds DEF N
    <3> HIDE DEF end
    <3> QED BY <1>4, <2>2, <3>5, <3>6 DEF Ended
  <2> QED BY <2>1, <2>2
<1> QED BY <1>4, <1>5 DEF Ended, N

\* The base, with an answer x, and with the question q closed too: x was no question,
\* and q is one throughout, which x alone leaves as it was.
Answers(base, half, whole, x, q) ==
    /\ base \in Docs /\ half \in Docs /\ whole \in Docs /\ x \in Ids /\ q \in Ids
    /\ \A id \in Ids : id # x => SameNode(base[id], half[id])
    /\ \A id \in Ids : id # q => SameNode(half[id], whole[id])
    /\ base[x] # Absent => base[x].kind # "question"
    /\ base[q] # Absent /\ base[q].kind = "question"
    /\ half[q] # Absent /\ whole[q] # Absent
    /\ half[q].kind = whole[q].kind /\ half[q].words = whole[q].words
    /\ half[q].supersedes = whole[q].supersedes /\ half[q].answers = whole[q].answers
    /\ half[q].same_as = whole[q].same_as \/ half[q].same_as # NoId

\* merge finds a survivor of its kind for id, whose chain comes to the question.
LEMMA ChainThroughTheQuestion ==
    ASSUME NEW base, NEW half, NEW whole, NEW x, NEW q, Answers(base, half, whole, x, q),
           Merges(base), Merges(whole), half[q].same_as # NoId,
           NEW id \in Retired(half), NEW h, Walk(half, id, h), NEW i \in Nat, h[i] = q,
           \A n \in Nat : n < i => h[n] # q
    PROVE  LET end == ChainEnd(half, id)
           IN  /\ half[end] # Absent /\ half[end].same_as = NoId /\ half[end].kind = half[id].kind
<1> DEFINE N == Cardinality(Ids)
           end == ChainEnd(half, id)
<1>1. N \in Nat
  BY FactLogAssumption, FS_CardinalityType
<1>2. base \in Docs /\ half \in Docs /\ whole \in Docs /\ q \in Ids /\ q # x /\ id \in Ids
      /\ h \in [Nat -> Ids]
  BY DEF Answers, Retired, Live, Walk
<1>3. SameNode(base[q], half[q]) /\ q \in Retired(base) /\ half[q].kind = "question"
  BY <1>2 DEF Answers, SameNode, Retired, Live
<1>4. PICK f : Walk(base, q, f)
  BY <1>2, WalkExists
<1>5. /\ \A n \in Nat : base[f[n]] # Absent /\ base[f[n]].kind = "question"
      /\ Ended(base, f[N])
  BY <1>2, <1>3, <1>4, OneKindAlongAWalk DEF Answers
<1> HIDE DEF N
<1>6. ASSUME NEW n \in Nat PROVE f[n] \in Ids /\ f[n] # x /\ SameNode(base[f[n]], half[f[n]])
  BY <1>4, <1>5 DEF Answers, Walk
<1>7. \A n \in Nat : Onward(base, f[n]) = Onward(half, f[n])
  BY <1>6 DEF Onward, SameNode
<1> DEFINE g == [n \in Nat |-> h[i + n]]
<1>8. Walk(half, q, g)
  BY RestOfWalk
<1>9. g[N] = h[i + N] /\ i + N \in Nat
  BY <1>1
<1> HIDE DEF g
<1>10. g[N] = f[N]
  <2>1. \A n \in Nat : n <= N => g[n] = f[n]
    BY <1>1, <1>4, <1>7, <1>8, WalksAgree
  <2> QED BY <1>1, <2>1
<1>11. /\ half[f[N]] # Absent /\ half[f[N]].same_as = NoId /\ half[f[N]].kind = "question"
       /\ Ended(half, f[N])
  <2>1. SameNode(base[f[N]], half[f[N]]) /\ base[f[N]] # Absent /\ base[f[N]].kind = "question"
    BY <1>1, <1>5, <1>6
  <2> QED BY <1>5, <2>1 DEF SameNode, Ended
<1>12. end = f[N]
  <2>1. Ended(half, h[i + N])
    BY <1>9, <1>10, <1>11
  <2>2. h[N] = h[i + N]
    BY <1>2, <1>9, <2>1, WalkEnds DEF N
  <2>3. end = h[N]
    BY <1>2, ChainIsWalked DEF N
  <2> QED BY <1>9, <1>10, <2>2, <2>3
<1>13. half[id].kind = "question"
  <2>1. CASE id = q
    BY <1>3, <2>1
  <2>2. CASE id # q
    <3>1. SameNode(half[id], whole[id]) /\ id \in Retired(whole)
      BY <1>2, <2>2 DEF Answers, SameNode, Retired, Live
    <3>2. PICK e : Walk(whole, id, e)
      BY <1>2, WalkExists
    <3>3. \A n \in Nat : n < i => Onward(half, h[n]) = Onward(whole, h[n])
      <4> SUFFICES ASSUME NEW n \in Nat, n < i PROVE Onward(half, h[n]) = Onward(whole, h[n])
        OBVIOUS
      <4>1. h[n] # q /\ h[n] \in Ids
        BY <1>2
      <4>2. SameNode(half[h[n]], whole[h[n]])
        BY <4>1 DEF Answers
      <4> QED BY <4>2 DEF Onward, SameNode
    <3>4. \A n \in Nat : n <= i => e[n] = h[n]
      BY <3>2, <3>3, WalksAgree
    <3>5. e[i] = q
      BY <3>4
    <3>6. whole[q].kind = whole[id].kind
      BY <1>2, <3>1, <3>2, <3>5, OneKindAlongAWalk
    <3> QED BY <1>3, <3>1, <3>6 DEF Answers, SameNode, Retired, Live
  <2> QED BY <2>1, <2>2
<1> HIDE DEF end
<1> QED BY <1>11, <1>12, <1>13 DEF end

\* ... and for one whose chain does not.
LEMMA ChainPastTheQuestion ==
    ASSUME NEW base, NEW half, NEW whole, NEW x, NEW q, Answers(base, half, whole, x, q),
           Merges(whole), NEW id \in Retired(half), NEW h, Walk(half, id, h),
           \A n \in Nat : h[n] # q
    PROVE  LET end == ChainEnd(half, id)
           IN  /\ half[end] # Absent /\ half[end].same_as = NoId /\ half[end].kind = half[id].kind
<1> DEFINE N == Cardinality(Ids)
           end == ChainEnd(half, id)
<1>1. N \in Nat
  BY FactLogAssumption, FS_CardinalityType
<1>2. half \in Docs /\ whole \in Docs /\ id \in Ids /\ h \in [Nat -> Ids] /\ h[0] = id
  BY DEF Answers, Retired, Live, Walk
<1>3. ASSUME NEW n \in Nat PROVE SameNode(half[h[n]], whole[h[n]])
  BY <1>2 DEF Answers
<1>4. PICK e : Walk(whole, id, e)
  BY <1>2, WalkExists
<1>5. \A n \in Nat : Onward(half, h[n]) = Onward(whole, h[n])
  BY <1>3 DEF Onward, SameNode
<1> HIDE DEF N
<1>6. e[N] = h[N]
  <2>1. \A n \in Nat : n <= N => e[n] = h[n]
    BY <1>1, <1>4, <1>5, WalksAgree
  <2> QED BY <1>1, <2>1
<1>7. end = h[N] /\ ChainEnd(whole, id) = h[N]
  BY <1>2, <1>4, <1>6, ChainIsWalked DEF N
<1>8. SameNode(half[id], whole[id]) /\ id \in Retired(whole)
  <2>1. SameNode(half[id], whole[id])
    BY <1>2, <1>3
  <2> QED BY <2>1 DEF SameNode, Retired, Live
<1>9. whole[h[N]] # Absent /\ whole[h[N]].same_as = NoId /\ whole[h[N]].kind = whole[id].kind
  BY <1>7, <1>8 DEF Merges
<1>10. SameNode(half[h[N]], whole[h[N]])
  BY <1>1, <1>3
<1> HIDE DEF end
<1>11. half[id] # Absent
  BY DEF Retired, Live
<1> QED BY <1>7, <1>8, <1>9, <1>10, <1>11 DEF SameNode, end

\* A document that loads, given an answer with which and its closing it would load, loads
\* with the answer alone.
LEMMA HalfAnAnswerBuilds ==
    ASSUME NEW base, NEW half, NEW whole, NEW x, NEW q, Answers(base, half, whole, x, q),
           Builds(base), Builds(whole)
    PROVE  Builds(half)
<1>1. /\ half \in Docs /\ whole \in Docs
      /\ \A id \in Ids :
            /\ half[id] = Absent <=> whole[id] = Absent
            /\ half[id] # Absent =>
                  /\ half[id].kind = whole[id].kind /\ half[id].words = whole[id].words
                  /\ half[id].supersedes = whole[id].supersedes
                  /\ half[id].answers = whole[id].answers
                  /\ half[id].same_as = NoId => whole[id].same_as = NoId
  <2>1. half \in Docs /\ whole \in Docs
    BY DEF Answers
  <2>2. ASSUME NEW id \in Ids
        PROVE  /\ half[id] = Absent <=> whole[id] = Absent
               /\ half[id] # Absent =>
                     /\ half[id].kind = whole[id].kind /\ half[id].words = whole[id].words
                     /\ half[id].supersedes = whole[id].supersedes
                     /\ half[id].answers = whole[id].answers
                     /\ half[id].same_as = NoId => whole[id].same_as = NoId
    <3>1. CASE id = q
      BY <3>1 DEF Answers
    <3>2. CASE id # q
      <4>1. SameNode(half[id], whole[id])
        BY <3>2 DEF Answers
      <4> QED BY <4>1 DEF SameNode
    <3> QED BY <3>1, <3>2
  <2> QED BY <2>1, <2>2
<1>2. Live(half) = Live(whole) /\ \A id \in Live(half) : id \in Ids /\ half[id] # Absent
  BY <1>1 DEF Live
<1>3. Idiomatic(half)
  BY <1>1, <1>2 DEF Builds, Idiomatic
<1>4. RefsResolve(half)
  BY <1>1, <1>2 DEF Builds, RefsResolve
<1>5. NoDuplicates(half)
  <2>1. \A id \in Live(half) \ Retired(half) : id \in Live(whole) \ Retired(whole)
    BY <1>1, <1>2 DEF Retired
  <2>2. \A a, b \in Live(whole) \ Retired(whole) :
            whole[a].kind = whole[b].kind /\ whole[a].words = whole[b].words => a = b
    BY DEF Builds, NoDuplicates
  <2> QED BY <1>1, <1>2, <2>1, <2>2 DEF NoDuplicates
<1>6. Merges(half)
  <2>1. CASE half[q].same_as = whole[q].same_as
    <3>1. \A id \in Ids : SameNode(half[id], whole[id])
      <4> SUFFICES ASSUME NEW id \in Ids PROVE SameNode(half[id], whole[id])
        OBVIOUS
      <4>1. CASE id = q
        BY <2>1, <4>1 DEF Answers, SameNode
      <4>2. CASE id # q
        BY <4>2 DEF Answers
      <4> QED BY <4>1, <4>2
    <3>2. SameDoc(whole, half)
      BY <1>1, <3>1 DEF SameDoc, SameNode
    <3> QED BY <3>2, StatusDecidesNothing DEF Builds
  <2>2. CASE half[q].same_as # whole[q].same_as
    <3> SUFFICES ASSUME NEW id \in Retired(half)
                 PROVE  LET end == ChainEnd(half, id)
                        IN  /\ half[end] # Absent /\ half[end].same_as = NoId
                            /\ half[end].kind = half[id].kind
      BY DEF Merges
    <3>1. PICK h : Walk(half, id, h)
      BY <1>1, WalkExists DEF Retired, Live
    <3>2. half[q].same_as # NoId /\ Merges(base) /\ Merges(whole)
      BY <2>2 DEF Answers, Builds
    <3>3. CASE \A n \in Nat : h[n] # q
      BY <3>1, <3>2, <3>3, ChainPastTheQuestion
    <3>4. CASE \E n \in Nat : h[n] = q
      <4> DEFINE S == {n \in Nat : h[n] = q}
      <4>1. PICK i \in S : \A n \in S : i <= n
        <5>1. S \in SUBSET Nat /\ S # {}
          BY <3>4
        <5> HIDE DEF S
        <5> QED BY <5>1, Smallest
      <4>2. i \in Nat /\ h[i] = q /\ \A n \in Nat : n < i => h[n] # q
        BY <4>1
      <4> HIDE DEF S
      <4> QED BY <3>1, <3>2, <4>2, ChainThroughTheQuestion
    <3> QED BY <3>3, <3>4
  <2> QED BY <2>1, <2>2
<1> QED BY <1>3, <1>4, <1>5, <1>6 DEF Builds

-----------------------------------------------------------------------------
(* What an uncontended batch leaves behind. *)

\* A batch appended to a log, line by line.
LEMMA BatchIsAppended ==
    ASSUME NEW base \in Seq(LineOf), NEW batch \in Seq(LineOf)
    PROVE  /\ Len(batch) = 1 => base \o batch = Append(base, batch[1])
           /\ Len(batch) = 2 => base \o batch = Append(Append(base, batch[1]), batch[2])
<1> DEFINE one == Append(base, batch[1])
           two == Append(one, batch[2])
           whole == base \o batch
           n == Len(base)
<1>1. n \in Nat /\ whole \in Seq(LineOf) /\ Len(whole) = n + Len(batch) /\ Len(batch) \in Nat
      /\ \A i \in 1..Len(whole) : whole[i] = IF i <= n THEN base[i] ELSE batch[i - n]
  <2> HIDE DEF LineOf
  <2> QED BY ConcatProperties
<1>2. \A k \in 1..Len(batch) : batch[k] \in LineOf
  BY ElementOfSeq
<1> HIDE DEF LineOf
<1>3. ASSUME 1 \in 1..Len(batch)
      PROVE  one \in Seq(LineOf) /\ Len(one) = n + 1 /\ one[n + 1] = batch[1]
             /\ \A i \in 1..n : one[i] = base[i]
  BY <1>2, <1>3, OneLineMore
<1>4. ASSUME Len(batch) = 1 PROVE whole = one
  <2>1. 1 \in 1..Len(batch)
    BY <1>4
  <2>2. one \in Seq(LineOf) /\ Len(one) = n + 1 /\ one[n + 1] = batch[1]
        /\ \A i \in 1..n : one[i] = base[i]
    BY <1>3, <2>1
  <2> HIDE DEF one, whole, n
  <2>3. ASSUME NEW i \in 1..Len(whole) PROVE whole[i] = one[i]
    <3>1. i \in 1..n \/ (i = n + 1 /\ ~ (i <= n) /\ i - n = 1)
      BY <1>1, <1>4
    <3> QED BY <1>1, <2>2, <3>1
  <2>4. Len(whole) = Len(one)
    BY <1>1, <1>4, <2>2
  <2> QED BY <1>1, <2>2, <2>3, <2>4, SeqEqual
<1>5. ASSUME Len(batch) = 2 PROVE whole = two
  <2>1. 1 \in 1..Len(batch) /\ 2 \in 1..Len(batch)
    BY <1>5
  <2>2. one \in Seq(LineOf) /\ Len(one) = n + 1 /\ one[n + 1] = batch[1]
        /\ \A i \in 1..n : one[i] = base[i]
    BY <1>3, <2>1
  <2> HIDE DEF one
  <2>3. /\ two \in Seq(LineOf) /\ Len(two) = Len(one) + 1 /\ two[Len(one) + 1] = batch[2]
        /\ \A i \in 1..Len(one) : two[i] = one[i]
    BY <1>2, <2>1, <2>2, OneLineMore
  <2> HIDE DEF two, whole, n
  <2>4. ASSUME NEW i \in 1..Len(whole) PROVE whole[i] = two[i]
    <3>1. \/ i \in 1..n /\ i \in 1..Len(one)
          \/ i = n + 1 /\ i \in 1..Len(one) /\ ~ (i <= n) /\ i - n = 1
          \/ i = n + 2 /\ i = Len(one) + 1 /\ ~ (i <= n) /\ i - n = 2
      BY <1>1, <1>5, <2>2
    <3>2. whole[i] = IF i <= n THEN base[i] ELSE batch[i - n]
      BY <1>1
    <3>3. CASE i \in 1..n /\ i \in 1..Len(one)
      <4>1. i <= n /\ two[i] = base[i]
        BY <1>1, <2>2, <2>3, <3>3
      <4> QED BY <3>2, <4>1
    <3>4. CASE i = n + 1 /\ i \in 1..Len(one) /\ ~ (i <= n) /\ i - n = 1
      <4>1. two[i] = batch[1]
        BY <2>2, <2>3, <3>4
      <4> QED BY <3>2, <3>4, <4>1
    <3>5. CASE i = n + 2 /\ i = Len(one) + 1 /\ ~ (i <= n) /\ i - n = 2
      <4>1. two[i] = batch[2]
        BY <2>3, <3>5
      <4> QED BY <3>2, <3>5, <4>1
    <3> QED BY <3>1, <3>3, <3>4, <3>5
  <2>5. Len(whole) = Len(two)
    BY <1>1, <1>5, <2>2, <2>3
  <2> QED BY <1>1, <2>3, <2>4, <2>5, SeqEqual
<1> QED BY <1>4, <1>5

\* The answer without the closing.
LEMMA AnswerAloneBuilds ==
    ASSUME NEW lines \in Seq(LineOf), NEW batch \in Seq(LineOf), AnswersOn(batch, lines),
           LastFields(lines, batch[1].id) # Absent =>
               LastFields(lines, batch[1].id).kind # "question",
           Builds(Fold(lines)), Builds(Fold(lines \o batch))
    PROVE  Builds(Fold(Append(lines, batch[1])))
<1> DEFINE a == batch[1]
           c == batch[2]
           n == Len(lines)
           more == Append(lines, a)
           base == Fold(lines)
           half == Fold(more)
           whole == Fold(Append(more, c))
<1>1. /\ Len(batch) = 2 /\ a.op = "assert" /\ c.op = "assert"
      /\ LastFields(lines, c.id) # Absent /\ LastFields(lines, c.id).kind = "question"
      /\ c.fields = [LastFields(lines, c.id) EXCEPT !.status = "resolved"]
  BY DEF AnswersOn
<1>2. a \in LineOf /\ c \in LineOf
  <2>1. 1 \in 1..Len(batch) /\ 2 \in 1..Len(batch)
    BY <1>1
  <2> QED BY <2>1, ElementOfSeq
<1>3. lines \o batch = Append(more, c)
  BY <1>1, BatchIsAppended
<1>4. PICK k : LastOf(lines, Asserts(lines, c.id), k) /\ LastFields(lines, c.id) = lines[k].fields
  BY <1>1, LastFieldsAreTheLast
<1>5. a.id # c.id /\ (LastFields(lines, a.id) # Absent => LastFields(lines, a.id).kind # "question")
  BY <1>1
<1>6. a.id \in Ids /\ c.id \in Ids
  <2> HIDE DEF Fields, a, c
  <2> QED BY <1>2 DEF LineOf
<1> HIDE DEF a, c, n
<1>7. /\ more \in Seq(LineOf) /\ n \in Nat /\ Len(more) = n + 1 /\ more[n + 1] = a
      /\ \A i \in 1..n : i \in 1..Len(more) /\ more[i] = lines[i]
      /\ \A i \in 1..Len(more) : i \in 1..n \/ i = n + 1
      /\ \A i, j \in 1..n : Before(more, i, j) <=> Before(lines, i, j)
  BY <1>2, OneLineMore DEF n
<1> HIDE DEF more
<1>8. Append(more, c) \in Seq(LineOf)
  BY <1>2, <1>7, OneLineMore
<1>9. /\ base \in Docs /\ \A id \in Ids : Means(lines, id, base[id])
      /\ half \in Docs /\ \A id \in Ids : Means(more, id, half[id])
      /\ whole \in Docs /\ \A id \in Ids : Means(Append(more, c), id, whole[id])
  BY <1>7, <1>8, FoldMeans, LinesOfOpsAreLawful DEF Docs
<1>10. \A id \in Ids : id # a.id => SameNode(base[id], half[id])
  BY <1>2, <1>9, NodeIsKept DEF more
\* The question in the half is the question in the whole, but for its status and its merge.
<1>11. LastOf(more, Asserts(more, c.id), k) /\ more[k] = lines[k]
  <2>1. /\ Asserts(lines, c.id) = {i \in 1..n : lines[i].id = c.id /\ lines[i].op = "assert"}
        /\ Asserts(more, c.id) = {i \in 1..Len(more) : more[i].id = c.id /\ more[i].op = "assert"}
    BY DEF Asserts, n
  <2>2. Asserts(more, c.id) = Asserts(lines, c.id)
    BY <1>5, <1>7, <2>1
  <2> QED BY <1>4, <1>7, <2>1, <2>2 DEF LastOf
<1>12. c.fields = [more[k].fields EXCEPT !.status = "resolved"]
  BY <1>1, <1>4, <1>11
<1> HIDE DEF base, half, whole
<1>13. /\ \A id \in Ids : id # c.id => SameNode(half[id], whole[id])
       /\ half[c.id] # Absent /\ whole[c.id] # Absent
       /\ half[c.id].kind = whole[c.id].kind /\ half[c.id].words = whole[c.id].words
       /\ half[c.id].supersedes = whole[c.id].supersedes /\ half[c.id].answers = whole[c.id].answers
       /\ half[c.id].same_as = whole[c.id].same_as \/ half[c.id].same_as # NoId
  <2>1. more \in Seq(LineOf) /\ c \in LineOf /\ c.op = "assert"
    BY <1>1, <1>2, <1>7
  <2> DEFINE x == Fold(more)[c.id]
             y == Fold(Append(more, c))[c.id]
  <2>2. /\ \A o \in Ids : o # c.id => SameNode(Fold(more)[o], Fold(Append(more, c))[o])
        /\ x # Absent /\ y # Absent
        /\ x.kind = y.kind /\ x.words = y.words /\ x.supersedes = y.supersedes
        /\ x.answers = y.answers
        /\ x.same_as = y.same_as \/ x.same_as # NoId
    BY <1>11, <1>12, <2>1, ClosingKeepsTheRest
  <2>3. half = Fold(more) /\ whole = Fold(Append(more, c))
    BY DEF half, whole
  <2> QED BY <2>2, <2>3
<1>14. ASSUME NEW id \in Ids, base[id] # Absent
       PROVE  LastFields(lines, id) # Absent /\ base[id].kind = LastFields(lines, id).kind
  <2>1. Asserts(lines, id) # {}
    BY <1>9, <1>14 DEF Means
  <2>2. PICK j : LastOf(lines, Asserts(lines, id), j) /\ LastFields(lines, id) = lines[j].fields
    BY <2>1, DeclaredHaveFields, LastFieldsAreTheLast
  <2>3. base[id].kind = lines[j].fields.kind
    BY <1>9, <2>2 DEF Means, NodeOf
  <2> QED BY <2>1, <2>2, <2>3, DeclaredHaveFields
<1>15. base[a.id] # Absent => base[a.id].kind # "question"
  BY <1>5, <1>6, <1>14
<1>16. base[c.id] # Absent /\ base[c.id].kind = "question"
  <2>1. Asserts(lines, c.id) # {}
    BY <1>4 DEF LastOf
  <2>2. base[c.id] # Absent
    BY <1>6, <1>9, <2>1 DEF Means
  <2> QED BY <1>1, <1>6, <1>14, <2>2
<1>17. Answers(base, half, whole, a.id, c.id)
  BY <1>6, <1>9, <1>10, <1>13, <1>15, <1>16 DEF Answers
<1>18. Builds(base) /\ Builds(whole)
  BY <1>3 DEF base, whole
<1>19. Builds(half)
  BY <1>17, <1>18, HalfAnAnswerBuilds
<1> QED BY <1>19 DEF half, more, a

\* The next line of a batch alone on its log.
LEMMA NextLineBuilds ==
    ASSUME IInv, BatchInv, NEW w \in Writers, act[w].pc = "append",
           Uncontended(w), ~ TakesAQuestionsId(w), Builds(Fold(log))
    PROVE  Builds(Fold(Append(log, NextLine(w))))
<1> DEFINE x == act[w]
           b == x.batch
<1>1. /\ x.pc = "append" /\ Alone(x, log) /\ Len(log) = x.read + x.landed /\ log \in Seq(LineOf)
      /\ b \in Seq(LineOf) /\ x.landed + 1 \in 1..Len(b) /\ NextLine(w) = b[x.landed + 1]
  BY NextLineIsSafe DEF IInv, BatchInv, Uncontended, NextLine
<1>2. CASE x.landed = 0 /\ On(x, log)
  <2>1. Builds(Fold(log \o b)) /\ NextLine(w) = b[1]
    BY <1>1, <1>2 DEF On
  <2>2. CASE Len(b) = 1
    BY <1>1, <2>1, <2>2, BatchIsAppended
  <2>3. CASE Corrects(b)
    <3>1. b[1] \in LineOf /\ b[1].op = "withdraw"
      <4>1. 1 \in 1..Len(b) /\ b[1].op = "withdraw"
        BY <2>3 DEF Corrects
      <4> QED BY <1>1, <4>1, ElementOfSeq
    <3>2. SameDoc(Fold(log), Fold(Append(log, b[1])))
      BY <1>1, <3>1, WithdrawingKeepsTheRest
    <3> QED BY <2>1, <3>2, StatusDecidesNothing
  <2>4. CASE x.op = "answer" /\ AnswersOn(b, log)
    <3>1. LastFields(log, b[1].id) # Absent => LastFields(log, b[1].id).kind # "question"
      BY <1>2, <2>1, <2>4 DEF TakesAQuestionsId
    <3> QED BY <1>1, <2>1, <2>4, <3>1, AnswerAloneBuilds
  <2> QED BY <1>2, <2>2, <2>3, <2>4 DEF On
<1>3. ASSUME x.landed = 1, NEW base \in Seq(LineOf), log = Append(base, b[1]), On(x, base)
      PROVE  Builds(Fold(Append(log, NextLine(w))))
  <2>1. Len(b) = 2
    <3>1. Len(b) = 1 \/ Len(b) = 2
      BY <1>3 DEF On, Corrects, AnswersOn
    <3> QED BY <1>1, <1>3, <3>1
  <2>2. Builds(Fold(base \o b)) /\ NextLine(w) = b[2]
    BY <1>1, <1>3 DEF On
  <2>3. base \o b = Append(log, b[2])
    BY <1>1, <1>3, <2>1, BatchIsAppended
  <2> QED BY <2>2, <2>3
<1> QED BY <1>1, <1>2, <1>3 DEF Alone

\* A step in which w moves and the log grows is w's append.
LEMMA WhoAppends ==
    ASSUME IInv, [Next]_vars, NEW w \in Writers, act[w].pc = "append", act'[w] # act[w], log' # log
    PROVE  log' = Append(log, NextLine(w))
<1>1. PICK v \in Writers : AppendLine(v) \/ AppendFails(v)
  <2>1. \A v \in Writers : Operation(v) => log' = log
    BY DEF Operation, AssertFact, Withdraw, Retire, Correct, AnswerQuestion, Amend, Prepare
  <2>2. \A v \in Writers : Stamp(v) \/ Check(v) \/ Crash(v) => log' = log
    BY DEF Stamp, Check, Crash
  <2>3. Tick \/ UNCHANGED vars => log' = log
    BY DEF Tick, vars
  <2> QED BY <2>1, <2>2, <2>3 DEF Next
<1>2. \E x : act' = [act EXCEPT ![v] = x]
  BY <1>1 DEF AppendLine, AppendFails, Return
<1>3. v = w
  BY <1>2 DEF IInv
<1>4. CASE AppendLine(w)
  BY <1>4 DEF AppendLine
<1>5. CASE AppendFails(w)
  BY <1>5, FailedAppend
<1> QED BY <1>1, <1>3, <1>4, <1>5

\* Apply appends a batch "only if the resulting graph builds": one that meets nobody
\* keeps a log that loads one that loads, after every line of it, whatever ids and facts
\* it is of, unless it answers a question under an id that is a question's
\* (EveryUncontendedWriteBuilds).
THEOREM UncontendedIsSafe == Spec => UncontendedWriteBuilds
<1>1. ASSUME IInv, BatchInv, [Next]_vars
      PROVE  [ \A w \in Writers :
                 /\ act[w].pc = "append" /\ act'[w] # act[w] /\ log' # log
                 /\ Uncontended(w)
                 /\ ~ TakesAQuestionsId(w)
                 /\ Loads(log)
                 => Loads(log') ]_vars
  <2> SUFFICES ASSUME NEW w \in Writers, act[w].pc = "append", act'[w] # act[w], log' # log,
                      Uncontended(w), ~ TakesAQuestionsId(w), Builds(Fold(log))
               PROVE  Builds(Fold(log'))
    BY DEF Loads
  <2>1. log' = Append(log, NextLine(w))
    BY <1>1, WhoAppends
  <2>2. Builds(Fold(Append(log, NextLine(w))))
    BY <1>1, NextLineBuilds
  <2> QED BY <2>1, <2>2
<1> QED BY <1>1, BatchInvariance, PTL DEF Spec, UncontendedWriteBuilds

-----------------------------------------------------------------------------
(* Corrections. *)

\* A withdrawal and, a second later, a replacement, after the last word on either.
LEMMA CorrectionIsLast ==
    ASSUME NEW base \in Seq(LineOf), NEW batch \in Seq(LineOf), Corrects(batch),
           NEW lines, lines = Append(base, batch[1]), NEW more, more = Append(lines, batch[2]),
           \A k \in 1..Len(lines) :
               lines[k].id \in {batch[1].id, batch[2].id} => lines[k].at <= batch[1].at
    PROVE  /\ ~ LiveOpen(Fold(more), batch[1].id)
           /\ Fold(more)[batch[2].id].supersedes = batch[1].id
<1> DEFINE b == batch[1]
           c == batch[2]
           n == Len(lines)
<1>1. /\ b.op = "withdraw" /\ c.op = "assert" /\ c.id # b.id /\ c.fields.supersedes = b.id
      /\ c.at = b.at + 1
  BY DEF Corrects, CorrectionLead
<1>2. b \in LineOf /\ c \in LineOf
  <2>1. 1 \in 1..Len(batch) /\ 2 \in 1..Len(batch)
    BY DEF Corrects
  <2> QED BY <2>1, ElementOfSeq
<1>3. b.id \in Ids /\ c.id \in Ids /\ b.at \in Nat /\ c.at \in Nat
  <2> HIDE DEF Fields, b, c
  <2> QED BY <1>2 DEF LineOf
<1>4. \A k \in 1..n : lines[k].id \in {b.id, c.id} => lines[k].at <= b.at
  OBVIOUS
<1> HIDE DEF b, c
<1>5. lines \in Seq(LineOf) /\ n \in 1..n /\ lines[n] = b
  BY <1>2, OneLineMore DEF b
<1> HIDE DEF n
<1>6. /\ more \in Seq(LineOf) /\ n \in Nat /\ Len(more) = n + 1 /\ more[n + 1] = c
      /\ \A i \in 1..n : i \in 1..Len(more) /\ more[i] = lines[i]
      /\ \A i \in 1..Len(more) : i \in 1..n \/ i = n + 1
      /\ n + 1 \in 1..Len(more)
  BY <1>2, <1>5, OneLineMore DEF n, c
<1>7. Stamped(more) /\ \A i \in 1..Len(more) : more[i].at \in Nat
  BY <1>6, LinesOfOpsAreLawful DEF Stamped
<1>8. Means(more, b.id, Fold(more)[b.id]) /\ Means(more, c.id, Fold(more)[c.id])
  BY <1>3, <1>6, FoldMeans, LinesOfOpsAreLawful
<1>9. ~ LiveOpen(Fold(more), b.id)
  <2> DEFINE y == Fold(more)[b.id]
             T == Asserts(more, b.id)
  <2> SUFFICES ASSUME y # Absent PROVE y.status = "withdrawn"
    BY DEF LiveOpen
  <2>1. Means(more, b.id, y)
    BY <1>8
  <2> HIDE DEF y
  <2>2. T # {}
    BY <2>1 DEF Means
  <2>3. T = {i \in 1..Len(more) : more[i].id = b.id /\ more[i].op = "assert"}
    BY DEF Asserts
  <2> HIDE DEF T
  <2>4. PICK k : LastOf(more, T, k)
    BY <1>7, <2>2, <2>3, OneIsLast
  <2>5. k \in 1..Len(more) /\ more[k].id = b.id /\ more[k].op = "assert"
    BY <2>3, <2>4 DEF LastOf
  <2>6. k \in 1..n /\ more[k] = lines[k] /\ k # n /\ more[n] = b /\ n \in 1..Len(more)
    BY <1>1, <1>5, <1>6, <2>5
  <2>7. more[k].at <= b.at /\ k < n
    BY <1>4, <1>6, <2>5, <2>6
  <2>8. Before(more, k, n)
    BY <1>3, <1>6, <1>7, <2>5, <2>6, <2>7 DEF Before
  <2>9. n \in Since(more, k, b.id, "withdraw")
    BY <1>1, <2>6, <2>8 DEF Since, IsOf
  <2>10. NodeOf(more, k, b.id, y)
    BY <2>1, <2>4 DEF Means, T
  <2> QED BY <2>9, <2>10 DEF NodeOf
<1>10. Fold(more)[c.id].supersedes = b.id
  <2> DEFINE y == Fold(more)[c.id]
             T == Asserts(more, c.id)
  <2>1. Means(more, c.id, y)
    BY <1>8
  <2> HIDE DEF y
  <2>2. T = {i \in 1..Len(more) : more[i].id = c.id /\ more[i].op = "assert"}
    BY DEF Asserts
  <2> HIDE DEF T
  <2>3. ASSUME NEW i \in T PROVE ~ Before(more, n + 1, i)
    <3>1. i \in 1..Len(more) /\ more[i].id = c.id
      BY <2>2
    <3>2. CASE i = n + 1
      BY <1>6, <1>7, <3>2 DEF Before
    <3>3. CASE i \in 1..n
      <4>0. more[i] = lines[i] /\ lines[i].id \in {b.id, c.id}
        BY <1>6, <3>1, <3>3
      <4>1. more[i].at <= b.at /\ more[i].at \in Nat
        BY <1>4, <1>7, <3>1, <3>3, <4>0
      <4>2. more[n + 1].at = b.at + 1
        BY <1>1, <1>6
      <4> DEFINE early == more[i].at
                 late == more[n + 1].at
                 then == b.at
      <4>3. early <= then /\ early \in Nat /\ then \in Nat /\ late = then + 1
        BY <1>3, <4>1, <4>2
      <4> HIDE DEF early, late, then
      <4>4. ~ (late < early) /\ late # early
        BY <4>3
      <4> QED BY <4>4 DEF Before, early, late
    <3> QED BY <1>6, <3>1, <3>2, <3>3
  <2>4. LastOf(more, T, n + 1)
    BY <1>1, <1>6, <2>2, <2>3 DEF LastOf
  <2>5. NodeOf(more, n + 1, c.id, y)
    BY <2>1, <2>4 DEF Means, T
  <2> QED BY <1>1, <1>6, <2>5 DEF NodeOf, y
<1> QED BY <1>9, <1>10 DEF b, c

\* A correction that is acknowledged, that nobody came between and that is the last
\* word on both of its ids, takes effect.
THEOREM SettledCorrections == Spec => SettledCorrectionTakesEffect
<1>1. ASSUME IInv, BatchInv, [Next]_vars
      PROVE  [ \A w \in Writers :
                 /\ Done(w, "correct")
                 /\ Uncontended(w)
                 /\ \A k \in 1..Len(log) : log[k].id \in {OldOf(w), NewOf(w)} =>
                        log[k].at <= act[w].batch[1].at
                 => /\ ~ LiveOpen(Fold(log'), OldOf(w))
                    /\ Fold(log')[NewOf(w)].supersedes = OldOf(w) ]_vars
  <2> SUFFICES ASSUME NEW w \in Writers, Done(w, "correct"), Uncontended(w),
                      \A k \in 1..Len(log) : log[k].id \in {OldOf(w), NewOf(w)} =>
                          log[k].at <= act[w].batch[1].at
               PROVE  /\ ~ LiveOpen(Fold(log'), OldOf(w))
                      /\ Fold(log')[NewOf(w)].supersedes = OldOf(w)
    OBVIOUS
  <2> DEFINE x == act[w]
             b == x.batch
  <2>1. /\ x.op = "correct" /\ x.pc = "append" /\ x.landed + 1 = Len(b)
        /\ log' = Append(log, b[x.landed + 1])
    BY <1>1, WhoAppends DEF Done, LastLine, NextLine
  <2>2. Alone(x, log) /\ Len(log) = x.read + x.landed /\ b \in Seq(LineOf) /\ x.landed \in Nat
    BY <1>1, <2>1, NextLineIsSafe DEF BatchInv, Uncontended
  <2>3. \A base : On(x, base) => Corrects(b) /\ x.landed = 1
    <3>1. \A base : On(x, base) => Corrects(b)
      BY <2>1 DEF On
    <3>2. Corrects(b) => x.landed = 1
      BY <2>1, <2>2 DEF Corrects
    <3> QED BY <3>1, <3>2
  <2>4. PICK base \in Seq(LineOf) : log = Append(base, b[1]) /\ On(x, base)
    BY <2>1, <2>2, <2>3 DEF Alone
  <2>5. Corrects(b) /\ log' = Append(log, b[2])
    BY <2>1, <2>3, <2>4
  <2> QED BY <2>2, <2>4, <2>5, CorrectionIsLast DEF OldOf, NewOf
<1> QED BY <1>1, BatchInvariance, PTL DEF Spec, SettledCorrectionTakesEffect
=============================================================================
