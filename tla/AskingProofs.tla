---------------------------- MODULE AskingProofs ----------------------------
(***************************************************************************)
(* What QueryCheck's run checks on the graphs of its corpora, for any      *)
(* corpora, queries, named queries and clocks.  Each recursive function of *)
(* the model (InOrder, Sorted, HopTargets, Walk, ResolvedDates,            *)
(* Evaluations, Meanings, Complements) is first shown to satisfy its own   *)
(* equation, by CorpusProofs' Recursion or by counting, and an answer is   *)
(* then what its query describes by an induction over the queries' parts.  *)
(***************************************************************************)
EXTENDS QueryCheck, CorpusProofs

-----------------------------------------------------------------------------
(* Hops. *)

\* More(near, found): some ids and those near them.  A function that goes on until
\* there are no more.
More(near, found) == found \cup (UNION {near[x] : x \in found})
Spreads(near, spread) ==
    /\ near \in [Ids -> SUBSET Ids]
    /\ \A found \in SUBSET Ids :
          spread[found] = IF More(near, found) = found THEN found ELSE spread[More(near, found)]

LEMMA MoreIsMore ==
    ASSUME NEW near \in [Ids -> SUBSET Ids], NEW found \in SUBSET Ids
    PROVE  /\ More(near, found) \in SUBSET Ids /\ found \subseteq More(near, found)
           /\ More(near, found) # found =>
                 Cardinality(Ids \ More(near, found)) < Cardinality(Ids \ found)
<1>1. More(near, found) \in SUBSET Ids /\ found \subseteq More(near, found)
  BY DEF More
<1> QED BY <1>1, Room

\* There is such a function.
LEMMA SpreadExists ==
    ASSUME NEW near \in [Ids -> SUBSET Ids]
    PROVE  \E f : f = [found \in SUBSET Ids |->
                          IF More(near, found) = found THEN found ELSE f[More(near, found)]]
<1> DEFINE D == SUBSET Ids
           Body(f, s) == IF More(near, s) = s THEN s ELSE f[More(near, s)]
           rank == [s \in D |-> Cardinality(Ids \ s)]
           F == [s \in D |-> [f \in [D -> D] |-> Body(f, s)]]
           top == Cardinality(Ids) + 1
<1>1. rank \in [D -> Nat] /\ top \in Nat /\ \A s \in D : rank[s] < top
  <2>1. /\ Cardinality(Ids) \in Nat
        /\ \A s \in D : Cardinality(Ids \ s) \in Nat /\ Cardinality(Ids \ s) <= Cardinality(Ids)
    BY Room
  <2> HIDE DEF D
  <2> QED BY <2>1
<1>2. ASSUME NEW s \in D, NEW f \in [D -> D] PROVE F[s][f] = Body(f, s) /\ Body(f, s) \in D
  <2>1. Body(f, s) \in D
    BY MoreIsMore
  <2> HIDE DEF Body
  <2> QED BY <2>1
<1>3. ASSUME NEW s \in D, NEW f \in [D -> D], NEW h \in [D -> D],
             \A t \in D : rank[t] < rank[s] => f[t] = h[t]
      PROVE  F[s][f] = F[s][h]
  <2>1. CASE More(near, s) = s
    BY <1>2, <2>1
  <2>2. CASE More(near, s) # s
    <3>1. More(near, s) \in D /\ Cardinality(Ids \ More(near, s)) < Cardinality(Ids \ s)
      BY <2>2, MoreIsMore
    <3>2. f[More(near, s)] = h[More(near, s)]
      BY <1>3, <3>1
    <3> QED BY <1>2, <2>2, <3>2
  <2> QED BY <2>1, <2>2
<1> HIDE DEF rank, top
<1>4. PICK f \in [D -> D] : \A s \in D : f[s] = F[s][f]
  <2>1. {} \in D /\ top \in Nat
    BY <1>1
  <2>2. \A s \in D : \A f \in [D -> D] : F[s][f] \in D
    BY <1>2
  <2>3. \A s \in D : \A f, h \in [D -> D] :
           (\A t \in D : rank[t] < rank[s] => f[t] = h[t]) => F[s][f] = F[s][h]
    <3> HIDE DEF D, F
    <3> QED BY <1>3
  <2> HIDE DEF D, F
  <2>4. Recursive(D, D, rank, top, F)
    BY <1>1, <2>2, <2>3 DEF Recursive
  <2> QED BY <2>1, <2>4, Recursion
<1>5. \A s \in D : f[s] = Body(f, s)
  BY <1>2, <1>4
<1>6. f = [s \in D |-> Body(f, s)]
  <2> HIDE DEF Body, D
  <2> QED BY <1>5
<1> QED BY <1>6

LEMMA SpreadIsLeast ==
    ASSUME NEW near, NEW spread, Spreads(near, spread), NEW found \in SUBSET Ids
    PROVE  /\ spread[found] \in SUBSET Ids /\ found \subseteq spread[found]
           /\ \A x \in spread[found] : near[x] \subseteq spread[found]
           /\ \A T \in SUBSET Ids :
                 found \subseteq T /\ (\A x \in T : near[x] \subseteq T) => spread[found] \subseteq T
<1> DEFINE Least(s) ==
              /\ spread[s] \in SUBSET Ids /\ s \subseteq spread[s]
              /\ \A x \in spread[s] : near[x] \subseteq spread[s]
              /\ \A T \in SUBSET Ids :
                    s \subseteq T /\ (\A x \in T : near[x] \subseteq T) => spread[s] \subseteq T
           S == {n \in Nat : \A s \in SUBSET Ids : Cardinality(Ids \ s) < n => Least(s)}
<1>1. 0 \in S
  <2>1. \A s \in SUBSET Ids : Cardinality(Ids \ s) \in Nat
    BY Room
  <2>2. \A s \in SUBSET Ids : ~ (Cardinality(Ids \ s) < 0)
    BY <2>1
  <2> HIDE DEF Least
  <2> QED BY <2>2
<1>2. ASSUME NEW n \in S PROVE n + 1 \in S
  <2> SUFFICES ASSUME NEW s \in SUBSET Ids, Cardinality(Ids \ s) < n + 1
               PROVE  Least(s)
    <3> HIDE DEF Least
    <3> QED OBVIOUS
  <2> DEFINE m == More(near, s)
  <2>1. /\ m \in SUBSET Ids /\ s \subseteq m
        /\ spread[s] = IF m = s THEN s ELSE spread[m]
        /\ m # s => Cardinality(Ids \ m) < Cardinality(Ids \ s)
    BY MoreIsMore DEF Spreads
  <2>2. CASE m = s
    <3>1. spread[s] = s
      BY <2>1, <2>2
    <3>2. \A x \in s : near[x] \subseteq s
      BY <2>2 DEF More
    <3> QED BY <3>1, <3>2
  <2>3. CASE m # s
    <3>1. Cardinality(Ids \ m) < n
      <4>1. /\ Cardinality(Ids \ m) \in Nat /\ Cardinality(Ids \ s) \in Nat /\ n \in Nat
            /\ Cardinality(Ids \ m) < Cardinality(Ids \ s)
        <5> HIDE DEF m, Least
        <5> QED BY <2>1, <2>3, Room
      <4> HIDE DEF m
      <4> QED BY <4>1
    <3>2. Least(m)
      <4> HIDE DEF Least, m
      <4> QED BY <2>1, <3>1
    <3>3. spread[s] = spread[m]
      BY <2>1, <2>3
    <3>4. ASSUME NEW T \in SUBSET Ids, s \subseteq T, \A x \in T : near[x] \subseteq T
          PROVE  m \subseteq T
      BY <3>4 DEF More
    <3> HIDE DEF m
    <3> QED BY <2>1, <3>2, <3>3, <3>4
  <2> QED BY <2>2, <2>3
<1>3. S = Nat
  <2>1. S \in SUBSET Nat
    OBVIOUS
  <2> HIDE DEF S
  <2> QED BY <1>1, <1>2, <2>1, Induction
<1>4. Least(found)
  <2>1. Cardinality(Ids \ found) \in Nat
    BY Room
  <2>2. Cardinality(Ids \ found) + 1 \in S
    <3> HIDE DEF S
    <3> QED BY <1>3, <2>1
  <2>3. Cardinality(Ids \ found) < Cardinality(Ids \ found) + 1
    BY <2>1
  <2> HIDE DEF Least
  <2> QED BY <2>2, <2>3
<1> QED BY <1>4

\* The pairs of nodes a hop leads from and to in one step.
HopPairs(g, h, at) ==
    LET live == {e \in g.incident : e.type = h.type /\ EdgeLive(g, e, at)}
        forward == {<<e.src, e.dst>> : e \in live}
        backward == {<<e.dst, e.src>> : e \in live}
    IN  CASE h.dir = 1 -> forward [] h.dir = -1 -> backward [] h.dir = 0 -> forward \cup backward

LEMMA StepsAreJoined ==
    ASSUME NEW g, Whole(g), NEW h, h.dir \in {-1, 0, 1}, NEW at
    PROVE  /\ \A x, y : y \in Step(g, x, h, at) <=> <<x, y>> \in HopPairs(g, h, at)
           /\ \A p \in HopPairs(g, h, at) : /\ p = <<p[1], p[2]>>
                                          /\ p[1] \in DOMAIN g.nodes /\ p[2] \in DOMAIN g.nodes
<1> DEFINE live == {e \in g.incident : e.type = h.type /\ EdgeLive(g, e, at)}
           forward == {<<e.src, e.dst>> : e \in live}
           backward == {<<e.dst, e.src>> : e \in live}
<1>1. \A x, y : y \in Step(g, x, h, at) <=>
         \E e \in live : \/ h.dir >= 0 /\ e.src = x /\ y = e.dst
                         \/ h.dir <= 0 /\ e.dst = x /\ (h.dir < 0 \/ e.src # x) /\ y = e.src
  BY DEF Step
<1>2. /\ h.dir = 1 => HopPairs(g, h, at) = forward
      /\ h.dir = -1 => HopPairs(g, h, at) = backward
      /\ h.dir = 0 => HopPairs(g, h, at) = forward \cup backward
  BY DEF HopPairs
<1>3. \A e \in live : e.src \in DOMAIN g.nodes /\ e.dst \in DOMAIN g.nodes
  BY DEF Whole
<1> HIDE DEF live
<1>4. \A x, y : /\ <<x, y>> \in forward <=> \E e \in live : e.src = x /\ e.dst = y
                /\ <<x, y>> \in backward <=> \E e \in live : e.dst = x /\ e.src = y
  OBVIOUS
<1>5. \A p \in forward \cup backward : /\ p = <<p[1], p[2]>>
                                       /\ p[1] \in DOMAIN g.nodes /\ p[2] \in DOMAIN g.nodes
  BY <1>3
<1> HIDE DEF forward, backward
<1>6. CASE h.dir = 1
  BY <1>1, <1>2, <1>4, <1>5, <1>6
<1>7. CASE h.dir = -1
  BY <1>1, <1>2, <1>4, <1>5, <1>7
<1>8. CASE h.dir = 0
  BY <1>1, <1>2, <1>4, <1>5, <1>8
<1> QED BY <1>6, <1>7, <1>8

\* A hop leads just to the nodes that it relates one to.
LEMMA HopsAreRelated ==
    ASSUME NEW g, Whole(g), NEW x \in DOMAIN g.nodes, NEW h, h.dir \in {-1, 0, 1}, NEW at
    PROVE  \A y : y \in HopTargets(g, x, h, at) <=> y \in DOMAIN g.nodes /\ <<x, y>> \in Related(g, h, at)
<1> DEFINE pairs == HopPairs(g, h, at)
           here == DOMAIN g.nodes
<1>1. /\ \A u, y : y \in Step(g, u, h, at) <=> <<u, y>> \in pairs
      /\ \A p \in pairs : p = <<p[1], p[2]>> /\ p[1] \in here /\ p[2] \in here
  BY StepsAreJoined
<1>2. /\ h.star => Related(g, h, at) = UNION {{u} \X Reached(pairs, here, u) : u \in here}
      /\ ~ h.star => Related(g, h, at) = pairs
  BY DEF Related, HopPairs
<1>3. here \subseteq Ids /\ x \in here
  BY DEF Whole
<1> HIDE DEF pairs, here
<1>0. \A u, y : <<u, y>> \in pairs => u \in here /\ y \in here
  <2> SUFFICES ASSUME NEW u, NEW y, <<u, y>> \in pairs PROVE u \in here /\ y \in here
    OBVIOUS
  <2> DEFINE p == <<u, y>>
  <2>1. p[1] \in here /\ p[2] \in here
    BY <1>1, Zenon
  <2> QED BY <2>1
<1>6. \A u, y : y \in Step(g, u, h, at) => y \in here
  BY <1>0, <1>1
<1>4. CASE ~ h.star
  <2>1. HopTargets(g, x, h, at) = Step(g, x, h, at)
    BY <1>4 DEF HopTargets
  <2>2. Related(g, h, at) = pairs
    BY <1>2, <1>4
  <2>3. \A y : y \in Step(g, x, h, at) <=> <<x, y>> \in pairs
    BY <1>1
  <2> QED BY <1>0, <2>1, <2>2, <2>3 DEF here
<1>5. CASE h.star
  <2> DEFINE near == [u \in Ids |-> Step(g, u, h, at)]
             Is(f) == f = [found \in SUBSET Ids |->
                             LET more == found \cup UNION {Step(g, u, h, at) : u \in found}
                             IN  IF more = found THEN found ELSE f[more]]
             reach == CHOOSE f : Is(f)
             first == Step(g, x, h, at)
  <2>1. near \in [Ids -> SUBSET Ids] /\ \A u \in Ids : near[u] = Step(g, u, h, at)
    <3>1. \A u \in Ids : Step(g, u, h, at) \in SUBSET Ids
      BY <1>3, <1>6
    <3> QED BY <3>1
  <2>2. \A found \in SUBSET Ids :
           More(near, found) = found \cup UNION {Step(g, u, h, at) : u \in found}
    BY DEF More
  <2> HIDE DEF near
  <2>3. PICK f : f = [found \in SUBSET Ids |->
                         IF More(near, found) = found THEN found ELSE f[More(near, found)]]
    BY <2>1, SpreadExists
  <2>4. Is(f)
    BY <2>2, <2>3
  <2>5. Is(reach)
    <3> HIDE DEF Is
    <3> QED BY <2>4
  <2>6. HopTargets(g, x, h, at) = reach[first]
    BY <1>5 DEF HopTargets
  <2> HIDE DEF reach
  <2>7. Spreads(near, reach)
    BY <2>1, <2>2, <2>5 DEF Spreads
  <2>8. x \in Ids /\ first = near[x] /\ first \in SUBSET Ids
    BY <1>3, <2>1
  <2> DEFINE found == reach[first]
  <2>9. /\ found \in SUBSET Ids /\ first \subseteq found
        /\ \A u \in found : near[u] \subseteq found
        /\ \A T \in SUBSET Ids :
              first \subseteq T /\ (\A u \in T : near[u] \subseteq T) => found \subseteq T
    <3> HIDE DEF first
    <3> QED BY <2>7, <2>8, SpreadIsLeast
  <2> HIDE DEF found
  <2>10. found \subseteq here
    <3>1. \A u \in here : near[u] \subseteq here
      BY <1>3, <1>6, <2>1
    <3>2. first \subseteq here
      BY <1>6
    <3> QED BY <1>3, <2>9, <3>1, <3>2
  <2>11. found \subseteq Reached(pairs, here, x)
    <3> SUFFICES ASSUME NEW T \in SUBSET here, \A p \in pairs : p[1] \in T \cup {x} => p[2] \in T
                 PROVE  found \subseteq T
      BY <2>10 DEF Reached
    <3>0. \A u, y : y \in Step(g, u, h, at) /\ u \in T \cup {x} => y \in T
      <4> SUFFICES ASSUME NEW u \in T \cup {x}, NEW y, <<u, y>> \in pairs PROVE y \in T
        BY <1>1
      <4> DEFINE p == <<u, y>>
      <4>1. p[1] = u /\ p[2] = y /\ p \in pairs
        OBVIOUS
      <4> HIDE DEF p
      <4> QED BY <4>1
    <3>1. first \subseteq T
      BY <3>0
    <3>2. \A u \in T : near[u] \subseteq T
      BY <1>3, <2>1, <3>0
    <3> QED BY <1>3, <2>9, <3>1, <3>2
  <2>12. Reached(pairs, here, x) \subseteq found
    <3>1. \A p \in pairs : p[1] \in found \cup {x} => p[2] \in found
      <4> TAKE p \in pairs
      <4>1. p[2] \in Step(g, p[1], h, at) /\ p[1] \in Ids
        BY <1>1, <1>3
      <4>2. p[1] = x => p[2] \in first
        BY <4>1
      <4>3. p[1] \in found => p[2] \in near[p[1]]
        BY <2>1, <4>1
      <4> HIDE DEF first
      <4> QED BY <2>9, <4>2, <4>3
    <3> QED BY <2>10, <3>1 DEF Reached
  <2>13. \A y : <<x, y>> \in Related(g, h, at) <=> y \in Reached(pairs, here, x)
    <3> DEFINE R(u) == Reached(pairs, here, u)
    <3>1. Related(g, h, at) = UNION {{u} \X R(u) : u \in here}
      BY <1>2, <1>5
    <3> HIDE DEF R
    <3>2. \A y : <<x, y>> \in UNION {{u} \X R(u) : u \in here} <=> y \in R(x)
      BY <1>3
    <3> QED BY <3>1, <3>2 DEF R
  <2>14. Reached(pairs, here, x) \subseteq here
    BY DEF Reached
  <2> QED BY <2>6, <2>11, <2>12, <2>13, <2>14 DEF found, here
<1> QED BY <1>4, <1>5

\* What is come to, hop by hop: the nodes that a path of that many hops ends in.
Followed(after, N, S, s, A, R) ==
    /\ N \in Nat /\ s \in S
    /\ \A i \in 0..N : after[i] = IF i = 0 THEN {s}
                                  ELSE {y \in S : y \in A[i + 1] /\ \E x \in after[i - 1] : <<x, y>> \in R[i]}
Leads(path, n, S, s, A, R) ==
    /\ path \in [1..(n + 1) -> S] /\ path[1] = s
    /\ \A k \in 2..(n + 1) : path[k] \in A[k]
    /\ \A k \in 1..n : <<path[k], path[k + 1]>> \in R[k]

LEMMA PathsAreFollowed ==
    ASSUME NEW after, NEW N, NEW S, NEW s, NEW A, NEW R, Followed(after, N, S, s, A, R)
    PROVE  after[N] # {} <=> \E path \in [1..(N + 1) -> S] : Leads(path, N, S, s, A, R)
<1>0. N \in Nat /\ s \in S /\ 0 \in 0..N
  BY DEF Followed
<1>1. \A i \in 0..N : /\ i = 0 => after[i] = {s}
                      /\ i # 0 => after[i] = {y \in S : y \in A[i + 1] /\ \E x \in after[i - 1] : <<x, y>> \in R[i]}
  BY DEF Followed
<1>2. ASSUME NEW y \in after[N]
      PROVE  \E path \in [1..(N + 1) -> S] : Leads(path, N, S, s, A, R)
  <2> DEFINE T == {n \in Nat : n <= N => \A z \in after[n] : \E path \in [1..(n + 1) -> S] :
                        path[n + 1] = z /\ Leads(path, n, S, s, A, R)}
  <2>1. 0 \in T
    <3> DEFINE path == [k \in 1..1 |-> s]
    <3>1. path \in [1..1 -> S] /\ path[1] = s
      BY <1>0
    <3>2. Leads(path, 0, S, s, A, R)
      <4>1. 0 + 1 = 1 /\ 2..1 = {} /\ 1..0 = {}
        OBVIOUS
      <4> HIDE DEF path
      <4> QED BY <3>1, <4>1 DEF Leads
    <3>3. \A z \in after[0] : z = s
      BY <1>0, <1>1
    <3>4. 0 + 1 = 1
      OBVIOUS
    <3> HIDE DEF path
    <3> QED BY <3>1, <3>2, <3>3, <3>4
  <2>2. ASSUME NEW n \in T PROVE n + 1 \in T
    <3> SUFFICES ASSUME n + 1 <= N, NEW z \in after[n + 1]
                 PROVE  \E path \in [1..((n + 1) + 1) -> S] :
                           path[(n + 1) + 1] = z /\ Leads(path, n + 1, S, s, A, R)
      OBVIOUS
    <3>1. n \in Nat /\ n + 1 \in 0..N /\ n + 1 # 0 /\ n <= N /\ (n + 1) - 1 = n
      BY <1>0
    <3>2. after[n + 1] = {u \in S : u \in A[(n + 1) + 1] /\ \E x \in after[n] : <<x, u>> \in R[n + 1]}
      BY <1>1, <3>1
    <3>3. PICK x \in after[n] : <<x, z>> \in R[n + 1]
      BY <3>2
    <3>4. z \in S /\ z \in A[(n + 1) + 1]
      BY <3>2
    <3>5. PICK p \in [1..(n + 1) -> S] : p[n + 1] = x /\ Leads(p, n, S, s, A, R)
      BY <3>1
    <3> DEFINE m == (n + 1) + 1
               q == [k \in 1..m |-> IF k = m THEN z ELSE p[k]]
    <3>6. \A k \in 1..m : k # m => k \in 1..(n + 1)
      BY <3>1
    <3>7. q \in [1..m -> S]
      BY <3>4, <3>5, <3>6
    <3>8. q[m] = z /\ \A k \in 1..(n + 1) : q[k] = p[k]
      BY <3>1
    <3> HIDE DEF q
    <3>9. q[1] = s
      BY <3>1, <3>5, <3>8 DEF Leads
    <3>10. ASSUME NEW k \in 2..m PROVE q[k] \in A[k]
      <4>1. CASE k = m
        BY <3>4, <3>8, <4>1
      <4>2. CASE k # m
        <5>1. k \in 2..(n + 1) /\ k \in 1..(n + 1)
          BY <3>1, <4>2
        <5> QED BY <3>5, <3>8, <5>1 DEF Leads
      <4> QED BY <4>1, <4>2
    <3>11. ASSUME NEW k \in 1..(n + 1) PROVE <<q[k], q[k + 1]>> \in R[k]
      <4>1. CASE k = n + 1
        <5>1. q[k] = x /\ q[k + 1] = z
          BY <3>5, <3>8, <4>1
        <5> QED BY <3>3, <4>1, <5>1
      <4>2. CASE k # n + 1
        <5>1. k \in 1..n /\ k + 1 \in 1..(n + 1)
          BY <3>1, <4>2
        <5> QED BY <3>5, <3>8, <5>1 DEF Leads
      <4> QED BY <4>1, <4>2
    <3>12. Leads(q, n + 1, S, s, A, R)
      BY <3>7, <3>9, <3>10, <3>11 DEF Leads
    <3> QED BY <3>7, <3>8, <3>12
  <2>3. T = Nat
    <3>1. T \in SUBSET Nat
      OBVIOUS
    <3> HIDE DEF T
    <3> QED BY <2>1, <2>2, <3>1, Induction
  <2>4. \A n \in T : n <= N => \A z \in after[n] : \E path \in [1..(n + 1) -> S] : Leads(path, n, S, s, A, R)
    OBVIOUS
  <2>5. N <= N
    BY <1>0
  <2> HIDE DEF T
  <2> QED BY <1>0, <1>2, <2>3, <2>4, <2>5
<1>3. ASSUME NEW path \in [1..(N + 1) -> S], Leads(path, N, S, s, A, R) PROVE after[N] # {}
  <2> DEFINE T == {n \in Nat : n <= N => path[n + 1] \in after[n]}
  <2>1. 0 \in T
    <3>1. path[0 + 1] = s
      BY <1>3 DEF Leads
    <3>2. after[0] = {s}
      BY <1>0, <1>1
    <3> QED BY <3>1, <3>2
  <2>2. ASSUME NEW n \in T PROVE n + 1 \in T
    <3> SUFFICES ASSUME n + 1 <= N PROVE path[(n + 1) + 1] \in after[n + 1]
      OBVIOUS
    <3>1. n \in Nat /\ n + 1 \in 0..N /\ n + 1 # 0 /\ n <= N /\ (n + 1) - 1 = n
      BY <1>0
    <3>2. after[n + 1] = {u \in S : u \in A[(n + 1) + 1] /\ \E x \in after[n] : <<x, u>> \in R[n + 1]}
      BY <1>1, <3>1
    <3>3. path[n + 1] \in after[n]
      BY <3>1
    <3>4. (n + 1) + 1 \in 2..(N + 1) /\ (n + 1) + 1 \in 1..(N + 1) /\ n + 1 \in 1..N
      BY <1>0, <3>1
    <3>5. path[(n + 1) + 1] \in S /\ path[(n + 1) + 1] \in A[(n + 1) + 1]
          /\ <<path[n + 1], path[(n + 1) + 1]>> \in R[n + 1]
      BY <1>3, <3>4 DEF Leads
    <3> QED BY <3>2, <3>3, <3>5
  <2>3. T = Nat
    <3>1. T \in SUBSET Nat
      OBVIOUS
    <3> HIDE DEF T
    <3> QED BY <2>1, <2>2, <3>1, Induction
  <2>4. \A n \in T : n <= N => path[n + 1] \in after[n]
    OBVIOUS
  <2>5. N <= N
    BY <1>0
  <2> HIDE DEF T
  <2> QED BY <1>0, <2>3, <2>4, <2>5
<1> QED BY <1>2, <1>3

\* The search for a path finds one where there is one.
LEMMA WalksArePaths ==
    ASSUME NEW g, Whole(g), NEW p, IsPattern(p), NEW id \in DOMAIN g.nodes, NEW at, NEW now
    PROVE  MatchAtom(g, p.atoms[1], id, at, now) /\ Walk(g, p, id, at, now)
              <=> MeetsPattern(g, p, id, at, now)
<1> DEFINE N == Len(p.hops)
           S == DOMAIN g.nodes
           A == [k \in 1..(N + 1) |-> {y \in S : MatchAtom(g, p.atoms[k], y, at, now)}]
           R == [k \in 1..N |-> {xy \in S \X S : xy \in Related(g, p.hops[k], at)}]
           Then(i, from) == {to \in UNION {HopTargets(g, x, p.hops[i], at) : x \in from} :
                                MatchAtom(g, p.atoms[i + 1], to, at, now)}
           Is(f) == f = [i \in 0..N |-> IF i = 0 THEN {id} ELSE Then(i, f[i - 1])]
           after == CHOOSE f : Is(f)
           V == SUBSET S
           v == {id}
           G == [i \in 1..N |-> [from \in V |-> Then(i, from)]]
<1>0. /\ N \in Nat /\ DOMAIN p.atoms = 1..(N + 1)
      /\ \A i \in 1..N : i \in 1..N /\ i + 1 \in 1..(N + 1) /\ p.hops[i].dir \in {-1, 0, 1}
      /\ \A i \in 0..N : i # 0 => i \in 1..N /\ i - 1 \in 0..N
  BY DEF IsPattern
<1>1. ASSUME NEW i \in 1..N, NEW from \in V
      PROVE  /\ Then(i, from) \in V
             /\ Then(i, from) = {y \in S : y \in A[i + 1] /\ \E x \in from : <<x, y>> \in R[i]}
  <2> DEFINE h == p.hops[i]
  <2>1. h.dir \in {-1, 0, 1} /\ i + 1 \in 1..(N + 1)
    BY <1>0
  <2> HIDE DEF h
  <2>2. ASSUME NEW x \in from
        PROVE  \A y : y \in HopTargets(g, x, h, at) <=> y \in S /\ <<x, y>> \in Related(g, h, at)
    <3>1. x \in DOMAIN g.nodes
      OBVIOUS
    <3> QED BY <2>1, <3>1, HopsAreRelated
  <2>3. \A x \in from : \A y : y \in HopTargets(g, x, h, at) <=> y \in S /\ <<x, y>> \in R[i]
    <3>1. \A x \in S, y \in S : <<x, y>> \in R[i] <=> <<x, y>> \in Related(g, h, at)
      BY DEF h
    <3> HIDE DEF R
    <3> QED BY <2>2, <3>1
  <2>4. \A y \in S : y \in A[i + 1] <=> MatchAtom(g, p.atoms[i + 1], y, at, now)
    BY <2>1
  <2>5. \A y : y \in Then(i, from) <=>
           (\E x \in from : y \in HopTargets(g, x, h, at)) /\ MatchAtom(g, p.atoms[i + 1], y, at, now)
    BY DEF h
  <2> HIDE DEF A, R, S, Then
  <2> QED BY <2>3, <2>4, <2>5
<1> HIDE DEF Then
<1>2. Steps(N, V, v, G)
  <2>1. G \in [1..N -> [V -> V]]
    BY <1>1
  <2> QED BY <1>0, <2>1 DEF Steps
<1>3. PICK f \in [0..N -> V] : Stepped(f, N, v, G)
  <2> HIDE DEF N, V, v, G
  <2> QED BY <1>2, Counting
<1>4. ASSUME NEW i \in 0..N, i # 0, NEW from \in V PROVE G[i][from] = Then(i, from)
  BY <1>0, <1>4
<1> HIDE DEF G
<1>5. Is(f)
  <2>1. \A i \in 0..N : f[i] = IF i = 0 THEN {id} ELSE Then(i, f[i - 1])
    <3> TAKE i \in 0..N
    <3>1. f[i] = IF i = 0 THEN v ELSE G[i][f[i - 1]]
      BY <1>3 DEF Stepped
    <3>2. i # 0 => f[i - 1] \in V
      BY <1>0
    <3> HIDE DEF V
    <3> QED BY <1>4, <3>1, <3>2
  <2> QED BY <2>1
<1>6. Is(after)
  <2> HIDE DEF Is
  <2> QED BY <1>5
<1>7. Walk(g, p, id, at, now) <=> after[N] # {}
  BY DEF Walk, Then
<1> HIDE DEF after
<1>8. \A i \in 0..N : after[i] = IF i = 0 THEN {id} ELSE Then(i, after[i - 1])
  BY <1>6
<1>9. \A i \in 0..N : after[i] \in V
  <2> DEFINE T == {n \in Nat : n <= N => after[n] \in V}
  <2>1. 0 \in T
    BY <1>0, <1>8
  <2>2. ASSUME NEW n \in T PROVE n + 1 \in T
    <3> SUFFICES ASSUME n + 1 <= N PROVE after[n + 1] \in V
      OBVIOUS
    <3>1. n \in Nat /\ n + 1 \in 0..N /\ n + 1 \in 1..N /\ n + 1 # 0 /\ (n + 1) - 1 = n /\ after[n] \in V
      BY <1>0
    <3>2. after[n + 1] = Then(n + 1, after[n])
      BY <1>8, <3>1
    <3> HIDE DEF V
    <3> QED BY <1>1, <3>1, <3>2
  <2>3. T = Nat
    <3>1. T \in SUBSET Nat
      OBVIOUS
    <3> HIDE DEF T
    <3> QED BY <2>1, <2>2, <3>1, Induction
  <2> QED BY <1>0, <2>3
<1>10. Followed(after, N, S, id, A, R)
  <2>1. ASSUME NEW i \in 0..N, i # 0
        PROVE  after[i] = {y \in S : y \in A[i + 1] /\ \E x \in after[i - 1] : <<x, y>> \in R[i]}
    <3>1. i \in 1..N /\ after[i - 1] \in V
      BY <1>0, <1>9, <2>1
    <3>2. after[i] = Then(i, after[i - 1])
      BY <1>8, <2>1
    <3> HIDE DEF A, R, S, V, N
    <3> QED BY <1>1, <3>1, <3>2
  <2>2. after[0] = {id}
    BY <1>0, <1>8
  <2> HIDE DEF A, R
  <2> QED BY <1>0, <2>1, <2>2 DEF Followed
<1>11. Walk(g, p, id, at, now) <=> \E path \in [1..(N + 1) -> S] : Leads(path, N, S, id, A, R)
  <2> HIDE DEF A, R, S, N
  <2> QED BY <1>7, <1>10, PathsAreFollowed
<1>12. ASSUME NEW path \in [1..(N + 1) -> S]
       PROVE  /\ MatchAtom(g, p.atoms[1], id, at, now) /\ Leads(path, N, S, id, A, R)
                 <=> /\ path[1] = id
                     /\ \A k \in 1..(N + 1) : MatchAtom(g, p.atoms[k], path[k], at, now)
                     /\ \A k \in 1..N : <<path[k], path[k + 1]>> \in Related(g, p.hops[k], at)
  <2>1. \A k \in 1..(N + 1) : path[k] \in A[k] <=> MatchAtom(g, p.atoms[k], path[k], at, now)
    OBVIOUS
  <2>2. \A k \in 1..N : <<path[k], path[k + 1]>> \in R[k] <=> <<path[k], path[k + 1]>> \in Related(g, p.hops[k], at)
    <3> SUFFICES ASSUME NEW k \in 1..N
                 PROVE  <<path[k], path[k + 1]>> \in R[k] <=> <<path[k], path[k + 1]>> \in Related(g, p.hops[k], at)
      OBVIOUS
    <3>1. R[k] = {xy \in S \X S : xy \in Related(g, p.hops[k], at)}
      OBVIOUS
    <3>2. k \in 1..(N + 1) /\ k + 1 \in 1..(N + 1)
      BY <1>0
    <3>3. path[k] \in S /\ path[k + 1] \in S
      BY <3>2
    <3> HIDE DEF R, S
    <3> QED BY <3>1, <3>3
  <2>3. \A k : k \in 1..(N + 1) <=> k = 1 \/ k \in 2..(N + 1)
    BY <1>0
  <2> HIDE DEF A, R
  <2> QED BY <2>1, <2>2, <2>3 DEF Leads
<1>13. MeetsPattern(g, p, id, at, now) <=>
          \E path \in [1..(N + 1) -> S] :
             /\ path[1] = id
             /\ \A k \in 1..(N + 1) : MatchAtom(g, p.atoms[k], path[k], at, now)
             /\ \A k \in 1..N : <<path[k], path[k + 1]>> \in Related(g, p.hops[k], at)
  <2>1. \A path \in [1..(N + 1) -> S] : DOMAIN path = 1..(N + 1)
    OBVIOUS
  <2> QED BY <1>0, <2>1 DEF MeetsPattern
<1> HIDE DEF A, R, S, N
<1> QED BY <1>11, <1>12, <1>13

-----------------------------------------------------------------------------
(* Dates. *)

\* The days there are have dates, each another, and those of days.
LEMMA DaysHaveDates ==
    ASSUME NEW n \in Int
    PROVE  /\ DateOfDay(n) \in Int
           /\ IsDay(DateOfDay(n))
           /\ DaysBefore(DateOfDay(n) \div 10) + (DateOfDay(n) % 10) - 1 = n
<1> DEFINE q == n \div 15
           r == n % 15
           date == DateOfDay(n)
<1>1. q \in Int /\ r \in 0..14 /\ n = 15 * q + r
  OBVIOUS
<1>2. date = 20 * q + r + (IF r < 8 THEN 1 ELSE 3)
  BY DEF DateOfDay
<1> HIDE DEF q, r, date
<1>3. \A m \in Int, d \in 0..9 : (10 * m + d) \div 10 = m /\ (10 * m + d) % 10 = d
  OBVIOUS
<1>4. CASE r < 8
  <2> DEFINE m == 2 * q
  <2>1. m \in Int /\ r + 1 \in 1..8 /\ r + 1 \in 0..9 /\ date = 10 * m + (r + 1)
    BY <1>1, <1>2, <1>4
  <2>2. m % 2 = 0 /\ m \div 2 = q
    BY <1>1
  <2> HIDE DEF m
  <2>3. date \div 10 = m /\ date % 10 = r + 1
    BY <1>3, <2>1
  <2>4. MonthLength(m) = 8 /\ DaysBefore(m) = 15 * q
    BY <1>1, <2>2 DEF MonthLength, DaysBefore
  <2>5. date \in Int /\ IsDay(date)
    BY <2>1, <2>3, <2>4 DEF IsDay
  <2>6. DaysBefore(date \div 10) + (date % 10) - 1 = n
    BY <1>1, <2>3, <2>4
  <2> QED BY <2>5, <2>6 DEF date
<1>5. CASE r >= 8
  <2> DEFINE m == 2 * q + 1
  <2>1. m \in Int /\ r - 7 \in 1..7 /\ r - 7 \in 0..9 /\ date = 10 * m + (r - 7)
    BY <1>1, <1>2, <1>5
  <2>2. m % 2 = 1 /\ m \div 2 = q
    BY <1>1
  <2> HIDE DEF m
  <2>3. date \div 10 = m /\ date % 10 = r - 7
    BY <1>3, <2>1
  <2>4. MonthLength(m) = 7 /\ DaysBefore(m) = 15 * q + 8
    BY <1>1, <2>2 DEF MonthLength, DaysBefore
  <2>5. date \in Int /\ IsDay(date)
    BY <2>1, <2>3, <2>4 DEF IsDay
  <2>6. DaysBefore(date \div 10) + (date % 10) - 1 = n
    BY <1>1, <2>3, <2>4
  <2> QED BY <2>5, <2>6 DEF date
<1> QED BY <1>1, <1>4, <1>5

LEMMA DaysBeforeIsANumber == ASSUME NEW m \in Int PROVE DaysBefore(m) \in Int
BY DEF DaysBefore

\* What is added to a date is a day.
LEMMA AddedDatesAreDays ==
    ASSUME NEW d \in Int, NEW months \in Int, NEW days \in Int
    PROVE  AddDate(d, months, days) \in Int /\ IsDay(AddDate(d, months, days))
<1> DEFINE m == (d \div 10) + months
           n == DaysBefore(m) + (d % 10) - 1 + days
<1>1. m \in Int /\ d % 10 \in Int
  OBVIOUS
<1> HIDE DEF m
<1>2. n \in Int
  BY <1>1, DaysBeforeIsANumber
<1>3. AddDate(d, months, days) = DateOfDay(n)
  BY DEF AddDate, m
<1> HIDE DEF n
<1> QED BY <1>2, <1>3, DaysHaveDates

LEMMA OffsetsAreDays ==
    ASSUME NEW d \in Int, NEW term \in OffsetTerms, term.unit \in Units
    PROVE  Offset(d, term) \in Int /\ IsDay(Offset(d, term))
<1> DEFINE n == IF term.minus THEN -term.n ELSE term.n
<1>1. n \in Int /\ MonthsInYear * n \in Int /\ 0 \in Int
  BY DEF OffsetTerms, MonthsInYear
<1>2. \/ Offset(d, term) = AddDate(d, 0, n)
      \/ Offset(d, term) = AddDate(d, n, 0)
      \/ Offset(d, term) = AddDate(d, MonthsInYear * n, 0)
  BY DEF Offset, Units, AddDays
<1> HIDE DEF n
<1> QED BY <1>1, <1>2, AddedDatesAreDays

\* Offsets one after the other.
Counts(f, base, terms) == f = [n \in 0..Len(terms) |-> IF n = 0 THEN base ELSE Offset(f[n - 1], terms[n])]

LEMMA OffsetsAreCounted ==
    ASSUME NEW base \in Int, NEW terms \in Seq(OffsetTerms), \A n \in DOMAIN terms : terms[n].unit \in Units
    PROVE  \E f \in [0..Len(terms) -> Int] :
              /\ f[0] = base
              /\ \A n \in 1..Len(terms) : f[n] = Offset(f[n - 1], terms[n]) /\ IsDay(f[n])
              /\ IsDay(base) => DateAfter(base, terms) = f[Len(terms)]
<1> DEFINE N == Len(terms)
           G == [n \in 1..N |-> [d \in Int |-> Offset(d, terms[n])]]
<1>1. N \in Nat /\ DOMAIN terms = 1..N /\ \A n \in 1..N : terms[n] \in OffsetTerms /\ terms[n].unit \in Units
  OBVIOUS
<1>2. \A d \in Int, n \in 1..N : Offset(d, terms[n]) \in Int /\ IsDay(Offset(d, terms[n]))
  BY <1>1, OffsetsAreDays
<1>3. Steps(N, Int, base, G)
  BY <1>1, <1>2 DEF Steps
<1>4. PICK f \in [0..N -> Int] : Stepped(f, N, base, G)
  <2> HIDE DEF N, G
  <2> QED BY <1>3, Counting
<1>5. \A n \in 0..N : n # 0 => n \in 1..N /\ n - 1 \in 0..N
  BY <1>1
<1>6. \A n \in 0..N : f[n] = IF n = 0 THEN base ELSE Offset(f[n - 1], terms[n])
  <2>1. \A n \in 0..N : f[n] = IF n = 0 THEN base ELSE G[n][f[n - 1]]
    BY <1>4 DEF Stepped
  <2>2. \A n \in 1..N, d \in Int : G[n][d] = Offset(d, terms[n])
    OBVIOUS
  <2> HIDE DEF G, N
  <2> QED BY <1>5, <2>1, <2>2
<1>7. f = [n \in 0..N |-> IF n = 0 THEN base ELSE Offset(f[n - 1], terms[n])]
  <2> HIDE DEF N
  <2> QED BY <1>6
<1>8. Counts(f, base, terms)
  BY <1>7 DEF Counts
<1> DEFINE after == CHOOSE h : Counts(h, base, terms)
<1>9. Counts(after, base, terms)
  BY <1>8
<1>10. /\ IsDay(base) => DateAfter(base, terms) = after[N]
       /\ after[0] = base /\ \A n \in 1..N : after[n] = Offset(after[n - 1], terms[n])
  <2>1. IsDay(base) => DateAfter(base, terms) = after[N]
    BY DEF DateAfter, Counts
  <2>2. \A n \in 0..N : after[n] = IF n = 0 THEN base ELSE Offset(after[n - 1], terms[n])
    <3> HIDE DEF after
    <3> QED BY <1>9 DEF Counts
  <2> HIDE DEF after
  <2>3. 0 \in 0..N /\ \A n \in 1..N : n \in 0..N /\ n # 0
    BY <1>1
  <2> QED BY <2>1, <2>2, <2>3
<1> HIDE DEF after
<1>11. after \in [0..N -> Int]
  <2> DEFINE S == {n \in Nat : n \in 0..N => after[n] \in Int}
  <2>1. 0 \in S
    BY <1>10
  <2>2. ASSUME NEW n \in S PROVE n + 1 \in S
    <3> SUFFICES ASSUME n + 1 \in 0..N PROVE after[n + 1] \in Int
      OBVIOUS
    <3> DEFINE k == n + 1
    <3>1. k \in 1..N /\ k - 1 = n /\ n \in 0..N
      BY <1>1
    <3> HIDE DEF k, N
    <3>2. after[k] = Offset(after[n], terms[k]) /\ after[n] \in Int
      BY <1>10, <3>1
    <3>3. after[k] \in Int
      BY <1>2, <3>1, <3>2
    <3> QED BY <3>3 DEF k
  <2>3. S = Nat
    <3>1. S \in SUBSET Nat
      OBVIOUS
    <3> HIDE DEF S
    <3> QED BY <2>1, <2>2, <3>1, Induction
  <2>4. \A n \in 0..N : after[n] \in Int
    BY <1>1, <2>3
  <2>5. after = [n \in 0..N |-> after[n]]
    <3> HIDE DEF N
    <3>1. after = [n \in 0..Len(terms) |-> IF n = 0 THEN base ELSE Offset(after[n - 1], terms[n])]
      BY <1>9 DEF Counts
    <3> QED BY <3>1 DEF N
  <2> HIDE DEF N
  <2> QED BY <2>4, <2>5
<1>12. \A n \in 1..N : IsDay(after[n])
  <2> SUFFICES ASSUME NEW n \in 1..N PROVE IsDay(after[n])
    OBVIOUS
  <2>1. n - 1 \in 0..N
    BY <1>1
  <2> HIDE DEF N
  <2>2. after[n - 1] \in Int
    BY <1>11, <2>1
  <2> QED BY <1>2, <1>10, <2>2
<1> HIDE DEF N
<1> QED BY <1>10, <1>11, <1>12 DEF N

\* A computed date is a day, or none.
LEMMA ComputedDates ==
    ASSUME NEW base \in Int, NEW terms \in Seq(OffsetTerms)
    PROVE  /\ DateAfter(base, terms) \in Int
           /\ IsDay(DateAfter(base, terms)) \/ DateAfter(base, terms) = NoDate
<1>1. CASE ~ (IsDay(base) /\ \A n \in DOMAIN terms : terms[n].unit \in Units)
  BY <1>1 DEF DateAfter, NoDate
<1>2. CASE IsDay(base) /\ \A n \in DOMAIN terms : terms[n].unit \in Units
  <2>1. PICK f \in [0..Len(terms) -> Int] :
              /\ f[0] = base
              /\ \A n \in 1..Len(terms) : f[n] = Offset(f[n - 1], terms[n]) /\ IsDay(f[n])
              /\ DateAfter(base, terms) = f[Len(terms)]
    BY <1>2, OffsetsAreCounted
  <2>2. Len(terms) \in Nat
    OBVIOUS
  <2>3. Len(terms) \in 0..Len(terms) /\ (Len(terms) = 0 \/ Len(terms) \in 1..Len(terms))
    BY <2>2
  <2> QED BY <1>2, <2>1, <2>3
<1> QED BY <1>1, <1>2

\* A graph whose nodes are dated by numbers or by offsets from others.
AllDated(g) == \A id \in DOMAIN g.nodes : IsDated(g.nodes[id])

\* ResolvedDates' equation holds everywhere, and what it gives are numbers.
LEMMA DatesUnfold ==
    ASSUME NEW g, DOMAIN g.nodes \subseteq Ids, AllDated(g), NEW id \in Ids, NEW seen \in SUBSET Ids
    PROVE  LET n == g.nodes[id]
               of == ResolvedDates(g)
           IN  /\ of[<<id, seen>>] =
                    IF id \notin DOMAIN g.nodes \/ id \in seen THEN NoDate
                    ELSE IF n.at # NoDate THEN n.at
                    ELSE IF n.at_expr = << >> THEN NoDate
                    ELSE DateAfter(of[<<n.at_expr[1], seen \cup {id}>>], n.at_expr[2])
               /\ of[<<id, seen>>] \in Int
<1> DEFINE D == Ids \X SUBSET Ids
           V == Int
           Body(f, c, s) ==
              IF c \notin DOMAIN g.nodes \/ c \in s THEN NoDate
              ELSE IF g.nodes[c].at # NoDate THEN g.nodes[c].at
              ELSE IF g.nodes[c].at_expr = << >> THEN NoDate
              ELSE DateAfter(f[<<g.nodes[c].at_expr[1], s \cup {c}>>], g.nodes[c].at_expr[2])
           rank == [x \in D |-> Cardinality(Ids \ x[2])]
           F == [x \in D |-> [f \in [D -> V] |-> Body(f, x[1], x[2])]]
           top == Cardinality(Ids) + 1
<1>0. NoDate \in V /\ \A d \in V, terms \in Seq(OffsetTerms) : DateAfter(d, terms) \in V
  BY ComputedDates DEF NoDate
<1>1. /\ rank \in [D -> Nat] /\ top \in Nat /\ \A x \in D : rank[x] < top
  <2>1. \A x \in D : x[2] \in SUBSET Ids
    OBVIOUS
  <2>2. \A x \in D : Cardinality(Ids \ x[2]) \in Nat /\ Cardinality(Ids \ x[2]) <= Cardinality(Ids)
    BY <2>1, Room
  <2>3. Cardinality(Ids) \in Nat
    BY Room
  <2> HIDE DEF D
  <2> QED BY <2>2, <2>3
<1>2. ASSUME NEW c \in Ids, NEW s \in SUBSET Ids, c \in DOMAIN g.nodes, c \notin s,
             g.nodes[c].at = NoDate, g.nodes[c].at_expr # << >>
      PROVE  /\ g.nodes[c].at_expr[1] \in Ids /\ g.nodes[c].at_expr[2] \in Seq(OffsetTerms)
             /\ <<g.nodes[c].at_expr[1], s \cup {c}>> \in D
             /\ Cardinality(Ids \ (s \cup {c})) < Cardinality(Ids \ s)
  <2>1. g.nodes[c].at_expr[1] \in Ids /\ g.nodes[c].at_expr[2] \in Seq(OffsetTerms)
    BY <1>2 DEF AllDated, IsDated
  <2>2. s \cup {c} \in SUBSET Ids /\ s \subseteq s \cup {c} /\ s \cup {c} # s
    BY <1>2
  <2>3. Cardinality(Ids \ (s \cup {c})) < Cardinality(Ids \ s)
    BY <2>2, Room
  <2> QED BY <2>1, <2>2, <2>3
<1>3. ASSUME NEW x \in D, NEW f \in [D -> V] PROVE F[x][f] = Body(f, x[1], x[2]) /\ Body(f, x[1], x[2]) \in V
  <2>1. ASSUME NEW c \in Ids, NEW s \in SUBSET Ids PROVE Body(f, c, s) \in V
    <3>1. CASE c \notin DOMAIN g.nodes \/ c \in s
      BY <1>0, <3>1
    <3>2. CASE c \in DOMAIN g.nodes /\ c \notin s /\ g.nodes[c].at # NoDate
      <4>1. g.nodes[c].at \in V
        BY <3>2 DEF AllDated, IsDated
      <4> QED BY <3>2, <4>1
    <3>3. CASE c \in DOMAIN g.nodes /\ c \notin s /\ g.nodes[c].at = NoDate /\ g.nodes[c].at_expr = << >>
      BY <1>0, <3>3
    <3>4. CASE c \in DOMAIN g.nodes /\ c \notin s /\ g.nodes[c].at = NoDate /\ g.nodes[c].at_expr # << >>
      <4> DEFINE prior == f[<<g.nodes[c].at_expr[1], s \cup {c}>>]
      <4>1. prior \in V /\ g.nodes[c].at_expr[2] \in Seq(OffsetTerms)
        <5> HIDE DEF V, D
        <5> QED BY <1>2, <3>4
      <4>2. Body(f, c, s) = DateAfter(prior, g.nodes[c].at_expr[2])
        BY <3>4
      <4> HIDE DEF V, prior, Body
      <4> QED BY <1>0, <4>1, <4>2
    <3> QED BY <3>1, <3>2, <3>3, <3>4
  <2>2. x[1] \in Ids /\ x[2] \in SUBSET Ids
    OBVIOUS
  <2> HIDE DEF Body
  <2> QED BY <2>1, <2>2
<1>4. ASSUME NEW x \in D, NEW f \in [D -> V], NEW h \in [D -> V],
             \A y \in D : rank[y] < rank[x] => f[y] = h[y]
      PROVE  F[x][f] = F[x][h]
  <2> DEFINE c == x[1]
             s == x[2]
             more == <<g.nodes[c].at_expr[1], s \cup {c}>>
  <2>1. c \in Ids /\ s \in SUBSET Ids /\ rank[x] = Cardinality(Ids \ s)
    OBVIOUS
  <2>2. F[x][f] = Body(f, c, s) /\ F[x][h] = Body(h, c, s)
    <3> HIDE DEF Body, V, D, F
    <3> QED BY <1>3
  <2>3. CASE c \notin DOMAIN g.nodes \/ c \in s \/ g.nodes[c].at # NoDate \/ g.nodes[c].at_expr = << >>
    <3>1. Body(f, c, s) = Body(h, c, s)
      <4> HIDE DEF c, s
      <4> QED BY <2>3
    <3> QED BY <2>2, <3>1
  <2>4. CASE ~ (c \notin DOMAIN g.nodes \/ c \in s \/ g.nodes[c].at # NoDate \/ g.nodes[c].at_expr = << >>)
    <3>1. more \in D /\ Cardinality(Ids \ (s \cup {c})) < Cardinality(Ids \ s)
      <4> HIDE DEF D, c, s
      <4> QED BY <1>2, <2>1, <2>4
    <3>2. rank[more] = Cardinality(Ids \ (s \cup {c}))
      <4>1. more[2] = s \cup {c}
        OBVIOUS
      <4> HIDE DEF more, c, s, D
      <4> QED BY <3>1, <4>1
    <3>3. f[more] = h[more]
      <4> HIDE DEF more, c, s, D, rank, V
      <4> QED BY <1>4, <2>1, <3>1, <3>2
    <3>4. Body(f, c, s) = Body(h, c, s)
      BY <3>3
    <3> HIDE DEF Body, F
    <3> QED BY <2>2, <3>4
  <2> QED BY <2>3, <2>4
<1> HIDE DEF rank, top
<1>5. PICK f \in [D -> V] : \A x \in D : f[x] = F[x][f]
  <2>1. NoDate \in V /\ top \in Nat
    BY <1>0, <1>1
  <2>2. \A x \in D : \A f \in [D -> V] : F[x][f] \in V
    <3> HIDE DEF D, V, F, Body
    <3> QED BY <1>3
  <2>3. \A x \in D : \A f, h \in [D -> V] :
           (\A t \in D : rank[t] < rank[x] => f[t] = h[t]) => F[x][f] = F[x][h]
    <3> HIDE DEF D, V, F, Body
    <3> QED BY <1>4
  <2> HIDE DEF D, F, V
  <2>4. Recursive(D, V, rank, top, F)
    BY <1>1, <2>2, <2>3 DEF Recursive
  <2> QED BY <2>1, <2>4, Recursion
<1> DEFINE Is(h) == h = [call \in D |-> Body(h, call[1], call[2])]
           of == CHOOSE h : Is(h)
<1>6. Is(f)
  <2>1. \A x \in D : f[x] = Body(f, x[1], x[2])
    <3> HIDE DEF D, V, F, Body
    <3> QED BY <1>3, <1>5
  <2> HIDE DEF Body, D
  <2> QED BY <2>1
<1>7. Is(of)
  <2> HIDE DEF Is
  <2> QED BY <1>6
<1>8. ResolvedDates(g) = of
  BY DEF ResolvedDates
<1> HIDE DEF of
<1>9. ASSUME NEW c \in Ids, NEW s \in SUBSET Ids PROVE of[<<c, s>>] = Body(of, c, s)
  <2> HIDE DEF Body
  <2>1. <<c, s>> \in D /\ <<c, s>>[1] = c /\ <<c, s>>[2] = s
    OBVIOUS
  <2>2. \A x \in D : of[x] = Body(of, x[1], x[2])
    <3> HIDE DEF D
    <3> QED BY <1>7
  <2> HIDE DEF D
  <2> QED BY <2>1, <2>2
<1>10. of[<<id, seen>>] \in V
  <2> DEFINE S == {n \in Nat : \A c \in Ids : \A s \in SUBSET Ids : Cardinality(Ids \ s) < n => of[<<c, s>>] \in V}
  <2> HIDE DEF V
  <2>1. 0 \in S
    <3>1. \A s \in SUBSET Ids : Cardinality(Ids \ s) \in Nat
      BY Room
    <3>2. \A s \in SUBSET Ids : ~ (Cardinality(Ids \ s) < 0)
      BY <3>1
    <3> QED BY <3>2
  <2>2. ASSUME NEW n \in S PROVE n + 1 \in S
    <3> SUFFICES ASSUME NEW c \in Ids, NEW s \in SUBSET Ids, Cardinality(Ids \ s) < n + 1
                 PROVE  of[<<c, s>>] \in V
      OBVIOUS
    <3>1. of[<<c, s>>] = Body(of, c, s)
      BY <1>9
    <3>2. CASE c \notin DOMAIN g.nodes \/ c \in s
      BY <1>0, <3>1, <3>2
    <3>3. CASE c \in DOMAIN g.nodes /\ c \notin s /\ g.nodes[c].at # NoDate
      <4>1. g.nodes[c].at \in V
        BY <3>3 DEF AllDated, IsDated, V
      <4> QED BY <3>1, <3>3, <4>1
    <3>4. CASE c \in DOMAIN g.nodes /\ c \notin s /\ g.nodes[c].at = NoDate /\ g.nodes[c].at_expr = << >>
      BY <1>0, <3>1, <3>4
    <3>5. CASE c \in DOMAIN g.nodes /\ c \notin s /\ g.nodes[c].at = NoDate /\ g.nodes[c].at_expr # << >>
      <4> DEFINE prior == g.nodes[c].at_expr[1]
                 terms == g.nodes[c].at_expr[2]
                 t == s \cup {c}
      <4>1. prior \in Ids /\ terms \in Seq(OffsetTerms) /\ t \in SUBSET Ids /\ Cardinality(Ids \ t) < Cardinality(Ids \ s)
        BY <1>2, <3>5
      <4>2. of[<<c, s>>] = DateAfter(of[<<prior, t>>], terms)
        BY <3>1, <3>5
      <4> HIDE DEF prior, terms, t
      <4>3. Cardinality(Ids \ t) < n
        <5>1. Cardinality(Ids \ t) \in Nat /\ Cardinality(Ids \ s) \in Nat /\ n \in Nat
          BY <4>1, Room
        <5> QED BY <4>1, <5>1
      <4> QED BY <1>0, <4>1, <4>2, <4>3
    <3> QED BY <3>2, <3>3, <3>4, <3>5
  <2>3. S = Nat
    <3>1. S \in SUBSET Nat
      OBVIOUS
    <3> HIDE DEF S
    <3> QED BY <2>1, <2>2, <3>1, Induction
  <2>4. Cardinality(Ids \ seen) \in Nat
    BY Room
  <2>5. Cardinality(Ids \ seen) + 1 \in S /\ Cardinality(Ids \ seen) < Cardinality(Ids \ seen) + 1
    <3> HIDE DEF S
    <3> QED BY <2>3, <2>4
  <2> QED BY <2>5
<1> QED BY <1>8, <1>9, <1>10

\* The comparison of dates finds out whether a date may be of a window's days, or holds
\* both its ends.
LEMMA WindowsOverlapWhereTheyShare ==
    ASSUME NEW d \in Int, NEW from \in Int, NEW to \in Int
    PROVE  OverlapsWindow(d, from, to)
              <=> \/ DaysOf(d) \cap DaysBetween(from, to) # {}
                  \/ {DateFloor(from), DateCeil(to)} \subseteq DaysOf(d)
<1> DEFINE first == DateFloor(from)
           last == DateCeil(to)
<1>1. first \in Int /\ last \in Int /\ first % 10 # 0
  BY DEF DateFloor, DateCeil, IsMonth
<1>2. /\ OverlapsWindow(d, from, to) <=> DateCeil(d) >= first /\ DateFloor(d) <= last
      /\ DaysBetween(from, to) = {y \in first..last : y % 10 # 0}
  BY DEF OverlapsWindow, DaysBetween, IsMonth
<1> HIDE DEF first, last
<1>3. CASE d % 10 # 0
  <2>1. DateCeil(d) = d /\ DateFloor(d) = d /\ DaysOf(d) = {d}
    BY <1>3 DEF DateCeil, DateFloor, DaysOf, IsMonth
  <2>2. OverlapsWindow(d, from, to)
            <=> DaysOf(d) \cap DaysBetween(from, to) # {} \/ {first, last} \subseteq DaysOf(d)
    BY <1>1, <1>2, <1>3, <2>1
  <2> QED BY <2>2 DEF first, last
<1>4. CASE d % 10 = 0
  <2>1. /\ OverlapsWindow(d, from, to) <=> d + 9 >= first /\ d + 1 <= last
        /\ DaysOf(d) = (d + 1)..(d + 9)
    BY <1>2, <1>4 DEF DateCeil, DateFloor, DaysOf, IsMonth
  <2>2. ASSUME DaysOf(d) \cap DaysBetween(from, to) # {} \/ {first, last} \subseteq DaysOf(d)
        PROVE  OverlapsWindow(d, from, to)
    <3>1. CASE {first, last} \subseteq DaysOf(d)
      BY <1>1, <2>1, <3>1
    <3>2. CASE DaysOf(d) \cap DaysBetween(from, to) # {}
      <4>1. PICK y \in DaysOf(d) : y \in DaysBetween(from, to)
        BY <3>2
      <4>2. y \in (d + 1)..(d + 9) /\ y \in first..last
        BY <1>2, <2>1, <4>1
      <4> QED BY <1>1, <2>1, <4>2
    <3> QED BY <2>2, <3>1, <3>2
  <2>3. ASSUME d + 9 >= first, d + 1 <= last
        PROVE  DaysOf(d) \cap DaysBetween(from, to) # {} \/ {first, last} \subseteq DaysOf(d)
    <3>1. CASE first <= d
      <4>1. (d + 1) % 10 # 0 /\ d + 1 \in first..last /\ d + 1 \in (d + 1)..(d + 9)
        BY <1>1, <1>4, <2>3, <3>1
      <4> QED BY <1>2, <2>1, <4>1
    <3>2. CASE first > d /\ first <= last
      <4>1. first \in (d + 1)..(d + 9) /\ first \in first..last
        BY <1>1, <2>3, <3>2
      <4> QED BY <1>1, <1>2, <2>1, <4>1
    <3>3. CASE first > last
      BY <1>1, <2>1, <2>3, <3>3
    <3> QED BY <1>1, <3>1, <3>2, <3>3
  <2> QED BY <2>1, <2>2, <2>3 DEF first, last
<1> QED BY <1>3, <1>4

-----------------------------------------------------------------------------
(* What queries mean. *)

LEMMA SaysByForm ==
    ASSUME NEW g, NEW id, NEW now, NEW of, NEW q, NEW inside, NEW scope
    PROVE  /\ q.op = "pattern" =>
                 (Says(g, id, now, of, q, inside, scope)
                    <=> /\ MeetsPattern(g, q, id, AsOf(Own(q, scope), now), now)
                        /\ Windowed(Own(q, scope)) => InTheWindow(g, id, Own(q, scope)))
           /\ q.op = "scoped" =>
                 (Says(g, id, now, of, q, inside, scope) <=> of[<<q.x, inside, Own(q, scope)>>])
           /\ q.op = "ref" =>
                 (Says(g, id, now, of, q, inside, scope)
                    <=> /\ q.name \in Named \ inside
                        /\ of[<<Library[q.name], inside \cup {q.name}, scope>>])
           /\ q.op = "not" =>
                 (Says(g, id, now, of, q, inside, scope) <=> ~ of[<<q.x, inside, scope>>])
           /\ q.op = "inter" =>
                 (Says(g, id, now, of, q, inside, scope) <=> \A x \in q.terms : of[<<x, inside, scope>>])
           /\ q.op = "union" =>
                 (Says(g, id, now, of, q, inside, scope) <=> \E x \in q.terms : of[<<x, inside, scope>>])
<1>1. q.op = "pattern" =>
                 (Says(g, id, now, of, q, inside, scope)
                    <=> /\ MeetsPattern(g, q, id, AsOf(Own(q, scope), now), now)
                        /\ Windowed(Own(q, scope)) => InTheWindow(g, id, Own(q, scope)))
  BY DEF Says
<1>2. q.op = "scoped" =>
                 (Says(g, id, now, of, q, inside, scope) <=> of[<<q.x, inside, Own(q, scope)>>])
  BY DEF Says
<1>3. q.op = "ref" =>
                 (Says(g, id, now, of, q, inside, scope)
                    <=> /\ q.name \in Named \ inside
                        /\ of[<<Library[q.name], inside \cup {q.name}, scope>>])
  BY DEF Says
<1>4. q.op = "not" =>
                 (Says(g, id, now, of, q, inside, scope) <=> ~ of[<<q.x, inside, scope>>])
  BY DEF Says
<1>5. q.op = "inter" =>
                 (Says(g, id, now, of, q, inside, scope) <=> \A x \in q.terms : of[<<x, inside, scope>>])
  BY DEF Says
<1>6. q.op = "union" =>
                 (Says(g, id, now, of, q, inside, scope) <=> \E x \in q.terms : of[<<x, inside, scope>>])
  BY DEF Says
<1> QED BY <1>1, <1>2, <1>3, <1>4, <1>5, <1>6

LEMMA SayingDependsOnParts ==
    ASSUME NEW g, NEW id, NEW now, NEW f, NEW h, NEW q \in Forms, NEW inside, NEW scope,
           AgreeOnParts(f, h, q, inside, scope)
    PROVE  Says(g, id, now, f, q, inside, scope) <=> Says(g, id, now, h, q, inside, scope)
<1>1. CASE q.op = "pattern"
  BY <1>1, SaysByForm
<1>2. CASE q.op = "scoped"
  <2>1. q.x \in Parts(q)
    BY <1>2 DEF Parts
  <2>2. f[<<q.x, inside, Own(q, scope)>>] = h[<<q.x, inside, Own(q, scope)>>]
    BY <1>2, <2>1 DEF AgreeOnParts
  <2>3. Says(g, id, now, f, q, inside, scope) <=> f[<<q.x, inside, Own(q, scope)>>]
    BY <1>2, SaysByForm
  <2>4. Says(g, id, now, h, q, inside, scope) <=> h[<<q.x, inside, Own(q, scope)>>]
    BY <1>2, SaysByForm
  <2> QED BY <2>2, <2>3, <2>4
<1>3. CASE q.op = "ref"
  <2>1. q.name \in Named \ inside =>
           f[<<Library[q.name], inside \cup {q.name}, scope>>] = h[<<Library[q.name], inside \cup {q.name}, scope>>]
    BY <1>3 DEF AgreeOnParts
  <2>2. Says(g, id, now, f, q, inside, scope)
           <=> /\ q.name \in Named \ inside
               /\ f[<<Library[q.name], inside \cup {q.name}, scope>>]
    BY <1>3, SaysByForm
  <2>3. Says(g, id, now, h, q, inside, scope)
           <=> /\ q.name \in Named \ inside
               /\ h[<<Library[q.name], inside \cup {q.name}, scope>>]
    BY <1>3, SaysByForm
  <2> QED BY <2>1, <2>2, <2>3
<1>4. CASE q.op = "not"
  <2>1. q.x \in Parts(q)
    BY <1>4 DEF Parts
  <2>2. f[<<q.x, inside, scope>>] = h[<<q.x, inside, scope>>]
    BY <2>1 DEF AgreeOnParts
  <2>3. Says(g, id, now, f, q, inside, scope) <=> ~ f[<<q.x, inside, scope>>]
    BY <1>4, SaysByForm
  <2>4. Says(g, id, now, h, q, inside, scope) <=> ~ h[<<q.x, inside, scope>>]
    BY <1>4, SaysByForm
  <2> QED BY <2>2, <2>3, <2>4
<1>5. CASE q.op \in {"inter", "union"}
  <2>1. Parts(q) = q.terms
    BY <1>5 DEF Parts
  <2>2. \A x \in q.terms : f[<<x, inside, scope>>] = h[<<x, inside, scope>>]
    BY <2>1 DEF AgreeOnParts
  <2>3. CASE q.op = "inter"
    <3>1. Says(g, id, now, f, q, inside, scope) <=> \A x \in q.terms : f[<<x, inside, scope>>]
      BY <2>3, SaysByForm
    <3>2. Says(g, id, now, h, q, inside, scope) <=> \A x \in q.terms : h[<<x, inside, scope>>]
      BY <2>3, SaysByForm
    <3> QED BY <2>2, <3>1, <3>2
  <2>4. CASE q.op = "union"
    <3>1. Says(g, id, now, f, q, inside, scope) <=> \E x \in q.terms : f[<<x, inside, scope>>]
      BY <2>4, SaysByForm
    <3>2. Says(g, id, now, h, q, inside, scope) <=> \E x \in q.terms : h[<<x, inside, scope>>]
      BY <2>4, SaysByForm
    <3> QED BY <2>2, <3>1, <3>2
  <2> QED BY <1>5, <2>3, <2>4
<1> QED BY <1>1, <1>2, <1>3, <1>4, <1>5, FormsAreQueries

LEMMA SayingIsTrueOrFalse ==
    ASSUME NEW g, NEW id, NEW now, NEW c \in Asked, NEW f \in [Asked -> BOOLEAN]
    PROVE  Says(g, id, now, f, c[1], c[2], c[3]) \in BOOLEAN
<1> DEFINE q == c[1]
           inside == c[2]
           scope == c[3]
<1>0. q \in Forms
  BY CallsAreLighter
<1>1. q.op = "scoped" => f[<<q.x, inside, Own(q, scope)>>] \in BOOLEAN
  <2>1. q.op = "scoped" => q.x \in Parts(q)
    BY DEF Parts
  <2> QED BY <2>1, CallsAreLighter
<1> HIDE DEF q, inside, scope
<1>2. Says(g, id, now, f, q, inside, scope) \in BOOLEAN
  <2>1. CASE q.op = "pattern"
    BY <1>1, <2>1, SMT DEF Says
  <2>2. CASE q.op = "scoped"
    BY <1>1, <2>2, SMT DEF Says
  <2>3. CASE q.op = "ref"
    BY <1>1, <2>3, SMT DEF Says
  <2>4. CASE q.op = "not"
    BY <1>1, <2>4, SMT DEF Says
  <2>5. CASE q.op = "inter"
    BY <1>1, <2>5, SMT DEF Says
  <2>6. CASE q.op = "union"
    BY <1>1, <2>6, SMT DEF Says
  <2> QED BY <1>0, <2>1, <2>2, <2>3, <2>4, <2>5, <2>6, FormsAreQueries
<1> QED BY <1>2 DEF q, inside, scope

\* The equation of Meanings holds everywhere.
LEMMA MeaningsUnfold ==
    ASSUME NEW g, NEW id, NEW now
    PROVE  \A q \in Forms, inside \in SUBSET Named, scope \in Scopes :
              Meanings(g, id, now)[<<q, inside, scope>>] <=> Says(g, id, now, Meanings(g, id, now), q, inside, scope)
<1> DEFINE V == BOOLEAN
           Body(f, c) == Says(g, id, now, f, c[1], c[2], c[3])
           F == [c \in Asked |-> [f \in [Asked -> V] |-> Body(f, c)]]
<1>0. \A c \in Asked : \A f \in [Asked -> V] : Body(f, c) \in V
  BY SayingIsTrueOrFalse
<1>2. \A c \in Asked : \A f \in [Asked -> V] : F[c][f] = Body(f, c)
  <2> HIDE DEF Body
  <2> QED OBVIOUS
<1>3. ASSUME NEW c \in Asked, NEW f \in [Asked -> V], NEW h \in [Asked -> V],
             \A b \in Asked : Weighed[b] < Weighed[c] => f[b] = h[b]
      PROVE  F[c][f] = F[c][h]
  <2> DEFINE q == c[1]
             inside == c[2]
             scope == c[3]
  <2>1. AgreeOnParts(f, h, q, inside, scope)
    BY <1>3, CallsAreLighter DEF AgreeOnParts
  <2>2. q \in Forms
    BY CallsAreLighter
  <2> HIDE DEF q, inside, scope
  <2>3. Says(g, id, now, f, q, inside, scope) <=> Says(g, id, now, h, q, inside, scope)
    BY <2>1, <2>2, SayingDependsOnParts
  <2>4. Body(f, c) <=> Body(h, c)
    BY <2>3 DEF q, inside, scope
  <2> HIDE DEF F, Body
  <2>5. Body(f, c) = Body(h, c)
    BY <1>0, <2>4
  <2> QED BY <1>2, <2>5
<1>4. Weighed \in [Asked -> Nat] /\ Heaviest \in Nat /\ \A c \in Asked : Weighed[c] < Heaviest
  BY AskedAreWeighed
<1>5. PICK f \in [Asked -> V] : \A c \in Asked : f[c] = F[c][f]
  <2> DEFINE v == TRUE
  <2>1. v \in V
    OBVIOUS
  <2>2. \A c \in Asked : \A f \in [Asked -> V] : F[c][f] \in V
    <3> HIDE DEF F, Body
    <3> QED BY <1>0, <1>2
  <2>3. \A c \in Asked : \A f, h \in [Asked -> V] :
           (\A b \in Asked : Weighed[b] < Weighed[c] => f[b] = h[b]) => F[c][f] = F[c][h]
    <3> HIDE DEF V, F, Body
    <3> QED BY <1>3
  <2> HIDE DEF F, V, v
  <2>4. Recursive(Asked, V, Weighed, Heaviest, F)
    BY <1>4, <2>2, <2>3 DEF Recursive
  <2> QED BY <1>4, <2>1, <2>4, Recursion
<1> DEFINE Is(h) == h = [c \in Asked |-> Body(h, c)]
           of == CHOOSE h : Is(h)
<1>6. Is(f)
  <2>1. \A c \in Asked : f[c] = Body(f, c)
    <3> HIDE DEF V, F, Body
    <3> QED BY <1>2, <1>5
  <2> HIDE DEF Body
  <2> QED BY <2>1
<1>7. Is(of)
  <2> HIDE DEF Is
  <2> QED BY <1>6
<1>8. Meanings(g, id, now) = of
  BY DEF Meanings, Asked
<1> HIDE DEF of
<1>9. \A c \in Asked : of[c] <=> Body(of, c)
  <2> HIDE DEF Body
  <2> QED BY <1>7
<1>10. SUFFICES ASSUME NEW q \in Forms, NEW inside \in SUBSET Named, NEW scope \in Scopes
                PROVE  of[<<q, inside, scope>>] <=> Says(g, id, now, of, q, inside, scope)
  BY <1>8
<1> DEFINE c == <<q, inside, scope>>
<1>11. c \in Asked /\ c[1] = q /\ c[2] = inside /\ c[3] = scope
  BY DEF Asked
<1> HIDE DEF c
<1> QED BY <1>9, <1>11 DEF c

\* The equation of Complements, and that it holds everywhere.
IsComplement(f, q, inside) ==
    \/ q.op = "not"
    \/ q.op = "ref" /\ q.name \in Named \ inside /\ f[<<Library[q.name], inside \cup {q.name}>>]
    \/ q.op = "scoped" /\ q.sort = << >> /\ f[<<q.x, inside>>]

LEMMA ComplementsUnfold ==
    \A q \in Forms, inside \in SUBSET Named :
        Complements[<<q, inside>>] <=> IsComplement(Complements, q, inside)
<1> DEFINE V == BOOLEAN
           D == Forms \X SUBSET Named
           rank == [c \in D |-> Weight(c[1], c[2])]
           Body(f, c) == IsComplement(f, c[1], c[2])
           F == [c \in D |-> [f \in [D -> V] |-> Body(f, c)]]
<1>1. /\ \A c \in D : c[1] \in Forms /\ c[2] \in SUBSET Named /\ rank[c] = Weight(c[1], c[2])
      /\ \A q \in Forms, inside \in SUBSET Named :
            <<q, inside>> \in D /\ rank[<<q, inside>>] = Weight(q, inside)
  OBVIOUS
<1>2. rank \in [D -> Nat] /\ Heaviest \in Nat /\ \A c \in D : rank[c] < Heaviest
  <2>1. \A c \in D : Weight(c[1], c[2]) \in Nat /\ Weight(c[1], c[2]) < Heaviest
    BY Weights
  <2>2. Heaviest \in Nat
    BY AskedAreWeighed
  <2> QED BY <2>1, <2>2
<1> HIDE DEF D, rank
<1>3. \A c \in D : \A f \in [D -> V] : F[c][f] = Body(f, c) /\ Body(f, c) \in V
  <2>1. \A c, f : Body(f, c) \in BOOLEAN
    BY DEF IsComplement
  <2>2. \A c \in D : \A f \in [D -> V] : F[c][f] = Body(f, c)
    <3> HIDE DEF Body
    <3> QED OBVIOUS
  <2> QED BY <2>1, <2>2
<1>4. ASSUME NEW c \in D, NEW f \in [D -> V], NEW h \in [D -> V],
             \A b \in D : rank[b] < rank[c] => f[b] = h[b]
      PROVE  F[c][f] = F[c][h]
  <2> DEFINE q == c[1]
             inside == c[2]
  <2>1. q \in Forms /\ inside \in SUBSET Named /\ rank[c] = Weight(q, inside)
    BY <1>1
  <2>2. \A x \in Parts(q) : x \in Forms /\ Weight(x, inside) < Weight(q, inside)
    <3> HIDE DEF q, inside
    <3> QED BY <2>1, Weights
  <2>3. \A name \in Named \ inside :
           Library[name] \in Forms /\ Weight(Library[name], inside \cup {name}) < Weight(q, inside)
    <3> HIDE DEF q, inside
    <3> QED BY <2>1, Weights
  <2>4. q.op = "scoped" => f[<<q.x, inside>>] = h[<<q.x, inside>>]
    <3>1. q.op = "scoped" => q.x \in Parts(q)
      BY DEF Parts
    <3> HIDE DEF q, inside
    <3> QED BY <1>1, <1>4, <2>1, <2>2, <3>1
  <2>5. q.op = "ref" /\ q.name \in Named \ inside =>
           f[<<Library[q.name], inside \cup {q.name}>>] = h[<<Library[q.name], inside \cup {q.name}>>]
    <3> HIDE DEF q, inside
    <3> SUFFICES ASSUME q.name \in Named \ inside
                 PROVE  f[<<Library[q.name], inside \cup {q.name}>>] = h[<<Library[q.name], inside \cup {q.name}>>]
      OBVIOUS
    <3> DEFINE x == Library[q.name]
               more == inside \cup {q.name}
    <3>1. x \in Forms /\ more \in SUBSET Named /\ Weight(x, more) < Weight(q, inside)
      BY <2>1, <2>3
    <3> HIDE DEF x, more
    <3>2. f[<<x, more>>] = h[<<x, more>>]
      BY <1>1, <1>4, <2>1, <3>1
    <3> QED BY <3>2 DEF x, more
  <2>6. Body(f, c) <=> Body(h, c)
    BY <2>4, <2>5 DEF IsComplement
  <2> HIDE DEF Body, F
  <2>7. Body(f, c) = Body(h, c)
    BY <1>3, <2>6
  <2> QED BY <1>3, <2>7
<1>5. PICK f \in [D -> V] : \A c \in D : f[c] = F[c][f]
  <2> DEFINE v == TRUE
  <2>1. v \in V
    OBVIOUS
  <2>2. \A c \in D : \A f \in [D -> V] : F[c][f] \in V
    <3> HIDE DEF F, Body
    <3> QED BY <1>3
  <2>3. \A c \in D : \A f, h \in [D -> V] :
           (\A b \in D : rank[b] < rank[c] => f[b] = h[b]) => F[c][f] = F[c][h]
    <3> HIDE DEF V, F, Body
    <3> QED BY <1>4
  <2> HIDE DEF F, V, v
  <2>4. Recursive(D, V, rank, Heaviest, F)
    BY <1>2, <2>2, <2>3 DEF Recursive
  <2> QED BY <1>2, <2>1, <2>4, Recursion
<1> DEFINE Is(h) == h = [c \in D |-> Body(h, c)]
           of == CHOOSE h : Is(h)
<1>6. Is(f)
  <2>1. \A c \in D : f[c] = Body(f, c)
    <3> HIDE DEF V, F, Body
    <3> QED BY <1>3, <1>5
  <2> HIDE DEF Body
  <2> QED BY <2>1
<1>7. Is(of)
  <2> HIDE DEF Is
  <2> QED BY <1>6
<1>8. Complements = of
  BY DEF Complements, IsComplement, D
<1> HIDE DEF of
<1>9. \A c \in D : of[c] <=> Body(of, c)
  <2> HIDE DEF Body
  <2> QED BY <1>7
<1>10. SUFFICES ASSUME NEW q \in Forms, NEW inside \in SUBSET Named
                PROVE  of[<<q, inside>>] <=> IsComplement(of, q, inside)
  BY <1>8
<1> DEFINE c == <<q, inside>>
<1>11. c \in D /\ c[1] = q /\ c[2] = inside
  BY <1>1
<1> HIDE DEF c
<1> QED BY <1>9, <1>11 DEF c

-----------------------------------------------------------------------------
(* Answers and what they mean. *)

\* A scope that a query may have.
Good(w) == w \in Scopes

LEMMA OwnIsGood ==
    ASSUME NEW q \in Forms, q.op \in {"pattern", "scoped"}, NEW scope, Good(scope)
    PROVE  Good(Own(q, scope))
BY FormsAreQueries DEF Own, Good

LEMMA NoScopeIsGood == Good(NoScope)
<1>1. NoDate \in Nat
  BY DEF NoDate
<1>2. NoScope \in Scopes /\ ~ Windowed(NoScope)
  BY <1>1 DEF NoScope, Scopes, Windowed
<1> QED BY <1>2 DEF Good

\* Answers to which every one is a list of these ids, or all of which are refusals, and
\* of which there is one unless they may be in any order.
Fitting(answers, S, loose) ==
    /\ answers # {}
    /\ (\A a \in answers : a = Refused) \/ (\A a \in answers : a.ok /\ Enumerates(a.ids, S))
    /\ (\E a, b \in answers : a # b) => loose

\* A list of rows that are answered with.
LEMMA AnswerFits ==
    ASSUME NEW ids, NEW S, Enumerates(ids, S), NEW loose
    PROVE  Fitting({Answer(ids)}, S, loose)
BY DEF Fitting, Answer

LEMMA RefusedFits == ASSUME NEW S, NEW loose PROVE Fitting({Refused}, S, loose)
BY DEF Fitting

\* What a pattern is answered with.
Meets2(g, q, w, now) ==
    {id \in DOMAIN g.nodes : /\ MeetsPattern(g, q, id, AsOf(w, now), now)
                             /\ Windowed(w) => InTheWindow(g, id, w)}

LEMMA PatternsFit ==
    ASSUME NEW g, Whole(g), AllDated(g), NEW now, NEW q, IsPattern(q), NEW w, Good(w), NEW loose
    PROVE  Fitting({PatternAnswer(g, q, w, AsOf(w, now), now)}, Meets2(g, q, w, now), loose)
<1> DEFINE at == AsOf(w, now)
           S == Meets2(g, q, w, now)
<1>1. DOMAIN g.nodes \subseteq Ids
  BY DEF Whole
<1>2. ASSUME NEW id \in DOMAIN g.nodes, Windowed(w)
      PROVE  (\E day \in {ResolveAt(g, id)} : day # NoDate /\ OverlapsWindow(day, w.from, w.to))
                <=> InTheWindow(g, id, w)
  <2> DEFINE day == ResolveAt(g, id)
             none == {}
  <2>1. none \in SUBSET Ids /\ id \in Ids
    BY <1>1
  <2> HIDE DEF none
  <2>2. ResolvedDates(g)[<<id, none>>] \in Int
    BY <1>1, <2>1, DatesUnfold
  <2>3. day \in Int /\ w.from \in Int /\ w.to \in Int
    BY <2>2 DEF ResolveAt, none, Good, Scopes
  <2> HIDE DEF day
  <2>4. OverlapsWindow(day, w.from, w.to)
           <=> \/ DaysOf(day) \cap DaysBetween(w.from, w.to) # {}
               \/ {DateFloor(w.from), DateCeil(w.to)} \subseteq DaysOf(day)
    BY <2>3, WindowsOverlapWhereTheyShare
  <2>5. InTheWindow(g, id, w)
           <=> /\ day # NoDate
               /\ \/ DaysOf(day) \cap DaysBetween(w.from, w.to) # {}
                  \/ {DateFloor(w.from), DateCeil(w.to)} \subseteq DaysOf(day)
    BY DEF InTheWindow, day
  <2> QED BY <2>4, <2>5 DEF day
<1>3. Bound(g, q, w, at, now) = S
  <2>1. \A id \in DOMAIN g.nodes :
           MatchAtom(g, q.atoms[1], id, at, now) /\ Walk(g, q, id, at, now) <=> MeetsPattern(g, q, id, at, now)
    BY WalksArePaths
  <2> HIDE DEF at
  <2> QED BY <1>2, <2>1 DEF Bound, Meets2, at
<1>4. S \cap Ids = S
  BY <1>1 DEF Meets2
<1> HIDE DEF at, S
<1>5. Enumerates(Sorted(g, Bound(g, q, w, at, now), q.sort, at), S)
  BY <1>3, <1>4, SortedLists
<1>6. PatternAnswer(g, q, w, at, now) = Refused
         \/ PatternAnswer(g, q, w, at, now) = Answer(Sorted(g, Bound(g, q, w, at, now), q.sort, at))
  BY DEF PatternAnswer
<1>7. Fitting({PatternAnswer(g, q, w, at, now)}, S, loose)
  BY <1>5, <1>6, AnswerFits, RefusedFits
<1> QED BY <1>7 DEF at, S

\* Sorting an answer, where there is an order to sort by.
SortedAnswers(g, q, at, answers) ==
    {IF a.ok /\ q.sort # << >> THEN Answer(Sorted(g, ToSet(a.ids), q.sort, at)) ELSE a : a \in answers}

LEMMA ScopedFits ==
    ASSUME NEW g, NEW q, NEW at, NEW answers, NEW S \in SUBSET Ids, NEW loose, NEW looser,
           Fitting(answers, S, loose), loose /\ q.sort = << >> => looser
    PROVE  Fitting(SortedAnswers(g, q, at, answers), S, looser)
<1> DEFINE Sort(a) == IF a.ok /\ q.sort # << >> THEN Answer(Sorted(g, ToSet(a.ids), q.sort, at)) ELSE a
           sorted == {Sort(a) : a \in answers}
           row == Sorted(g, S, q.sort, at)
<1>1. Enumerates(row, S)
  <2>1. S \cap Ids = S
    OBVIOUS
  <2> QED BY <2>1, SortedLists
<1>2. /\ answers # {}
      /\ (\A a \in answers : a = Refused) \/ (\A a \in answers : a.ok /\ Enumerates(a.ids, S))
      /\ (\E a, b \in answers : a # b) => loose
  BY DEF Fitting
<1> HIDE DEF row
<1>3. ASSUME \A a \in answers : a = Refused PROVE Fitting(sorted, S, looser)
  <2>0. ~ Refused.ok
    BY DEF Refused
  <2>1. \A a \in answers : Sort(a) = Refused
    BY <1>3, <2>0
  <2> HIDE DEF Sort
  <2>2. sorted = {Refused}
    BY <1>2, <2>1
  <2> HIDE DEF sorted
  <2> QED BY <2>2, RefusedFits
<1>4. ASSUME \A a \in answers : a.ok /\ Enumerates(a.ids, S) PROVE Fitting(sorted, S, looser)
  <2>1. CASE q.sort # << >>
    <3>1. \A a \in answers : Sort(a) = Answer(row)
      <4> SUFFICES ASSUME NEW a \in answers PROVE Sort(a) = Answer(row)
        OBVIOUS
      <4>1. a.ok /\ ToSet(a.ids) = S
        BY <1>4 DEF Enumerates
      <4> QED BY <2>1, <4>1 DEF row
    <3> HIDE DEF Sort
    <3>2. sorted = {Answer(row)}
      BY <1>2, <3>1
    <3> HIDE DEF sorted
    <3> QED BY <1>1, <3>2, AnswerFits
  <2>2. CASE q.sort = << >>
    <3>1. \A a \in answers : Sort(a) = a
      BY <2>2
    <3> HIDE DEF Sort
    <3>2. sorted = answers
      BY <3>1
    <3> HIDE DEF sorted
    <3> QED BY <1>2, <1>4, <2>2, <3>2 DEF Fitting
  <2> QED BY <2>1, <2>2
<1>5. Fitting(sorted, S, looser)
  <2> HIDE DEF sorted
  <2> QED BY <1>2, <1>3, <1>4
<1> QED BY <1>5 DEF SortedAnswers

\* The answers to the parts of a query fit what its parts describe.
PartsFit(of, q, inside, scope, T) ==
    \A x \in Parts(q) : Fitting(of[<<x, inside, scope>>], T[x], TRUE)

LEMMA PartsAnswer ==
    ASSUME NEW of, NEW q, NEW inside, NEW scope, NEW T, PartsFit(of, q, inside, scope, T),
           AllAnswered(PartAnswers(of, q, inside, scope))
    PROVE  Rows(PartAnswers(of, q, inside, scope)) = {T[x] : x \in Parts(q)}
<1> DEFINE result(x) == CHOOSE a \in of[<<x, inside, scope>>] : TRUE
           terms == PartAnswers(of, q, inside, scope)
<1>1. terms = {result(x) : x \in Parts(q)}
  BY DEF PartAnswers
<1>2. ASSUME NEW x \in Parts(q) PROVE result(x) \in of[<<x, inside, scope>>]
  <2>1. of[<<x, inside, scope>>] # {}
    BY DEF PartsFit, Fitting
  <2> QED BY <2>1
<1> HIDE DEF result
<1>3. \A x \in Parts(q) : result(x).ok
  BY <1>1 DEF AllAnswered
<1>4. ASSUME NEW x \in Parts(q) PROVE ToSet(result(x).ids) = T[x]
  <2>1. Fitting(of[<<x, inside, scope>>], T[x], TRUE)
    BY DEF PartsFit
  <2>2. result(x) # Refused
    BY <1>3 DEF Refused
  <2>3. Enumerates(result(x).ids, T[x])
    BY <1>2, <2>1, <2>2 DEF Fitting
  <2> QED BY <2>3 DEF Enumerates
<1> HIDE DEF terms
<1>5. Rows(terms) = {ToSet(result(x).ids) : x \in Parts(q)}
  BY <1>1 DEF Rows
<1>6. Rows(terms) = {T[x] : x \in Parts(q)}
  BY <1>4, <1>5
<1> QED BY <1>6 DEF terms

LEMMA ComplementFits ==
    ASSUME NEW g, DOMAIN g.nodes \subseteq Ids, NEW of, NEW q, q.op = "not", NEW inside, NEW scope, NEW T,
           PartsFit(of, q, inside, scope, T)
    PROVE  Fitting(NotAnswers(g, PartAnswers(of, q, inside, scope)), DOMAIN g.nodes \ T[q.x], TRUE)
<1> DEFINE terms == PartAnswers(of, q, inside, scope)
           S == DOMAIN g.nodes \ T[q.x]
<1>1. AllAnswered(terms) => UNION Rows(terms) = T[q.x]
  <2>1. Parts(q) = {q.x}
    BY DEF Parts
  <2>2. AllAnswered(terms) => Rows(terms) = {T[x] : x \in Parts(q)}
    BY PartsAnswer
  <2> HIDE DEF terms
  <2> QED BY <2>1, <2>2
<1>2. IsFiniteSet(S)
  BY CorpusAssumption, FS_Subset
<1>3. Enumerates(InOrder(S), S)
  <2>1. S \cap Ids = S
    OBVIOUS
  <2> HIDE DEF S
  <2> QED BY <2>1, InOrderLists
<1> HIDE DEF terms
<1>4. CASE ~ AllAnswered(terms)
  BY <1>4, RefusedFits DEF NotAnswers, terms
<1>5. CASE AllAnswered(terms)
  <2> DEFINE answers == {Answer(s) : s \in SetToSeqs(S)}
  <2>1. NotAnswers(g, terms) = answers
    BY <1>1, <1>5 DEF NotAnswers
  <2>2. /\ SetToSeqs(S) # {}
        /\ \A s \in SetToSeqs(S) : Enumerates(s, S)
    BY <1>2, <1>3, OrdersList
  <2> HIDE DEF S
  <2>3. /\ answers # {}
        /\ \A a \in answers : a.ok /\ Enumerates(a.ids, S)
    <3>1. \A s : Answer(s).ok /\ Answer(s).ids = s
      BY DEF Answer
    <3> QED BY <2>2, <3>1
  <2> HIDE DEF answers
  <2> QED BY <2>1, <2>3 DEF Fitting, terms, S
<1> QED BY <1>4, <1>5

\* What is in each of some sets.
InAll(g, terms, T) == {id \in DOMAIN g.nodes : \A x \in terms : id \in T[x]}

LEMMA IntersectionFits ==
    ASSUME NEW g, DOMAIN g.nodes \subseteq Ids, NEW of, NEW q, q.op = "inter", q.terms # {},
           NEW inside, NEW scope, NEW T, PartsFit(of, q, inside, scope, T), NEW loose
    PROVE  Fitting(InterAnswers(g, PartAnswers(of, q, inside, scope)),
                   InAll(g, q.terms, T), loose)
<1> DEFINE terms == PartAnswers(of, q, inside, scope)
           S == {id \in DOMAIN g.nodes : \A x \in q.terms : id \in T[x]}
<1>1. AllAnswered(terms) => InterRows(g, terms) = S
  <2>1. Parts(q) = q.terms
    BY DEF Parts
  <2>2. AllAnswered(terms) => Rows(terms) = {T[x] : x \in q.terms}
    BY <2>1, PartsAnswer
  <2> HIDE DEF terms
  <2>3. AllAnswered(terms) => /\ Rows(terms) # {}
                              /\ \A id : (\A r \in Rows(terms) : id \in r) <=> \A x \in q.terms : id \in T[x]
    BY <2>2
  <2>4. AllAnswered(terms) => InterRows(g, terms) = {id \in DOMAIN g.nodes : \A r \in Rows(terms) : id \in r}
    BY <2>3 DEF InterRows
  <2> QED BY <2>3, <2>4
<1>2. Enumerates(InOrder(S), S)
  <2>1. S \cap Ids = S
    OBVIOUS
  <2> HIDE DEF S
  <2> QED BY <2>1, InOrderLists
<1> HIDE DEF terms, S
<1>3. InterAnswers(g, terms) = {Refused} \/ InterAnswers(g, terms) = {Answer(InOrder(S))}
  BY <1>1 DEF InterAnswers
<1>4. Fitting(InterAnswers(g, terms), S, loose)
  BY <1>2, <1>3, AnswerFits, RefusedFits
<1> QED BY <1>4 DEF terms, S, InAll

LEMMA UnionFits ==
    ASSUME NEW g, DOMAIN g.nodes \subseteq Ids, NEW of, NEW q, q.op = "union",
           NEW inside, NEW scope, NEW T, PartsFit(of, q, inside, scope, T),
           \A x \in q.terms : T[x] \subseteq DOMAIN g.nodes, NEW loose
    PROVE  Fitting(UnionAnswers(PartAnswers(of, q, inside, scope)),
                   {id \in DOMAIN g.nodes : \E x \in q.terms : id \in T[x]}, loose)
<1> DEFINE terms == PartAnswers(of, q, inside, scope)
           S == {id \in DOMAIN g.nodes : \E x \in q.terms : id \in T[x]}
<1>1. AllAnswered(terms) => UNION Rows(terms) = S
  <2>1. Parts(q) = q.terms
    BY DEF Parts
  <2>2. AllAnswered(terms) => Rows(terms) = {T[x] : x \in q.terms}
    BY <2>1, PartsAnswer
  <2> HIDE DEF terms
  <2> SUFFICES ASSUME AllAnswered(terms) PROVE UNION Rows(terms) = S
    OBVIOUS
  <2>3. \A id : id \in UNION Rows(terms) <=> id \in S
    BY <2>2
  <2> HIDE DEF S
  <2> QED BY <2>3
<1>2. Enumerates(InOrder(S), S)
  <2>1. S \cap Ids = S
    OBVIOUS
  <2> HIDE DEF S
  <2> QED BY <2>1, InOrderLists
<1> HIDE DEF terms, S
<1>3. UnionAnswers(terms) = {Refused} \/ UnionAnswers(terms) = {Answer(InOrder(S))}
  BY <1>1 DEF UnionAnswers
<1>4. Fitting(UnionAnswers(terms), S, loose)
  BY <1>2, <1>3, AnswerFits, RefusedFits
<1> QED BY <1>4 DEF terms, S

\* The nodes a call describes.
Described(g, now, c) == {id \in DOMAIN g.nodes : Meanings(g, id, now)[c]}

\* The answers to a call are what it describes.
Told(g, now, c) == Fitting(Evaluations(g, now)[c], Described(g, now, c), Complements[<<c[1], c[2]>>])

LEMMA DescribedByForm ==
    ASSUME NEW g, NEW now, NEW q \in Forms, NEW inside \in SUBSET Named, NEW scope \in Scopes
    PROVE  Described(g, now, <<q, inside, scope>>)
              = {id \in DOMAIN g.nodes : Says(g, id, now, Meanings(g, id, now), q, inside, scope)}
BY MeaningsUnfold DEF Described

LEMMA TellingIsTelling ==
    ASSUME NEW g, Whole(g), AllDated(g), NEW now,
           NEW q \in Forms, NEW inside \in SUBSET Named, NEW scope, Good(scope),
           \A x \in Parts(q) : \A w : Good(w) => Told(g, now, <<x, inside, w>>),
           \A name \in Named \ inside : Told(g, now, <<Library[name], inside \cup {name}, scope>>)
    PROVE  Told(g, now, <<q, inside, scope>>)
<1> DEFINE of == Evaluations(g, now)
           c == <<q, inside, scope>>
           S == Described(g, now, c)
           loose == Complements[<<q, inside>>]
           answers == AnswersOf(g, now, of, q, inside, scope)
           here == DOMAIN g.nodes
           T == [x \in Parts(q) |-> Described(g, now, <<x, inside, scope>>)]
<1>1. scope \in Scopes /\ here \subseteq Ids
  BY DEF Good, Whole
<1>2. of[c] = answers
  BY <1>1, EvaluationsUnfold
<1>3. S = {id \in here : Says(g, id, now, Meanings(g, id, now), q, inside, scope)}
  BY <1>1, DescribedByForm
<1>4. loose <=> IsComplement(Complements, q, inside)
  BY ComplementsUnfold
<1>5. PartsFit(of, q, inside, scope, T)
  <2> SUFFICES ASSUME NEW x \in Parts(q) PROVE Fitting(of[<<x, inside, scope>>], T[x], TRUE)
    BY DEF PartsFit
  <2>1. Told(g, now, <<x, inside, scope>>)
    OBVIOUS
  <2>2. T[x] = Described(g, now, <<x, inside, scope>>)
    OBVIOUS
  <2> HIDE DEF T
  <2> QED BY <2>1, <2>2 DEF Told, Fitting
<1>6. \A x \in Parts(q) : T[x] \subseteq here /\ \A id \in here : id \in T[x] <=> Meanings(g, id, now)[<<x, inside, scope>>]
  BY DEF Described
<1>7. Fitting(answers, S, loose)
  <2> HIDE DEF of, c, S, loose, T, answers
  <2>1. CASE q.op = "pattern"
    <3> DEFINE own == Own(q, scope)
    <3>1. answers = {PatternAnswer(g, q, own, AsOf(own, now), now)}
      BY <2>1, PatternIs DEF answers
    <3>2. Good(own) /\ IsPattern(q)
      BY <2>1, OwnIsGood, FormsAreQueries
    <3>3. S = Meets2(g, q, own, now)
      BY <1>3, <2>1, SaysByForm DEF Meets2
    <3> HIDE DEF own
    <3> QED BY <3>1, <3>2, <3>3, PatternsFit
  <2>2. CASE q.op = "scoped"
    <3> DEFINE own == Own(q, scope)
               inner == <<q.x, inside, own>>
               at == AsOf(own, now)
               looser == Complements[<<q.x, inside>>]
               D == Described(g, now, inner)
    <3>1. Good(own) /\ q.x \in Parts(q)
      BY <2>2, OwnIsGood DEF Parts
    <3>2. Told(g, now, inner)
      BY <3>1
    <3>3. Fitting(of[inner], D, looser)
      BY <3>2 DEF Told, of
    <3>4. S = D
      <4>1. \A id : Says(g, id, now, Meanings(g, id, now), q, inside, scope) <=> Meanings(g, id, now)[inner]
        <5> SUFFICES ASSUME NEW id
                     PROVE  Says(g, id, now, Meanings(g, id, now), q, inside, scope) <=> Meanings(g, id, now)[inner]
          OBVIOUS
        <5> DEFINE means == Meanings(g, id, now)
        <5> HIDE DEF means
        <5>1. Says(g, id, now, means, q, inside, scope) <=> means[<<q.x, inside, own>>]
          BY <2>2, SaysByForm
        <5> QED BY <5>1 DEF means
      <4> HIDE DEF inner
      <4> QED BY <1>3, <4>1 DEF Described
    <3>5. looser /\ q.sort = << >> => loose
      BY <1>4, <2>2 DEF IsComplement
    <3>6. answers = SortedAnswers(g, q, at, of[inner])
      BY <2>2, ScopedIs DEF answers, SortedAnswers
    <3>7. D \in SUBSET Ids
      BY <1>1 DEF Described
    <3> HIDE DEF own, inner, at, looser, D
    <3>8. Fitting(SortedAnswers(g, q, at, of[inner]), D, loose)
      BY <3>3, <3>5, <3>7, ScopedFits
    <3> QED BY <3>4, <3>6, <3>8
  <2>3. CASE q.op = "ref"
    <3>1. CASE q.name \notin Named \ inside
      <4>1. answers = {Refused}
        <5>1. answers = IF q.name \in Named \ inside
                        THEN of[<<Library[q.name], inside \cup {q.name}, scope>>] ELSE {Refused}
          BY <2>3, RefIs DEF answers
        <5> QED BY <3>1, <5>1
      <4> QED BY <4>1, RefusedFits
    <3>2. CASE q.name \in Named \ inside
      <4> DEFINE x == Library[q.name]
                 more == inside \cup {q.name}
                 inner == <<x, more, scope>>
      <4>1. answers = of[inner]
        BY <2>3, <3>2, RefIs DEF answers
      <4>2. Told(g, now, inner)
        BY <3>2
      <4>3. S = Described(g, now, inner)
        <5>1. \A id : Says(g, id, now, Meanings(g, id, now), q, inside, scope) <=> Meanings(g, id, now)[inner]
          <6> SUFFICES ASSUME NEW id
                       PROVE  Says(g, id, now, Meanings(g, id, now), q, inside, scope) <=> Meanings(g, id, now)[inner]
            OBVIOUS
          <6> DEFINE means == Meanings(g, id, now)
          <6> HIDE DEF means
          <6>1. Says(g, id, now, means, q, inside, scope)
                   <=> q.name \in Named \ inside /\ means[<<Library[q.name], inside \cup {q.name}, scope>>]
            BY <2>3, SaysByForm
          <6> QED BY <3>2, <6>1 DEF means
        <5> HIDE DEF inner
        <5> QED BY <1>3, <5>1 DEF Described
      <4>4. Complements[<<x, more>>] => loose
        BY <1>4, <2>3, <3>2 DEF IsComplement
      <4>5. inner[1] = x /\ inner[2] = more
        OBVIOUS
      <4> HIDE DEF x, more, inner
      <4>6. Fitting(answers, S, Complements[<<x, more>>])
        BY <4>1, <4>2, <4>3, <4>5 DEF Told, of
      <4> QED BY <4>4, <4>6 DEF Fitting
    <3> QED BY <3>1, <3>2
  <2>4. CASE q.op = "not"
    <3>1. answers = NotAnswers(g, PartAnswers(of, q, inside, scope))
      BY <2>4, NotIs DEF answers
    <3>2. q.x \in Parts(q)
      BY <2>4 DEF Parts
    <3>3. S = here \ T[q.x]
      <4>1. \A id \in here : id \in S <=> ~ Meanings(g, id, now)[<<q.x, inside, scope>>]
        <5> SUFFICES ASSUME NEW id \in here PROVE id \in S <=> ~ Meanings(g, id, now)[<<q.x, inside, scope>>]
          OBVIOUS
        <5> DEFINE means == Meanings(g, id, now)
        <5>1. id \in S <=> Says(g, id, now, means, q, inside, scope)
          BY <1>3
        <5> HIDE DEF means
        <5>2. Says(g, id, now, means, q, inside, scope) <=> ~ means[<<q.x, inside, scope>>]
          BY <2>4, SaysByForm
        <5> QED BY <5>1, <5>2 DEF means
      <4> QED BY <1>3, <1>6, <3>2, <4>1
    <3>4. loose <=> TRUE
      BY <1>4, <2>4 DEF IsComplement
    <3>5. Fitting(answers, S, TRUE)
      BY <1>1, <1>5, <2>4, <3>1, <3>3, ComplementFits
    <3> QED BY <3>4, <3>5 DEF Fitting
  <2>5. CASE q.op = "inter"
    <3>1. answers = InterAnswers(g, PartAnswers(of, q, inside, scope))
      BY <2>5, InterIs DEF answers
    <3>2. Parts(q) = q.terms /\ q.terms # {}
      BY <2>5, FormsAreQueries DEF Parts
    <3>3. S = {id \in here : \A x \in q.terms : id \in T[x]}
      <4>1. \A id \in here : id \in S <=> \A x \in q.terms : Meanings(g, id, now)[<<x, inside, scope>>]
        <5> SUFFICES ASSUME NEW id \in here PROVE id \in S <=> \A x \in q.terms : Meanings(g, id, now)[<<x, inside, scope>>]
          OBVIOUS
        <5> DEFINE means == Meanings(g, id, now)
        <5>1. id \in S <=> Says(g, id, now, means, q, inside, scope)
          BY <1>3
        <5> HIDE DEF means
        <5>2. Says(g, id, now, means, q, inside, scope) <=> \A x \in q.terms : means[<<x, inside, scope>>]
          BY <2>5, SaysByForm
        <5> QED BY <5>1, <5>2 DEF means
      <4>2. \A id \in here : id \in S <=> \A x \in q.terms : id \in T[x]
        BY <1>6, <3>2, <4>1
      <4> QED BY <1>3, <4>2
    <3>4. Fitting(InterAnswers(g, PartAnswers(of, q, inside, scope)), InAll(g, q.terms, T), loose)
      BY <1>1, <1>5, <2>5, <3>2, IntersectionFits
    <3> QED BY <3>1, <3>3, <3>4 DEF InAll
  <2>6. CASE q.op = "union"
    <3>1. answers = UnionAnswers(PartAnswers(of, q, inside, scope))
      BY <2>6, UnionIs DEF answers
    <3>2. Parts(q) = q.terms
      BY <2>6 DEF Parts
    <3>3. S = {id \in here : \E x \in q.terms : id \in T[x]}
      <4>1. \A id \in here : id \in S <=> \E x \in q.terms : Meanings(g, id, now)[<<x, inside, scope>>]
        <5> SUFFICES ASSUME NEW id \in here PROVE id \in S <=> \E x \in q.terms : Meanings(g, id, now)[<<x, inside, scope>>]
          OBVIOUS
        <5> DEFINE means == Meanings(g, id, now)
        <5>1. id \in S <=> Says(g, id, now, means, q, inside, scope)
          BY <1>3
        <5> HIDE DEF means
        <5>2. Says(g, id, now, means, q, inside, scope) <=> \E x \in q.terms : means[<<x, inside, scope>>]
          BY <2>6, SaysByForm
        <5> QED BY <5>1, <5>2 DEF means
      <4>2. \A id \in here : id \in S <=> \E x \in q.terms : id \in T[x]
        BY <1>6, <3>2, <4>1
      <4> QED BY <1>3, <4>2
    <3>4. \A x \in q.terms : T[x] \subseteq here
      BY <1>6, <3>2
    <3> QED BY <1>1, <1>5, <2>6, <3>1, <3>3, <3>4, UnionFits
  <2> QED BY <2>1, <2>2, <2>3, <2>4, <2>5, <2>6, FormsAreQueries
<1>8. c[1] = q /\ c[2] = inside
  OBVIOUS
<1> HIDE DEF of, S, loose, answers, T
<1>9. Fitting(of[c], S, loose)
  BY <1>2, <1>7
<1> HIDE DEF c
<1> QED BY <1>8, <1>9 DEF Told, S, c, loose, of

LEMMA EverythingIsTold ==
    ASSUME NEW g, Whole(g), AllDated(g), NEW now
    PROVE  \A q \in Forms, inside \in SUBSET Named : \A w : Good(w) => Told(g, now, <<q, inside, w>>)
<1> DEFINE S == {n \in Nat : \A q \in Forms, inside \in SUBSET Named : \A w :
                    Weight(q, inside) < n /\ Good(w) => Told(g, now, <<q, inside, w>>)}
<1>1. 0 \in S
  BY Weights
<1>2. ASSUME NEW n \in S PROVE n + 1 \in S
  <2> SUFFICES ASSUME NEW q \in Forms, NEW inside \in SUBSET Named, NEW w, Weight(q, inside) < n + 1, Good(w)
               PROVE  Told(g, now, <<q, inside, w>>)
    BY DEF S
  <2>1. /\ Weight(q, inside) \in Nat
        /\ \A x \in Parts(q) : x \in Forms /\ Weight(x, inside) < Weight(q, inside)
        /\ \A name \in Named \ inside :
              Library[name] \in Forms /\ Weight(Library[name], inside \cup {name}) < Weight(q, inside)
    BY Weights
  <2>2. \A x \in Forms, some \in SUBSET Named : \A v :
           Weight(x, some) < Weight(q, inside) /\ Good(v) => Told(g, now, <<x, some, v>>)
    <3> SUFFICES ASSUME NEW x \in Forms, NEW some \in SUBSET Named, NEW v,
                        Weight(x, some) < Weight(q, inside), Good(v)
                 PROVE  Told(g, now, <<x, some, v>>)
      OBVIOUS
    <3>1. Weight(x, some) \in Nat
      BY Weights
    <3>2. n \in Nat
      OBVIOUS
    <3>3. \A a, b \in Nat : a < b /\ b < n + 1 => a < n
      BY <3>2
    <3>4. Weight(x, some) < n
      BY <2>1, <3>1, <3>3
    <3> QED BY <3>4 DEF S
  <2> HIDE DEF S
  <2>3. \A x \in Parts(q) : \A v : Good(v) => Told(g, now, <<x, inside, v>>)
    BY <2>1, <2>2
  <2>4. \A name \in Named \ inside : Told(g, now, <<Library[name], inside \cup {name}, w>>)
    <3> SUFFICES ASSUME NEW name \in Named \ inside PROVE Told(g, now, <<Library[name], inside \cup {name}, w>>)
      OBVIOUS
    <3> DEFINE more == inside \cup {name}
    <3>1. more \in SUBSET Named
      OBVIOUS
    <3>2. Library[name] \in Forms /\ Weight(Library[name], more) < Weight(q, inside)
      BY <2>1
    <3> HIDE DEF more
    <3>3. Told(g, now, <<Library[name], more, w>>)
      BY <2>2, <3>1, <3>2
    <3> QED BY <3>3 DEF more
  <2> QED BY <2>3, <2>4, TellingIsTelling
<1>3. S = Nat
  <2>1. S \in SUBSET Nat
    OBVIOUS
  <2> HIDE DEF S
  <2> QED BY <1>1, <1>2, <2>1, Induction
<1> SUFFICES ASSUME NEW q \in Forms, NEW inside \in SUBSET Named, NEW w, Good(w)
             PROVE  Told(g, now, <<q, inside, w>>)
  OBVIOUS
<1>4. Heaviest \in S /\ Weight(q, inside) < Heaviest
  BY <1>3, Weights
<1> QED BY <1>4

-----------------------------------------------------------------------------
(* The nodes of a graph that a log builds. *)

\* A node as a merge leaves it.
Merged(ns, id) ==
    [RewrittenNode(Retired(ns), ns[id]) EXCEPT !.aliases = MergedAliases(ns, Retired(ns), id)]

LEMMA BuiltNodes ==
    ASSUME NEW ns, NEW es
    PROVE  /\ Build(ns, es).nodes = [id \in DOMAIN ns \ DOMAIN Retired(ns) |-> Merged(ns, id)]
           /\ Build(ns, es).names = Bindings(Build(ns, es).nodes)
           /\ Build(ns, es).retired = Retired(ns)
           /\ Build(ns, es).edges = KeptEdges(Retired(ns), es)
<1>1. \A f : Explicit(f) = f
  BY DEF Explicit
<1> DEFINE merged == [id \in DOMAIN ns \ DOMAIN Retired(ns) |-> Merged(ns, id)]
<1>2. /\ Build(ns, es).nodes = Explicit([id \in DOMAIN ns \ DOMAIN Explicit(Retired(ns)) |->
            [RewrittenNode(Explicit(Retired(ns)), ns[id])
                EXCEPT !.aliases = MergedAliases(ns, Explicit(Retired(ns)), id)]])
      /\ Build(ns, es).names = Bindings(Build(ns, es).nodes)
      /\ Build(ns, es).retired = Explicit(Retired(ns))
      /\ Build(ns, es).edges = KeptEdges(Explicit(Retired(ns)), es)
  BY DEF Build
<1>3. Explicit(Retired(ns)) = Retired(ns)
  BY <1>1
<1>4. Build(ns, es).nodes = Explicit(merged)
  BY <1>2, <1>3 DEF Merged
<1>5. Explicit(merged) = merged
  BY <1>1
<1> QED BY <1>2, <1>3, <1>4, <1>5

\* A merge leaves a node's dates.
LEMMA MergedIsDated ==
    ASSUME NEW ns, NEW id, IsFact(ns[id]), IsDated(ns[id])
    PROVE  IsDated(Merged(ns, id))
<1> DEFINE n == RewrittenNode(Retired(ns), ns[id])
           names == MergedAliases(ns, Retired(ns), id)
<1>1. {"at", "at_expr"} \subseteq DOMAIN ns[id]
  BY DEF IsFact, Node
<1>2. n.at = ns[id].at /\ n.at_expr = ns[id].at_expr /\ DOMAIN n = DOMAIN ns[id]
  BY <1>1 DEF RewrittenNode
<1>3. Merged(ns, id) = [n EXCEPT !.aliases = names]
  BY DEF Merged
<1> HIDE DEF n, names
<1>4. Merged(ns, id).at = ns[id].at /\ Merged(ns, id).at_expr = ns[id].at_expr
  BY <1>1, <1>2, <1>3
<1> QED BY <1>4 DEF IsDated

\* What the log dates, by numbers or by offsets from others.
Dated(ns) == \A id \in DOMAIN ns : IsDated(ns[id])

\* Of the log and of the graph.
AskInv == IInv /\ Dated(nodes)

LEMMA AskInit == Init => AskInv
<1> SUFFICES ASSUME Init PROVE AskInv
  OBVIOUS
<1>1. PICK corpus \in Corpora : nodes = corpus.nodes
  BY DEF Init
<1>2. Dated(nodes)
  BY <1>1, QueryCheckAssumption DEF Dated
<1> QED BY <1>2, InitEstablishes DEF AskInv

LEMMA AskNext == AskInv /\ [Next]_vars => AskInv'
<1> SUFFICES ASSUME AskInv, [Next]_vars PROVE AskInv'
  OBVIOUS
<1>1. IInv'
  BY NextPreserves DEF AskInv
<1>2. ASSUME NEW id \in DOMAIN nodes PROVE
        /\ \A status : IsDated([nodes[id] EXCEPT !.status = status])
        /\ \A into : IsDated([nodes[id] EXCEPT !.same_as = into])
  <2>1. {"at", "at_expr"} \subseteq DOMAIN nodes[id]
    BY DEF AskInv, IInv, LogInv, IsFact, Node
  <2> DEFINE n == nodes[id]
  <2>2. IsDated(n)
    BY DEF AskInv, Dated
  <2> HIDE DEF n
  <2>3. \A status : IsDated([n EXCEPT !.status = status])
    BY <2>1, <2>2 DEF IsDated, n
  <2>4. \A into : IsDated([n EXCEPT !.same_as = into])
    BY <2>1, <2>2 DEF IsDated, n
  <2> QED BY <2>3, <2>4 DEF n
<1>3. ASSUME NEW id \in DOMAIN nodes, NEW fields, Write(id, fields), IsDated(fields) PROVE Dated(nodes')
  BY <1>3 DEF AskInv, Dated, Write
<1>4. ASSUME NEW p \in DOMAIN draft, Relate(p) PROVE Dated(nodes')
  BY <1>4 DEF AskInv, Relate
<1>5. ASSUME NEW id \in DOMAIN nodes, Withdraw(id) PROVE Dated(nodes')
  BY <1>2, <1>3, <1>5 DEF Withdraw
<1>6. ASSUME NEW id \in DOMAIN nodes, NEW status, AssertAgain(id, status) PROVE Dated(nodes')
  BY <1>2, <1>3, <1>6 DEF AssertAgain
<1>7. ASSUME NEW id \in DOMAIN nodes, NEW into \in DOMAIN nodes, Retire(id, into) PROVE Dated(nodes')
  BY <1>2, <1>3, <1>7 DEF Retire
<1>8. ASSUME UNCHANGED nodes PROVE Dated(nodes')
  BY <1>8 DEF AskInv, Dated
<1>9. ASSUME NEW fact, NEW source, NEW verdict, Rule(fact, source, verdict) PROVE Dated(nodes')
  BY <1>8, <1>9 DEF Rule, AskInv
<1>10. Dated(nodes')
  BY <1>4, <1>5, <1>6, <1>7, <1>8, <1>9 DEF Next, vars, AskInv
<1> QED BY <1>1, <1>10 DEF AskInv, Dated

LEMMA GraphIsDated == ASSUME AskInv PROVE AllDated(graph)
<1> DEFINE es == Stated(draft, stated)
<1>1. graph.nodes = [id \in DOMAIN nodes \ DOMAIN Retired(nodes) |-> Merged(nodes, id)]
  BY BuiltNodes DEF AskInv, IInv, GraphInv
<1>2. \A id \in DOMAIN nodes : IsFact(nodes[id]) /\ IsDated(nodes[id])
  BY DEF AskInv, IInv, LogInv, Dated
<1> QED BY <1>1, <1>2, MergedIsDated DEF AllDated

\* What every log and every graph of it stays.
THEOREM AskInvariance == Spec => []AskInv
BY AskInit, AskNext, PTL DEF Spec

\* A question is answered with the facts that it describes.
THEOREM AnswersAreWhatIsAsked == Spec => []AnswersMeanWhatTheySay
<1>1. ASSUME AskInv PROVE AnswersMeanWhatTheySay
  <2> SUFFICES ASSUME NEW q \in Queries, NEW now \in Clocks
               PROVE  MeanWhatItSays(Answers(graph, q, now), graph, q, now)
    BY DEF AnswersMeanWhatTheySay
  <2>1. Whole(graph) /\ AllDated(graph)
    BY <1>1, GraphIsWhole, GraphIsDated DEF AskInv
  <2> DEFINE none == {}
             c == <<q, none, NoScope>>
             S == Described(graph, now, c)
  <2>2. q \in Forms /\ none \in SUBSET Named
    BY QueryCheckAssumption
  <2> HIDE DEF none
  <2>3. Told(graph, now, c)
    BY <2>1, <2>2, NoScopeIsGood, EverythingIsTold
  <2>4. c[1] = q /\ c[2] = none
    OBVIOUS
  <2> HIDE DEF c
  <2>5. Fitting(Evaluations(graph, now)[c], S, Complements[<<q, none>>])
    BY <2>3, <2>4 DEF Told
  <2>6. Answers(graph, q, now) = Evaluations(graph, now)[c]
    BY DEF Answers, c, none
  <2>7. S = {id \in DOMAIN graph.nodes : Means(graph, q, id, now)}
    BY DEF Described, Means, c, none
  <2> HIDE DEF S
  <2>8. ASSUME NEW a \in Answers(graph, q, now), a.ok PROVE RowsOf(a.ids, graph, q, now)
    <3>1. a # Refused
      BY <2>8 DEF Refused
    <3>2. Enumerates(a.ids, S)
      BY <2>5, <2>6, <3>1 DEF Fitting
    <3> QED BY <2>7, <3>2 DEF RowsOf, Enumerates
  <2>9. (\E a, b \in Answers(graph, q, now) : a # b) => Complements[<<q, {}>>]
    BY <2>5, <2>6 DEF Fitting, none
  <2> QED BY <2>8, <2>9 DEF MeanWhatItSays
<1> QED BY <1>1, AskInvariance, PTL

-----------------------------------------------------------------------------
(* Deadlines. *)

\* Where pairs lead from x when each leads from a node of S to one, and no two from one.
OneWay(pairs, S) ==
    /\ pairs \subseteq S \X S
    /\ \A p, r \in pairs : p[1] = r[1] => p[2] = r[2]

LEMMA ReachedByNone ==
    ASSUME NEW S, NEW pairs, OneWay(pairs, S), NEW x \in S, \A p \in pairs : p[1] # x
    PROVE  Reached(pairs, S, x) = {}
<1> DEFINE none == {}
<1>1. none \in SUBSET S /\ \A p \in pairs : p[1] \in none \cup {x} => p[2] \in none
  OBVIOUS
<1> HIDE DEF none
<1>2. Reached(pairs, S, x) \subseteq none
  BY <1>1 DEF Reached
<1> QED BY <1>2 DEF none

LEMMA ReachedIsClosed ==
    ASSUME NEW S, NEW pairs, OneWay(pairs, S), NEW x \in S
    PROVE  /\ Reached(pairs, S, x) \in SUBSET S
           /\ \A p \in pairs : p[1] \in Reached(pairs, S, x) \cup {x} => p[2] \in Reached(pairs, S, x)
           /\ \A T \in SUBSET S :
                (\A p \in pairs : p[1] \in T \cup {x} => p[2] \in T) => Reached(pairs, S, x) \subseteq T
<1>1. \A p \in pairs : p[2] \in S
  BY DEF OneWay
<1> QED BY <1>1 DEF Reached

LEMMA ReachedByOne ==
    ASSUME NEW S, NEW pairs, OneWay(pairs, S), NEW x \in S, NEW z \in S, <<x, z>> \in pairs
    PROVE  Reached(pairs, S, x) = {z} \cup Reached(pairs, S, z)
<1> DEFINE R(u) == Reached(pairs, S, u)
           one == <<x, z>>
<1>1. \A u \in S : /\ R(u) \in SUBSET S
                   /\ \A p \in pairs : p[1] \in R(u) \cup {u} => p[2] \in R(u)
                   /\ \A T \in SUBSET S :
                        (\A p \in pairs : p[1] \in T \cup {u} => p[2] \in T) => R(u) \subseteq T
  BY ReachedIsClosed
<1>2. one[1] = x /\ one[2] = z /\ one \in pairs
  OBVIOUS
<1>3. \A p \in pairs : p[1] = x => p[2] = z
  <2> HIDE DEF one
  <2> QED BY <1>2 DEF OneWay
<1> HIDE DEF R, one
<1>4. R(x) \subseteq {z} \cup R(z)
  <2> DEFINE T == {z} \cup R(z)
  <2>1. T \in SUBSET S
    BY <1>1
  <2>2. \A p \in pairs : p[1] \in T \cup {x} => p[2] \in T
    BY <1>1, <1>3
  <2> HIDE DEF T
  <2>3. R(x) \subseteq T
    BY <1>1, <2>1, <2>2
  <2> QED BY <2>3 DEF T
<1>5. z \in R(x)
  BY <1>1, <1>2
<1>6. R(z) \subseteq R(x)
  <2> DEFINE T == R(x)
  <2>1. \A p \in pairs : p[1] \in T \cup {z} => p[2] \in T
    BY <1>1, <1>5
  <2>2. T \in SUBSET S
    BY <1>1
  <2> HIDE DEF T
  <2>3. R(z) \subseteq T
    BY <1>1, <2>1, <2>2
  <2> QED BY <2>3 DEF T
<1>7. R(x) = {z} \cup R(z)
  BY <1>4, <1>5, <1>6
<1> QED BY <1>7 DEF R

\* Nothing that leads to where nothing leads from leads to itself.
LEMMA NoWayBack ==
    ASSUME NEW S, NEW pairs, OneWay(pairs, S), NEW x \in S, NEW id \in S,
           \A p \in pairs : p[1] # id, id \in Reached(pairs, S, x)
    PROVE  x \notin Reached(pairs, S, x)
<1> SUFFICES ASSUME x \in Reached(pairs, S, x) PROVE FALSE
  OBVIOUS
<1> DEFINE R(u) == Reached(pairs, S, u)
           T == {y \in R(x) : x \in R(y)}
<1>1. R(x) \in SUBSET S
  BY ReachedIsClosed
<1>2. ASSUME NEW p \in pairs, p[1] \in T \cup {x} PROVE p[2] \in T
  <2> DEFINE u == p[1]
             v == p[2]
  <2>1. u \in S /\ v \in S /\ <<u, v>> \in pairs
    <3>1. p \in S \X S
      BY DEF OneWay
    <3> QED BY <3>1
  <2>2. x \in R(u) /\ u \in R(x) \cup {x}
    BY <1>2
  <2>3. v \in R(x)
    BY <2>2, ReachedIsClosed
  <2> HIDE DEF u, v
  <2>4. R(u) = {v} \cup R(v)
    BY <2>1, ReachedByOne
  <2> HIDE DEF R
  <2>5. x \in R(v)
    <3>1. CASE x = v
      BY <3>1 DEF R
    <3>2. CASE x # v
      BY <2>2, <2>4, <3>2
    <3> QED BY <3>1, <3>2
  <2>6. v \in T
    BY <2>3, <2>5
  <2> QED BY <2>6 DEF v
<1>3. T \in SUBSET S
  BY <1>1
<1>4. R(x) \subseteq T
  <2> HIDE DEF T
  <2> QED BY <1>2, <1>3, ReachedIsClosed
<1>5. x \in R(id)
  BY <1>4
<1>6. R(id) = {}
  BY ReachedByNone
<1> QED BY <1>5, <1>6

-----------------------------------------------------------------------------
\* Days added to days.
LEMMA DaysAdd ==
    ASSUME NEW d \in Int, NEW j \in Int, NEW k \in Int
    PROVE  AddDays(AddDays(d, j), k) = AddDays(d, j + k)
<1> DEFINE Day(c) == DaysBefore((c \div 10) + 0) + (c % 10) - 1
           o == Day(d)
           c == DateOfDay(o + j)
<1>1. \A x, n \in Int : AddDays(x, n) = DateOfDay(Day(x) + n)
  BY DEF AddDays, AddDate
<1>2. o \in Int
  <2>1. (d \div 10) + 0 \in Int /\ d % 10 \in Int
    OBVIOUS
  <2> QED BY <2>1, DaysBeforeIsANumber
<1>3. o + j \in Int /\ (o + j) + k = o + (j + k)
  <2> HIDE DEF o
  <2> QED BY <1>2
<1>4. c \in Int /\ DaysBefore(c \div 10) + (c % 10) - 1 = o + j
  <2> HIDE DEF o
  <2> QED BY <1>3, DaysHaveDates
<1> HIDE DEF c
<1>5. Day(c) = o + j
  <2>1. (c \div 10) + 0 = c \div 10
    BY <1>4
  <2> HIDE DEF o
  <2> QED BY <1>4, <2>1
<1> HIDE DEF Day, o
<1>6. AddDays(d, j) = c /\ AddDays(c, k) = DateOfDay((o + j) + k)
  BY <1>1, <1>4, <1>5 DEF c, o
<1>7. AddDays(d, j + k) = DateOfDay(o + (j + k))
  BY <1>1 DEF o
<1> QED BY <1>3, <1>6, <1>7

LEMMA DaysAreDays ==
    ASSUME NEW d \in Int, NEW k \in Int
    PROVE  AddDays(d, k) \in Int /\ IsDay(AddDays(d, k))
BY AddedDatesAreDays DEF AddDays

\* Offsets in days come to a day more from a day later.
LEMMA DaysFollow ==
    ASSUME NEW base \in Int, IsDay(base), NEW terms \in Seq(OffsetTerms),
           \A n \in DOMAIN terms : terms[n].unit = "d"
    PROVE  DateAfter(AddDays(base, 1), terms) = AddDays(DateAfter(base, terms), 1)
<1> DEFINE N == Len(terms)
           next == AddDays(base, 1)
           By(n) == IF terms[n].minus THEN -terms[n].n ELSE terms[n].n
<1>1. next \in Int /\ IsDay(next) /\ 1 \in Int
  BY DaysAreDays
<1>2. \A n \in DOMAIN terms : terms[n].unit \in Units
  BY DEF Units
<1>3. N \in Nat /\ DOMAIN terms = 1..N /\ \A n \in 1..N : terms[n] \in OffsetTerms
  OBVIOUS
<1>4. \A n \in 1..N : By(n) \in Int
  BY <1>3 DEF OffsetTerms
<1>5. \A n \in 1..N, d \in Int : Offset(d, terms[n]) = AddDays(d, By(n))
  BY <1>3 DEF Offset
<1> HIDE DEF N, By
<1>6. PICK f \in [0..N -> Int] :
         f[0] = base /\ (\A n \in 1..N : f[n] = Offset(f[n - 1], terms[n])) /\ DateAfter(base, terms) = f[N]
  BY <1>2, OffsetsAreCounted DEF N
<1> HIDE DEF next
<1>7. PICK h \in [0..N -> Int] :
         h[0] = next /\ (\A n \in 1..N : h[n] = Offset(h[n - 1], terms[n])) /\ DateAfter(next, terms) = h[N]
  BY <1>1, <1>2, OffsetsAreCounted DEF N
<1> DEFINE S == {n \in Nat : n \in 0..N => h[n] = AddDays(f[n], 1)}
<1>8. 0 \in S
  BY <1>6, <1>7 DEF next
<1>9. ASSUME NEW n \in S PROVE n + 1 \in S
  <2> SUFFICES ASSUME n + 1 \in 0..N PROVE h[n + 1] = AddDays(f[n + 1], 1)
    OBVIOUS
  <2> DEFINE k == n + 1
  <2>1. k \in 1..N /\ k - 1 = n /\ n \in 0..N
    BY <1>3
  <2>2. h[n] = AddDays(f[n], 1)
    BY <2>1
  <2> HIDE DEF k
  <2>3. f[n] \in Int /\ h[n] \in Int /\ By(k) \in Int
    BY <1>4, <2>1
  <2>4. f[k] = AddDays(f[n], By(k)) /\ h[k] = AddDays(h[n], By(k))
    BY <1>5, <1>6, <1>7, <2>1, <2>3
  <2> DEFINE d == f[n]
             b == By(k)
  <2>5. AddDays(AddDays(d, 1), b) = AddDays(d, 1 + b) /\ AddDays(AddDays(d, b), 1) = AddDays(d, b + 1)
    <3>1. d \in Int /\ b \in Int /\ 1 \in Int
      BY <2>3
    <3> HIDE DEF d, b
    <3> QED BY <3>1, DaysAdd
  <2>6. 1 + b = b + 1
    BY <2>3
  <2> QED BY <2>2, <2>4, <2>5, <2>6 DEF k
<1>10. S = Nat
  <2>1. S \in SUBSET Nat
    OBVIOUS
  <2> HIDE DEF S
  <2> QED BY <1>8, <1>9, <2>1, Induction
<1>11. N \in 0..N
  BY <1>3
<1>12. h[N] = AddDays(f[N], 1)
  BY <1>3, <1>10, <1>11
<1> QED BY <1>6, <1>7, <1>12 DEF next

\* Offsets in units there are, from a day, come to a day.
LEMMA OffsetsFromDays ==
    ASSUME NEW base \in Int, IsDay(base), NEW terms \in Seq(OffsetTerms),
           \A n \in DOMAIN terms : terms[n].unit = "d"
    PROVE  IsDay(DateAfter(base, terms))
<1>1. \A n \in DOMAIN terms : terms[n].unit \in Units
  BY DEF Units
<1>2. PICK f \in [0..Len(terms) -> Int] :
         /\ f[0] = base
         /\ \A n \in 1..Len(terms) : f[n] = Offset(f[n - 1], terms[n]) /\ IsDay(f[n])
         /\ DateAfter(base, terms) = f[Len(terms)]
  BY <1>1, OffsetsAreCounted
<1>3. Len(terms) \in Nat
  OBVIOUS
<1>4. Len(terms) = 0 \/ Len(terms) \in 1..Len(terms)
  BY <1>3
<1> QED BY <1>2, <1>4

\* The date of a node, while some are asked for.
DateOf(g, id, seen) == ResolvedDates(g)[<<id, seen>>]

LEMMA DatesByCase ==
    ASSUME NEW g, DOMAIN g.nodes \subseteq Ids, AllDated(g), NEW id \in Ids, NEW seen \in SUBSET Ids
    PROVE  /\ DateOf(g, id, seen) \in Int
           /\ id \notin DOMAIN g.nodes \/ id \in seen => DateOf(g, id, seen) = NoDate
           /\ id \in DOMAIN g.nodes \ seen /\ g.nodes[id].at # NoDate =>
                DateOf(g, id, seen) = g.nodes[id].at
           /\ id \in DOMAIN g.nodes \ seen /\ g.nodes[id].at = NoDate /\ g.nodes[id].at_expr = << >> =>
                DateOf(g, id, seen) = NoDate
           /\ id \in DOMAIN g.nodes \ seen /\ g.nodes[id].at = NoDate /\ g.nodes[id].at_expr # << >> =>
                DateOf(g, id, seen) =
                    DateAfter(DateOf(g, g.nodes[id].at_expr[1], seen \cup {id}), g.nodes[id].at_expr[2])
<1> DEFINE n == g.nodes[id]
           date == DateOf(g, id, seen)
           basis == DateAfter(DateOf(g, n.at_expr[1], seen \cup {id}), n.at_expr[2])
<1>1. /\ date = IF id \notin DOMAIN g.nodes \/ id \in seen THEN NoDate
                ELSE IF n.at # NoDate THEN n.at
                ELSE IF n.at_expr = << >> THEN NoDate ELSE basis
      /\ date \in Int
  BY DatesUnfold DEF DateOf
<1> HIDE DEF date, basis
<1>3. /\ id \notin DOMAIN g.nodes \/ id \in seen => date = NoDate
      /\ id \in DOMAIN g.nodes \ seen /\ n.at # NoDate => date = n.at
      /\ id \in DOMAIN g.nodes \ seen /\ n.at = NoDate /\ n.at_expr = << >> => date = NoDate
      /\ id \in DOMAIN g.nodes \ seen /\ n.at = NoDate /\ n.at_expr # << >> => date = basis
  <2> HIDE DEF n
  <2> QED BY <1>1
<1> QED BY <1>1, <1>3 DEF date, basis

LEMMA CorrectedIsDated ==
    ASSUME NEW g, "nodes" \in DOMAIN g, DOMAIN g.nodes \subseteq Ids, AllDated(g), NEW id \in DOMAIN g.nodes,
           {"at", "at_expr"} \subseteq DOMAIN g.nodes[id], g.nodes[id].at # NoDate
    PROVE  LET c == Corrected(g, id)
           IN  /\ DOMAIN c.nodes = DOMAIN g.nodes
               /\ AllDated(c)
               /\ \A x \in DOMAIN g.nodes : x # id => c.nodes[x] = g.nodes[x]
               /\ c.nodes[id].at = AddDays(g.nodes[id].at, 1)
               /\ c.nodes[id].at # NoDate
<1> DEFINE c == Corrected(g, id)
           n == g.nodes[id]
           day == AddDays(n.at, 1)
<1>1. n.at \in Int /\ (n.at_expr = << >> \/ (n.at_expr[1] \in Ids /\ n.at_expr[2] \in Seq(OffsetTerms)))
  BY DEF AllDated, IsDated
<1>2. day \in Int /\ IsDay(day)
  <2> DEFINE at == n.at
  <2>1. at \in Int /\ 1 \in Int /\ day = AddDays(at, 1)
    BY <1>1
  <2> HIDE DEF at, day, n
  <2> QED BY <2>1, DaysAreDays
<1>3. /\ DOMAIN c.nodes = DOMAIN g.nodes
      /\ \A x \in DOMAIN g.nodes : x # id => c.nodes[x] = g.nodes[x]
      /\ c.nodes[id] = [n EXCEPT !.at = day]
  BY DEF Corrected
<1> HIDE DEF c, day
<1>4. c.nodes[id].at = day /\ c.nodes[id].at_expr = n.at_expr
  BY <1>3
<1>5. day # NoDate
  BY <1>2 DEF IsDay, NoDate
<1>6. IsDated(c.nodes[id])
  BY <1>1, <1>2, <1>4 DEF IsDated
<1>7. AllDated(c)
  BY <1>3, <1>6 DEF AllDated
<1> QED BY <1>3, <1>4, <1>5, <1>7 DEF c, day

LEMMA DatedFromLeads ==
    ASSUME NEW g
    PROVE  /\ OneWay(DatedFrom(g), DOMAIN g.nodes)
           /\ \A x \in DOMAIN g.nodes :
                /\ (\A p \in DatedFrom(g) : p[1] # x)
                   \/ (g.nodes[x].at = NoDate /\ g.nodes[x].at_expr # << >>
                       /\ g.nodes[x].at_expr[1] \in DOMAIN g.nodes)
                /\ g.nodes[x].at = NoDate /\ g.nodes[x].at_expr # << >>
                   /\ g.nodes[x].at_expr[1] \in DOMAIN g.nodes =>
                      <<x, g.nodes[x].at_expr[1]>> \in DatedFrom(g)
<1> DEFINE D == DOMAIN g.nodes
           One(x) == g.nodes[x].at = NoDate /\ g.nodes[x].at_expr # << >>
           Two(x) == g.nodes[x].at_expr[1]
<1>1. DatedFrom(g) = {xy \in D \X D : One(xy[1]) /\ Two(xy[1]) = xy[2]}
  BY DEF DatedFrom
<1> HIDE DEF D, One, Two
<1>2. \A p \in DatedFrom(g) : p \in D \X D /\ One(p[1]) /\ Two(p[1]) = p[2] /\ p[2] \in D
  BY <1>1
<1>3. \A x \in D : One(x) /\ Two(x) \in D => <<x, Two(x)>> \in DatedFrom(g)
  BY <1>1
<1>4. OneWay(DatedFrom(g), D)
  BY <1>2 DEF OneWay
<1>5. \A x \in D : (\A p \in DatedFrom(g) : p[1] # x) \/ (One(x) /\ Two(x) \in D)
  BY <1>2
<1> QED BY <1>3, <1>4, <1>5 DEF One, Two, D

LEMMA DatedInDaysLeads ==
    ASSUME NEW g
    PROVE  /\ OneWay(DatedInDays(g), DOMAIN g.nodes)
           /\ \A p \in DatedInDays(g) : p \in DatedFrom(g)
           /\ \A p \in DatedInDays(g) :
                \A n \in DOMAIN g.nodes[p[1]].at_expr[2] : g.nodes[p[1]].at_expr[2][n].unit = "d"
<1>1. \A p \in DatedInDays(g) :
         /\ p \in DatedFrom(g)
         /\ \A n \in DOMAIN g.nodes[p[1]].at_expr[2] : g.nodes[p[1]].at_expr[2][n].unit = "d"
  BY DEF DatedInDays
<1>2. OneWay(DatedFrom(g), DOMAIN g.nodes)
  BY DatedFromLeads
<1>3. OneWay(DatedInDays(g), DOMAIN g.nodes)
  BY <1>1, <1>2 DEF OneWay
<1> QED BY <1>1, <1>3

LEMMA DaysAreDates == \A d \in Int : IsDay(d) => d # NoDate
BY DEF IsDay, NoDate

\* What is not dated from an event keeps its date, and what is in days moves with it.
Moves(g, id, x, seen) ==
    LET R == Reached(DatedInDays(g), DOMAIN g.nodes, x)
    IN  /\ x # id /\ (x \in DOMAIN g.nodes => id \notin Reached(DatedFrom(g), DOMAIN g.nodes, x)) =>
              DateOf(Corrected(g, id), x, seen) = DateOf(g, x, seen)
        /\ x \in DOMAIN g.nodes /\ (x = id \/ id \in R) /\ x \notin seen /\ R \cap seen = {} =>
              /\ IsDay(DateOf(g, x, seen))
              /\ DateOf(Corrected(g, id), x, seen) = AddDays(DateOf(g, x, seen), 1)

LEMMA AllMove ==
    ASSUME NEW g, "nodes" \in DOMAIN g, DOMAIN g.nodes \subseteq Ids, AllDated(g), NEW id \in DOMAIN g.nodes,
           {"at", "at_expr"} \subseteq DOMAIN g.nodes[id], IsDay(g.nodes[id].at),
           NEW x0 \in Ids, NEW seen0 \in SUBSET Ids
    PROVE  Moves(g, id, x0, seen0)
<1> DEFINE c == Corrected(g, id)
           pairs == DatedFrom(g)
           near == DatedInDays(g)
           D == DOMAIN g.nodes
           R(u) == Reached(pairs, D, u)
           Rd(u) == Reached(near, D, u)
           S == {n \in Nat : \A x \in Ids : \A seen \in SUBSET Ids :
                    Cardinality(Ids \ seen) < n => Moves(g, id, x, seen)}
<1>0. g.nodes[id].at \in Int /\ g.nodes[id].at # NoDate
  BY DaysAreDates DEF AllDated, IsDated
<1>1. /\ DOMAIN c.nodes = D
      /\ AllDated(c)
      /\ \A x \in D : x # id => c.nodes[x] = g.nodes[x]
      /\ c.nodes[id].at = AddDays(g.nodes[id].at, 1)
      /\ c.nodes[id].at # NoDate
  BY <1>0, CorrectedIsDated
<1>2. OneWay(pairs, D) /\ OneWay(near, D) /\ \A p \in near : p \in pairs
  BY DatedFromLeads, DatedInDaysLeads
<1>3. /\ \A p \in pairs : p[1] # id
      /\ \A p \in near : p[1] # id
  BY <1>0, <1>2, DatedFromLeads
<1>4. 0 \in S
  <2>1. \A s \in SUBSET Ids : Cardinality(Ids \ s) \in Nat
    BY Room
  <2>2. \A s \in SUBSET Ids : ~ (Cardinality(Ids \ s) < 0)
    BY <2>1
  <2> QED BY <2>2
<1>5. ASSUME NEW n \in S PROVE n + 1 \in S
  <2> SUFFICES ASSUME NEW x \in Ids, NEW seen \in SUBSET Ids, Cardinality(Ids \ seen) < n + 1
               PROVE  Moves(g, id, x, seen)
    OBVIOUS
  <2> DEFINE old == DateOf(g, x, seen)
             new == DateOf(c, x, seen)
             z == g.nodes[x].at_expr[1]
             terms == g.nodes[x].at_expr[2]
             t == seen \cup {x}
  <2>1. CASE x \notin D \/ x \in seen
    <3>1. old = NoDate /\ new = NoDate
      BY <1>1, <2>1, DatesByCase
    <3> QED BY <2>1, <3>1 DEF Moves
  <2>2. CASE x \in D \ seen /\ x = id
    <3>1. old = g.nodes[id].at /\ new = AddDays(g.nodes[id].at, 1)
      BY <1>0, <1>1, <2>2, DatesByCase
    <3> QED BY <2>2, <3>1 DEF Moves
  <2>3. CASE x \in D \ seen /\ x # id /\ ~ (g.nodes[x].at = NoDate /\ g.nodes[x].at_expr # << >>)
    <3>1. c.nodes[x] = g.nodes[x]
      BY <1>1, <2>3
    <3>2. old = new
      <4>1. CASE g.nodes[x].at # NoDate
        <5>1. old = g.nodes[x].at
          BY <2>3, <4>1, DatesByCase
        <5>2. new = c.nodes[x].at
          <6> HIDE DEF c, D
          <6>1. DOMAIN c.nodes \subseteq Ids /\ x \in DOMAIN c.nodes \ seen /\ c.nodes[x].at # NoDate
            BY <1>1, <2>3, <3>1, <4>1 DEF D
          <6> QED BY <1>1, <6>1, DatesByCase
        <5> QED BY <3>1, <5>1, <5>2
      <4>2. CASE g.nodes[x].at = NoDate /\ g.nodes[x].at_expr = << >>
        <5>1. old = NoDate
          BY <2>3, <4>2, DatesByCase
        <5>2. new = NoDate
          <6> HIDE DEF c, D
          <6>1. /\ DOMAIN c.nodes \subseteq Ids /\ x \in DOMAIN c.nodes \ seen
                /\ c.nodes[x].at = NoDate /\ c.nodes[x].at_expr = << >>
            BY <1>1, <2>3, <3>1, <4>2 DEF D
          <6> QED BY <1>1, <6>1, DatesByCase
        <5> QED BY <5>1, <5>2
      <4> QED BY <2>3, <4>1, <4>2
    <3>3. Rd(x) = {}
      <4>1. \A p \in near : p[1] # x
        BY <1>2, <2>3, DatedFromLeads
      <4> HIDE DEF near, D
      <4> QED BY <1>2, <2>3, <4>1, ReachedByNone
    <3> QED BY <2>3, <3>2, <3>3 DEF Moves
  <2>4. CASE x \in D \ seen /\ x # id /\ g.nodes[x].at = NoDate /\ g.nodes[x].at_expr # << >>
    <3>1. c.nodes[x] = g.nodes[x]
      BY <1>1, <2>4
    <3>2. z \in Ids /\ terms \in Seq(OffsetTerms)
      BY <2>4 DEF AllDated, IsDated
    <3> DEFINE before == DateOf(g, z, t)
               after == DateOf(c, z, t)
    <3>3. old = DateAfter(before, terms)
      BY <2>4, DatesByCase
    <3>4. new = DateAfter(after, terms)
      <4> HIDE DEF c, D
      <4>1. /\ DOMAIN c.nodes \subseteq Ids /\ x \in DOMAIN c.nodes \ seen
            /\ c.nodes[x].at = NoDate /\ c.nodes[x].at_expr # << >>
        BY <1>1, <2>4, <3>1 DEF D
      <4>2. new = DateAfter(DateOf(c, c.nodes[x].at_expr[1], seen \cup {x}), c.nodes[x].at_expr[2])
        BY <1>1, <4>1, DatesByCase
      <4> QED BY <3>1, <4>2
    <3>5. t \in SUBSET Ids /\ Cardinality(Ids \ t) < n
      <4>1. seen \subseteq t /\ t # seen /\ t \in SUBSET Ids
        BY <2>4
      <4>2. Cardinality(Ids \ t) < Cardinality(Ids \ seen) /\ Cardinality(Ids \ t) \in Nat
            /\ Cardinality(Ids \ seen) \in Nat
        BY <4>1, Room
      <4>3. n \in Nat
        OBVIOUS
      <4> HIDE DEF t, S
      <4> QED BY <4>1, <4>2, <4>3
    <3>6. Moves(g, id, z, t)
      <4> HIDE DEF z, t
      <4> QED BY <3>2, <3>5
    <3>7. before \in Int
      BY <3>2, <3>5, DatesByCase
    <3>8. z \in D => R(x) = {z} \cup R(z)
      <4> SUFFICES ASSUME z \in D PROVE R(x) = {z} \cup R(z)
        OBVIOUS
      <4>1. <<x, z>> \in pairs
        BY <2>4, DatedFromLeads
      <4> HIDE DEF pairs, D, z
      <4> QED BY <1>2, <2>4, <4>1, ReachedByOne
    <3>9. ASSUME x # id, id \notin R(x) PROVE old = new
      <4>1. z # id /\ (z \in D => id \notin R(z))
        <5>1. id \in D
          OBVIOUS
        <5> HIDE DEF R, z
        <5> QED BY <3>8, <3>9, <5>1
      <4>2. after = before
        BY <3>6, <4>1 DEF Moves
      <4> QED BY <3>3, <3>4, <4>2
    <3>10. ASSUME id \in Rd(x), Rd(x) \cap seen = {} PROVE IsDay(old) /\ new = AddDays(old, 1)
      <4>1. z \in D /\ <<x, z>> \in near /\ \A i \in DOMAIN terms : terms[i].unit = "d"
        <5>1. PICK p \in near : p[1] = x
          <6> SUFFICES ASSUME \A p \in near : p[1] # x PROVE FALSE
            OBVIOUS
          <6>1. Rd(x) = {}
            <7> HIDE DEF near, D
            <7> QED BY <1>2, <2>4, ReachedByNone
          <6> QED BY <3>10, <6>1
        <5>2. p \in pairs /\ \A i \in DOMAIN terms : terms[i].unit = "d"
          BY <1>2, <5>1, DatedInDaysLeads
        <5>3. p = <<x, z>> /\ z \in D
          BY <5>1, <5>2 DEF DatedFrom
        <5> HIDE DEF near, D, z, terms
        <5> QED BY <5>1, <5>2, <5>3
      <4>2. Rd(x) = {z} \cup Rd(z)
        <5> HIDE DEF near, D, z
        <5> QED BY <1>2, <2>4, <4>1, ReachedByOne
      <4>3. z = id \/ id \in Rd(z)
        <5> HIDE DEF Rd, z
        <5> QED BY <3>10, <4>2
      <4>4. x \notin Rd(x)
        <5>1. id \in D
          OBVIOUS
        <5> HIDE DEF near, D
        <5> QED BY <1>2, <1>3, <2>4, <3>10, <5>1, NoWayBack
      <4>5. z \notin t /\ Rd(z) \cap t = {}
        <5> HIDE DEF Rd, z
        <5> QED BY <3>10, <4>2, <4>4
      <4>6. IsDay(before) /\ after = AddDays(before, 1)
        BY <3>6, <4>1, <4>3, <4>5 DEF Moves
      <4>7. new = AddDays(old, 1)
        <5> HIDE DEF before, after, terms, old, new
        <5>1. DateAfter(AddDays(before, 1), terms) = AddDays(DateAfter(before, terms), 1)
          BY <3>2, <3>7, <4>1, <4>6, DaysFollow
        <5> QED BY <3>3, <3>4, <4>6, <5>1
      <4>8. IsDay(old)
        <5> HIDE DEF before, terms, old
        <5> QED BY <3>2, <3>3, <3>7, <4>1, <4>6, OffsetsFromDays
      <4> QED BY <4>7, <4>8
    <3> HIDE DEF old, new
    <3>11. /\ x # id /\ (x \in D => id \notin R(x)) => new = old
           /\ x \in D /\ (x = id \/ id \in Rd(x)) /\ x \notin seen /\ Rd(x) \cap seen = {} =>
                 IsDay(old) /\ new = AddDays(old, 1)
      <4> HIDE DEF R, Rd, D
      <4> QED BY <2>4, <3>9, <3>10
    <3> QED BY <3>11 DEF Moves, old, new
  <2> QED BY <2>1, <2>2, <2>3, <2>4
<1>6. S = Nat
  <2>1. S \in SUBSET Nat
    OBVIOUS
  <2> HIDE DEF S
  <2> QED BY <1>4, <1>5, <2>1, Induction
<1>7. Cardinality(Ids \ seen0) \in Nat
  BY Room
<1>8. Cardinality(Ids \ seen0) + 1 \in S /\ Cardinality(Ids \ seen0) < Cardinality(Ids \ seen0) + 1
  <2> HIDE DEF S
  <2> QED BY <1>6, <1>7
<1> QED BY <1>8

\* What is dated from an event whose date is stated is so whoever else is asked for, if
\* those it is dated through are not.
Unseen(g, id, x, seen, s) ==
    LET R == {x} \cup Reached(DatedFrom(g), DOMAIN g.nodes, x)
    IN  x \in DOMAIN g.nodes /\ id \in R /\ R \cap seen = {} /\ R \cap s = {} =>
            DateOf(g, x, seen) = DateOf(g, x, s)

LEMMA AllUnseen ==
    ASSUME NEW g, DOMAIN g.nodes \subseteq Ids, AllDated(g), NEW id \in DOMAIN g.nodes, g.nodes[id].at # NoDate,
           NEW x0 \in Ids, NEW seen0 \in SUBSET Ids, NEW s0 \in SUBSET Ids
    PROVE  Unseen(g, id, x0, seen0, s0)
<1> DEFINE pairs == DatedFrom(g)
           D == DOMAIN g.nodes
           R(u) == Reached(pairs, D, u)
           S == {n \in Nat : \A x \in Ids : \A seen, s \in SUBSET Ids :
                    Cardinality(Ids \ seen) < n => Unseen(g, id, x, seen, s)}
<1>1. OneWay(pairs, D) /\ \A p \in pairs : p[1] # id
  BY DatedFromLeads
<1>2. 0 \in S
  <2>1. \A s \in SUBSET Ids : Cardinality(Ids \ s) \in Nat
    BY Room
  <2>2. \A s \in SUBSET Ids : ~ (Cardinality(Ids \ s) < 0)
    BY <2>1
  <2> QED BY <2>2
<1>3. ASSUME NEW n \in S PROVE n + 1 \in S
  <2> SUFFICES ASSUME NEW x \in Ids, NEW seen \in SUBSET Ids, NEW s \in SUBSET Ids,
                      Cardinality(Ids \ seen) < n + 1,
                      x \in D, x = id \/ id \in R(x), x \notin seen, x \notin s,
                      R(x) \cap seen = {}, R(x) \cap s = {}
               PROVE  DateOf(g, x, seen) = DateOf(g, x, s)
    BY DEF Unseen
  <2>1. CASE x = id
    <3>1. DateOf(g, x, seen) = g.nodes[id].at /\ DateOf(g, x, s) = g.nodes[id].at
      BY <2>1, DatesByCase
    <3> QED BY <3>1
  <2>2. CASE x # id
    <3> DEFINE z == g.nodes[x].at_expr[1]
               terms == g.nodes[x].at_expr[2]
               more == seen \cup {x}
               also == s \cup {x}
    <3>1. g.nodes[x].at = NoDate /\ g.nodes[x].at_expr # << >> /\ z \in D
      <4>1. CASE \A p \in pairs : p[1] # x
        <5>1. R(x) = {}
          <6> HIDE DEF pairs, D
          <6> QED BY <1>1, <4>1, ReachedByNone
        <5> QED BY <2>2, <5>1
      <4> QED BY <4>1, DatedFromLeads
    <3>2. R(x) = {z} \cup R(z)
      <4>1. <<x, z>> \in pairs
        BY <3>1, DatedFromLeads
      <4> HIDE DEF pairs, D, z
      <4> QED BY <1>1, <3>1, <4>1, ReachedByOne
    <3>3. x \notin R(x)
      <4>1. id \in D
        OBVIOUS
      <4> HIDE DEF pairs, D
      <4> QED BY <1>1, <2>2, <4>1, NoWayBack
    <3>4. /\ z \in Ids /\ more \in SUBSET Ids /\ also \in SUBSET Ids
          /\ z = id \/ id \in R(z)
          /\ ({z} \cup R(z)) \cap more = {} /\ ({z} \cup R(z)) \cap also = {}
      <4>1. z \in Ids
        BY <3>1
      <4> HIDE DEF R, z, D
      <4> QED BY <2>2, <3>2, <3>3, <4>1
    <3>5. Cardinality(Ids \ more) < n
      <4>1. seen \subseteq more /\ more # seen
        OBVIOUS
      <4>2. Cardinality(Ids \ more) < Cardinality(Ids \ seen) /\ Cardinality(Ids \ more) \in Nat
            /\ Cardinality(Ids \ seen) \in Nat
        BY <3>4, <4>1, Room
      <4>3. n \in Nat
        OBVIOUS
      <4> HIDE DEF more, S
      <4> QED BY <4>2, <4>3
    <3>6. Unseen(g, id, z, more, also)
      <4> HIDE DEF z, more, also
      <4> QED BY <3>4, <3>5
    <3>7. DateOf(g, z, more) = DateOf(g, z, also)
      <4> HIDE DEF more, also, z
      <4> QED BY <3>1, <3>4, <3>6 DEF Unseen
    <3>8. DateOf(g, x, seen) = DateAfter(DateOf(g, z, more), terms)
      BY <3>1, DatesByCase
    <3>9. DateOf(g, x, s) = DateAfter(DateOf(g, z, also), terms)
      BY <3>1, DatesByCase
    <3> QED BY <3>7, <3>8, <3>9
  <2> QED BY <2>1, <2>2
<1>4. S = Nat
  <2>1. S \in SUBSET Nat
    OBVIOUS
  <2> HIDE DEF S
  <2> QED BY <1>2, <1>3, <2>1, Induction
<1>5. Cardinality(Ids \ seen0) \in Nat
  BY Room
<1>6. Cardinality(Ids \ seen0) + 1 \in S /\ Cardinality(Ids \ seen0) < Cardinality(Ids \ seen0) + 1
  <2> HIDE DEF S
  <2> QED BY <1>4, <1>5
<1> QED BY <1>6

\* A date that is dated from an event whose date is stated is the one of its basis with
\* its offsets.
LEMMA DatedFromItsBasis ==
    ASSUME NEW g, DOMAIN g.nodes \subseteq Ids, AllDated(g), NEW id \in DOMAIN g.nodes, g.nodes[id].at # NoDate,
           NEW x \in DOMAIN g.nodes, id \in Reached(DatedFrom(g), DOMAIN g.nodes, x)
    PROVE  ResolveAt(g, x) = DateAfter(ResolveAt(g, g.nodes[x].at_expr[1]), g.nodes[x].at_expr[2])
<1> DEFINE pairs == DatedFrom(g)
           D == DOMAIN g.nodes
           R(u) == Reached(pairs, D, u)
           z == g.nodes[x].at_expr[1]
           terms == g.nodes[x].at_expr[2]
           none == {}
           one == none \cup {x}
<1>0. x \in D /\ id \in D /\ id \in R(x)
  OBVIOUS
<1>1. OneWay(pairs, D) /\ \A p \in pairs : p[1] # id
  BY DatedFromLeads
<1>2. g.nodes[x].at = NoDate /\ g.nodes[x].at_expr # << >> /\ z \in D
  <2>1. CASE \A p \in pairs : p[1] # x
    <3>1. R(x) = {}
      <4> HIDE DEF pairs, D
      <4> QED BY <1>0, <1>1, <2>1, ReachedByNone
    <3> QED BY <1>0, <3>1
  <2> QED BY <2>1, DatedFromLeads
<1>3. R(x) = {z} \cup R(z)
  <2>1. <<x, z>> \in pairs
    BY <1>2, DatedFromLeads
  <2> HIDE DEF pairs, D, z
  <2> QED BY <1>0, <1>1, <1>2, <2>1, ReachedByOne
<1>4. x \notin R(x)
  <2> HIDE DEF pairs, D
  <2> QED BY <1>0, <1>1, NoWayBack
<1>5. /\ z \in Ids /\ none \in SUBSET Ids /\ one \in SUBSET Ids
      /\ id \in {z} \cup R(z) /\ ({z} \cup R(z)) \cap one = {} /\ ({z} \cup R(z)) \cap none = {}
  <2>1. z \in Ids /\ x \in Ids /\ id \in R(x)
    BY <1>2
  <2> HIDE DEF R, z
  <2> QED BY <1>3, <1>4, <2>1
<1> HIDE DEF none
<1>6. DateOf(g, z, one) = DateOf(g, z, none)
  <2>1. Unseen(g, id, z, one, none)
    <3> HIDE DEF z, one
    <3> QED BY <1>5, AllUnseen
  <2> HIDE DEF z, one
  <2> QED BY <1>2, <1>5, <2>1 DEF Unseen
<1>7. DateOf(g, x, none) = DateAfter(DateOf(g, z, one), terms)
  <2>1. x \in Ids /\ x \notin none
    BY DEF none
  <2> QED BY <1>2, <1>5, <2>1, DatesByCase
<1>8. \A u : ResolveAt(g, u) = DateOf(g, u, none)
  BY DEF ResolveAt, DateOf, none
<1> HIDE DEF z, terms, one
<1>9. ResolveAt(g, x) = DateAfter(ResolveAt(g, z), terms)
  BY <1>6, <1>7, <1>8
<1> QED BY <1>9 DEF z, terms

\* A merge leaves a node's fields.
LEMMA GraphIsOfRecords ==
    ASSUME AskInv
    PROVE  /\ "nodes" \in DOMAIN graph
           /\ \A id \in DOMAIN graph.nodes : DOMAIN graph.nodes[id] = DOMAIN Node("claim", "asserted")
<1> DEFINE es == Stated(draft, stated)
<1>1. graph.nodes = [id \in DOMAIN nodes \ DOMAIN Retired(nodes) |-> Merged(nodes, id)]
  BY BuiltNodes DEF AskInv, IInv, GraphInv
<1>2. "nodes" \in DOMAIN graph
  BY DEF AskInv, IInv, GraphInv, Build
<1>3. ASSUME NEW id \in DOMAIN nodes PROVE DOMAIN Merged(nodes, id) = DOMAIN Node("claim", "asserted")
  <2> DEFINE n == RewrittenNode(Retired(nodes), nodes[id])
  <2>1. DOMAIN n = DOMAIN nodes[id]
    BY DEF RewrittenNode
  <2>2. DOMAIN Merged(nodes, id) = DOMAIN n
    <3> HIDE DEF n
    <3> QED BY DEF Merged, n
  <2>3. DOMAIN nodes[id] = DOMAIN Node("claim", "asserted")
    BY DEF AskInv, IInv, LogInv, IsFact
  <2> QED BY <2>1, <2>2, <2>3
<1> QED BY <1>1, <1>2, <1>3

\* An event that is corrected is dated from others as it was.
LEMMA CorrectedIsDatedFrom ==
    ASSUME NEW g, "nodes" \in DOMAIN g, DOMAIN g.nodes \subseteq Ids, AllDated(g), NEW id \in DOMAIN g.nodes,
           {"at", "at_expr"} \subseteq DOMAIN g.nodes[id], g.nodes[id].at # NoDate
    PROVE  DatedFrom(Corrected(g, id)) = DatedFrom(g)
<1> DEFINE c == Corrected(g, id)
           D == DOMAIN g.nodes
           From(n, y) == n.at = NoDate /\ n.at_expr # << >> /\ n.at_expr[1] = y
<1>1. /\ DOMAIN c.nodes = D
      /\ \A x \in D : x # id => c.nodes[x] = g.nodes[x]
      /\ c.nodes[id].at # NoDate
  BY CorrectedIsDated
<1>2. /\ DatedFrom(g) = {xy \in D \X D : From(g.nodes[xy[1]], xy[2])}
      /\ DatedFrom(c) = {xy \in (DOMAIN c.nodes) \X (DOMAIN c.nodes) : From(c.nodes[xy[1]], xy[2])}
  BY DEF DatedFrom
<1> HIDE DEF c
<1>3. \A x \in D : \A y : From(c.nodes[x], y) <=> From(g.nodes[x], y)
  <2> SUFFICES ASSUME NEW x \in D, NEW y PROVE From(c.nodes[x], y) <=> From(g.nodes[x], y)
    OBVIOUS
  <2>1. CASE x = id
    BY <1>1, <2>1
  <2>2. CASE x # id
    <3>1. c.nodes[x] = g.nodes[x]
      BY <1>1, <2>2
    <3> HIDE DEF From
    <3> QED BY <3>1
  <2> QED BY <2>1, <2>2
<1>4. DatedFrom(c) = DatedFrom(g)
  <2> HIDE DEF From, D
  <2> QED BY <1>1, <1>2, <1>3
<1> QED BY <1>4 DEF c

\* A computed date moves with what it is computed from, and no other does.
THEOREM DeadlinesFollow == Spec => []DeadlinesMoveWithTheirBasis
<1>1. ASSUME AskInv PROVE DeadlinesMoveWithTheirBasis
  <2> SUFFICES ASSUME NEW id \in DOMAIN graph.nodes, IsDay(graph.nodes[id].at),
                      NEW x \in DOMAIN graph.nodes
               PROVE  LET dated == graph.nodes[x].at_expr
                          now == ResolveAt(Corrected(graph, id), x)
                      IN  /\ x = id \/ x \in Following(graph, DatedInDays(graph), id) =>
                                now = AddDays(ResolveAt(graph, x), 1)
                          /\ x \in Following(graph, DatedFrom(graph), id) =>
                                now = DateAfter(ResolveAt(Corrected(graph, id), dated[1]), dated[2])
                          /\ x # id /\ x \notin Following(graph, DatedFrom(graph), id) =>
                                now = ResolveAt(graph, x)
    BY DEF DeadlinesMoveWithTheirBasis
  <2> DEFINE c == Corrected(graph, id)
             D == DOMAIN graph.nodes
             R == Reached(DatedFrom(graph), D, x)
             near == Reached(DatedInDays(graph), D, x)
  <2>1. Whole(graph) /\ AllDated(graph)
    BY <1>1, GraphIsWhole, GraphIsDated DEF AskInv
  <2>2. /\ "nodes" \in DOMAIN graph /\ DOMAIN graph.nodes \subseteq Ids
        /\ {"at", "at_expr"} \subseteq DOMAIN graph.nodes[id]
    BY <1>1, <2>1, GraphIsOfRecords DEF Whole, Node
  <2>3. graph.nodes[id].at # NoDate
    BY <2>1, DaysAreDates DEF AllDated, IsDated
  <2> DEFINE none == {}
  <2>4. none \in SUBSET Ids /\ x \in Ids
    BY <2>2
  <2> HIDE DEF none
  <2>5. Moves(graph, id, x, none)
    BY <2>1, <2>2, <2>4, AllMove
  <2>6. \A g : ResolveAt(g, x) = DateOf(g, x, none)
    BY DEF ResolveAt, DateOf, none
  <2>7. x \notin none /\ near \cap none = {}
    BY DEF none
  <2>8. /\ x \in Following(graph, DatedFrom(graph), id) <=> id \in R
        /\ x \in Following(graph, DatedInDays(graph), id) <=> id \in near
    BY DEF Following
  <2>9. x = id \/ id \in near => ResolveAt(c, x) = AddDays(ResolveAt(graph, x), 1)
    BY <2>5, <2>6, <2>7 DEF Moves
  <2>10. x # id /\ id \notin R => ResolveAt(c, x) = ResolveAt(graph, x)
    BY <2>5, <2>6 DEF Moves
  <2>11. ASSUME id \in R
         PROVE  ResolveAt(c, x) = DateAfter(ResolveAt(c, graph.nodes[x].at_expr[1]), graph.nodes[x].at_expr[2])
    <3>1. /\ DOMAIN c.nodes = D
          /\ AllDated(c)
          /\ \A u \in D : u # id => c.nodes[u] = graph.nodes[u]
          /\ c.nodes[id].at # NoDate
      BY <2>1, <2>2, <2>3, CorrectedIsDated
    <3>2. DatedFrom(c) = DatedFrom(graph)
      BY <2>1, <2>2, <2>3, CorrectedIsDatedFrom
    <3>3. x # id
      <4>1. OneWay(DatedFrom(graph), D) /\ \A p \in DatedFrom(graph) : p[1] # id
        BY <2>3, DatedFromLeads
      <4>2. Reached(DatedFrom(graph), D, id) = {}
        <5> HIDE DEF D
        <5> QED BY <4>1, ReachedByNone DEF D
      <4> QED BY <2>11, <4>2
    <3>4. c.nodes[x] = graph.nodes[x]
      BY <3>1, <3>3
    <3>5. id \in Reached(DatedFrom(c), DOMAIN c.nodes, x)
      BY <2>11, <3>1, <3>2
    <3>6. ResolveAt(c, x) = DateAfter(ResolveAt(c, c.nodes[x].at_expr[1]), c.nodes[x].at_expr[2])
      <4>1. DOMAIN c.nodes \subseteq Ids /\ id \in DOMAIN c.nodes /\ x \in DOMAIN c.nodes
        BY <2>2, <3>1
      <4> HIDE DEF c
      <4> QED BY <3>1, <3>5, <4>1, DatedFromItsBasis
    <3> QED BY <3>4, <3>6
  <2> QED BY <2>8, <2>9, <2>10, <2>11
<1> QED BY <1>1, AskInvariance, PTL

-----------------------------------------------------------------------------
(* A scratch graph and the one that a commit builds. *)

\* Where nothing is the same as another, a merge changes nothing.
LEMMA NothingIsFolded ==
    ASSUME NEW ns, \A id \in DOMAIN ns : IsRecord(ns[id]) /\ ns[id].same_as = None
    PROVE  /\ Retired(ns) = << >>
           /\ \A id \in DOMAIN ns : Merged(ns, id) = ns[id]
<1>1. DOMAIN Retired(ns) = {}
  BY DEF Retired
<1>2. Retired(ns) = << >>
  <2> DEFINE folded == {id \in DOMAIN ns :
                     /\ ns[id].same_as # None
                     /\ Survivor(ns, id) # None
                     /\ ns[Survivor(ns, id)].kind = ns[id].kind}
             into(id) == Survivor(ns, id)
  <2>1. Retired(ns) = [id \in folded |-> into(id)]
    BY DEF Retired
  <2>2. folded = {}
    OBVIOUS
  <2> HIDE DEF folded, into
  <2>3. [id \in {} |-> into(id)] = << >>
    OBVIOUS
  <2> QED BY <2>1, <2>2, <2>3
<1>3. ASSUME NEW id \in DOMAIN ns PROVE Merged(ns, id) = ns[id]
  <2> DEFINE n == ns[id]
             none == << >>
             names == MergedAliases(ns, none, id)
             fields == DOMAIN Node("claim", "asserted")
  <2>1. DOMAIN none = {} /\ Retired(ns) = none
    BY <1>2
  <2>2. n = [field \in fields |-> n[field]] /\ {"while", "owner", "aliases"} \subseteq fields
    BY DEF IsRecord, Node
  <2>3. {x \in DOMAIN ns : Resolve(none, x) = id} = {id}
    BY <2>1 DEF Resolve
  <2>4. names = n.aliases
    <3>1. names = UNION {ns[x].aliases : x \in {id}}
      BY <2>3 DEF MergedAliases
    <3>2. {ns[x].aliases : x \in {id}} = {n.aliases}
      OBVIOUS
    <3> QED BY <3>1, <3>2
  <2> HIDE DEF none, names, n, fields
  <2>5. \A x : Resolve(none, x) = x
    BY <2>1 DEF Resolve
  <2>6. RewrittenNode(none, n) = n
    BY <2>2, <2>5 DEF RewrittenNode
  <2>7. Merged(ns, id) = [n EXCEPT !.aliases = names]
    BY <2>1, <2>6 DEF Merged, n, names
  <2>8. [n EXCEPT !.aliases = names] = n
    BY <2>2, <2>4
  <2> QED BY <2>7, <2>8 DEF n
<1> QED BY <1>2, <1>3

\* The relations of a graph where nothing is retired are those stated.
LEMMA NothingIsRewritten ==
    ASSUME NEW es, NEW m \in Nat, DOMAIN es = 1..m, \A i \in DOMAIN es : es[i] \in Relations
    PROVE  /\ KeptEdges(<< >>, es) =
                {es[i] : i \in {i \in DOMAIN es : \A j \in 1..(i - 1) : ~ SameRelation(es[j], es[i])}}
           /\ \A i \in DOMAIN es : \E e \in KeptEdges(<< >>, es) : SameRelation(e, es[i])
<1> DEFINE none == << >>
           now == [i \in DOMAIN es |-> RewrittenEdge(none, es[i])]
           First(i) == \A j \in 1..(i - 1) : ~ SameRelation(es[j], es[i])
           kept == {es[i] : i \in {i \in DOMAIN es : First(i)}}
<1>1. DOMAIN none = {}
  OBVIOUS
<1> HIDE DEF none
<1>2. \A x : Resolve(none, x) = x
  BY <1>1 DEF Resolve
<1>3. ASSUME NEW e \in Relations PROVE RewrittenEdge(none, e) = e
  BY <1>2 DEF RewrittenEdge, Relations
<1>4. DOMAIN now = DOMAIN es /\ \A i \in DOMAIN es : now[i] = es[i]
  BY <1>3
<1>5. KeptEdges(none, es) =
        {now[i] : i \in {i \in DOMAIN now : /\ \A j \in 1..(i - 1) : ~ SameRelation(now[j], now[i])
                                            /\ DOMAIN none # {} => now[i].src # now[i].dst}}
  BY DEF KeptEdges
<1> HIDE DEF now
<1>6. \A i \in DOMAIN es : \A j \in 1..(i - 1) : j \in DOMAIN es
  OBVIOUS
<1>7. KeptEdges(none, es) = kept
  BY <1>1, <1>4, <1>5, <1>6
<1>8. ASSUME NEW i \in DOMAIN es PROVE \E e \in kept : SameRelation(e, es[i])
  <2> DEFINE T == {j \in Nat : j \in DOMAIN es /\ SameRelation(es[j], es[i])}
  <2>1. i \in T
    BY DEF SameRelation
  <2>2. PICK j \in T : \A x \in T : j <= x
    <3>1. T \in SUBSET Nat /\ T # {}
      BY <2>1
    <3> HIDE DEF T
    <3> QED BY <3>1, Smallest
  <2>3. j \in DOMAIN es /\ j \in Nat /\ SameRelation(es[j], es[i])
    OBVIOUS
  <2>4. First(j)
    <3> SUFFICES ASSUME NEW x \in 1..(j - 1), SameRelation(es[x], es[j]) PROVE FALSE
      OBVIOUS
    <3>1. x \in Nat /\ x \in DOMAIN es /\ x < j
      BY <2>3
    <3>2. SameRelation(es[x], es[i])
      BY <2>3 DEF SameRelation
    <3>3. x \in T
      BY <3>1, <3>2
    <3>4. j <= x
      BY <2>2, <3>3
    <3> QED BY <2>3, <3>1, <3>4
  <2> HIDE DEF T, First
  <2>5. es[j] \in kept
    BY <2>3, <2>4
  <2> QED BY <2>3, <2>5
<1> QED BY <1>7, <1>8 DEF none

\* Relations that nothing stated yet are kept, all of them, and nothing else is lost.
LEMMA MoreIsKept ==
    ASSUME NEW es, NEW m \in Nat, DOMAIN es = 1..m, \A i \in DOMAIN es : es[i] \in Relations,
           NEW more \in Seq(Relations),
           \A i \in DOMAIN more : \A e \in KeptEdges(<< >>, es) : ~ SameRelation(e, more[i]),
           \A i, j \in DOMAIN more : i # j => ~ SameRelation(more[i], more[j]),
           es \in Seq(Relations)
    PROVE  KeptEdges(<< >>, es \o more) = KeptEdges(<< >>, es) \cup ToSet(more)
<1> DEFINE all == es \o more
           k == Len(more)
           First(s, i) == \A j \in 1..(i - 1) : ~ SameRelation(s[j], s[i])
           Kept(s) == KeptEdges(<< >>, s)
<1>1. /\ k \in Nat /\ DOMAIN more = 1..k
      /\ \A i \in 1..k : more[i] \in Relations
      /\ Len(es) = m
  OBVIOUS
<1>2. /\ all \in Seq(Relations) /\ DOMAIN all = 1..(m + k) /\ m + k \in Nat
      /\ \A i \in 1..m : all[i] = es[i]
      /\ \A i \in 1..k : all[m + i] = more[i]
  <2>1. all \in Seq(Relations) /\ Len(all) = Len(es) + Len(more)
    OBVIOUS
  <2>2. \A i \in 1..Len(es) : all[i] = es[i]
    OBVIOUS
  <2>3. \A i \in 1..Len(more) : all[Len(es) + i] = more[i]
    OBVIOUS
  <2>4. DOMAIN all = 1..Len(all)
    BY <2>1
  <2> HIDE DEF all
  <2> QED BY <1>1, <2>1, <2>2, <2>3, <2>4
<1>3. \A i \in DOMAIN all : all[i] \in Relations
  BY <1>2
<1>4. Kept(es) = {es[i] : i \in {i \in DOMAIN es : First(es, i)}}
      /\ \A i \in DOMAIN es : \E e \in Kept(es) : SameRelation(e, es[i])
  BY NothingIsRewritten
<1> HIDE DEF all
<1>5. Kept(all) = {all[i] : i \in {i \in DOMAIN all : First(all, i)}}
  BY <1>2, <1>3, NothingIsRewritten
<1> HIDE DEF Kept
<1>6. ASSUME NEW i \in 1..k PROVE First(all, m + i)
  <2> SUFFICES ASSUME NEW j \in 1..(m + i - 1), SameRelation(all[j], all[m + i]) PROVE FALSE
    OBVIOUS
  <2>1. all[m + i] = more[i]
    BY <1>2
  <2>2. CASE j \in 1..m
    <3>1. PICK e \in Kept(es) : SameRelation(e, es[j])
      BY <1>4, <2>2
    <3>2. SameRelation(e, more[i])
      BY <1>2, <2>1, <2>2, <3>1 DEF SameRelation
    <3> QED BY <1>1, <3>2 DEF Kept
  <2>3. CASE j \notin 1..m
    <3>1. j - m \in 1..k /\ j - m # i /\ j = m + (j - m)
      BY <1>1, <2>3
    <3>2. all[j] = more[j - m]
      BY <1>2, <3>1
    <3> QED BY <1>1, <2>1, <3>1, <3>2
  <2> QED BY <2>2, <2>3
<1>7. ASSUME NEW i \in 1..m PROVE First(all, i) <=> First(es, i)
  BY <1>2
<1> HIDE DEF First
<1>8. Kept(all) \subseteq Kept(es) \cup ToSet(more)
  <2> SUFFICES ASSUME NEW i \in DOMAIN all, First(all, i) PROVE all[i] \in Kept(es) \cup ToSet(more)
    BY <1>5
  <2>1. CASE i \in 1..m
    BY <1>2, <1>4, <1>7, <2>1
  <2>2. CASE i \notin 1..m
    <3>1. i - m \in 1..k /\ i = m + (i - m)
      BY <1>1, <1>2, <2>2
    <3>2. all[i] = more[i - m]
      BY <1>2, <3>1
    <3> QED BY <1>1, <3>1, <3>2 DEF ToSet
  <2> QED BY <2>1, <2>2
<1>9. Kept(es) \subseteq Kept(all)
  <2> SUFFICES ASSUME NEW i \in 1..m, First(es, i) PROVE es[i] \in Kept(all)
    BY <1>4
  <2>1. i \in DOMAIN all /\ First(all, i) /\ all[i] = es[i]
    BY <1>1, <1>2, <1>7
  <2> QED BY <1>5, <2>1
<1>10. ToSet(more) \subseteq Kept(all)
  <2> SUFFICES ASSUME NEW i \in 1..k PROVE more[i] \in Kept(all)
    BY <1>1 DEF ToSet
  <2>1. m + i \in DOMAIN all /\ First(all, m + i) /\ all[m + i] = more[i]
    BY <1>1, <1>2, <1>6
  <2> QED BY <1>5, <2>1
<1>11. Kept(all) = Kept(es) \cup ToSet(more)
  BY <1>8, <1>9, <1>10
<1> QED BY <1>11 DEF Kept, all

\* Every fact in the log is a record of a node's fields.
RecordInv == \A id \in DOMAIN nodes : IsRecord(nodes[id])

LEMMA RecordInit == Init => RecordInv
BY QueryCheckAssumption DEF Init, RecordInv

LEMMA RecordNext == RecordInv /\ [Next]_vars => RecordInv'
<1> SUFFICES ASSUME RecordInv, [Next]_vars PROVE RecordInv'
  OBVIOUS
<1>1. ASSUME NEW id \in DOMAIN nodes PROVE
        /\ \A status : IsRecord([nodes[id] EXCEPT !.status = status])
        /\ \A into : IsRecord([nodes[id] EXCEPT !.same_as = into])
  <2> DEFINE n == nodes[id]
             fields == DOMAIN Node("claim", "asserted")
  <2>1. n = [field \in fields |-> n[field]]
    BY DEF RecordInv, IsRecord
  <2> HIDE DEF n, fields
  <2>2. \A status : IsRecord([n EXCEPT !.status = status])
    BY <2>1 DEF IsRecord, fields
  <2>3. \A into : IsRecord([n EXCEPT !.same_as = into])
    BY <2>1 DEF IsRecord, fields
  <2> QED BY <2>2, <2>3 DEF n
<1>2. ASSUME NEW id \in DOMAIN nodes, NEW fields, Write(id, fields), IsRecord(fields) PROVE RecordInv'
  BY <1>2 DEF RecordInv, Write
<1>3. ASSUME NEW p \in DOMAIN draft, Relate(p) PROVE RecordInv'
  BY <1>3 DEF RecordInv, Relate
<1>4. ASSUME NEW id \in DOMAIN nodes, Withdraw(id) PROVE RecordInv'
  BY <1>1, <1>2, <1>4 DEF Withdraw
<1>5. ASSUME NEW id \in DOMAIN nodes, NEW status, AssertAgain(id, status) PROVE RecordInv'
  BY <1>1, <1>2, <1>5 DEF AssertAgain
<1>6. ASSUME NEW id \in DOMAIN nodes, NEW into \in DOMAIN nodes, Retire(id, into) PROVE RecordInv'
  BY <1>1, <1>2, <1>6 DEF Retire
<1>7. ASSUME UNCHANGED nodes PROVE RecordInv'
  BY <1>7 DEF RecordInv
<1>8. ASSUME NEW fact, NEW source, NEW verdict, Rule(fact, source, verdict) PROVE RecordInv'
  BY <1>7, <1>8 DEF Rule
<1> QED BY <1>3, <1>4, <1>5, <1>6, <1>7, <1>8 DEF Next, vars

\* Of facts none of which is the same as another, a scratch graph is the one built.
Unfolded(ns) == \A id \in DOMAIN ns : IsRecord(ns[id]) /\ ns[id].same_as = None

Entries(ns) == [id \in DOMAIN ns |-> ns[id]]

LEMMA ScratchIsBuilt ==
    ASSUME NEW ns, NEW es, Unfolded(ns)
    PROVE  Build(ns, es) = Scratch(Entries(ns), KeptEdges(<< >>, es), Bindings(Entries(ns)))
<1> DEFINE b == Build(ns, es)
           facts == Entries(ns)
           names == Bindings(facts)
           s == Scratch(facts, KeptEdges(<< >>, es), names)
<1>1. Retired(ns) = << >> /\ \A id \in DOMAIN ns : Merged(ns, id) = ns[id]
  BY NothingIsFolded DEF Unfolded
<1>2. DOMAIN ns \ DOMAIN Retired(ns) = DOMAIN ns
  BY <1>1
<1>3. b.nodes = facts
  <2>1. b.nodes = [id \in DOMAIN ns \ DOMAIN Retired(ns) |-> Merged(ns, id)]
    BY BuiltNodes
  <2>2. facts = [id \in DOMAIN ns |-> ns[id]] /\ DOMAIN facts = DOMAIN ns
    BY DEF Entries
  <2> HIDE DEF b, facts
  <2> QED BY <1>1, <1>2, <2>1, <2>2
<1>4. b.names = names /\ b.retired = << >> /\ b.edges = KeptEdges(<< >>, es)
  <2>1. /\ b.names = Bindings(b.nodes)
        /\ b.retired = Retired(ns)
        /\ b.edges = KeptEdges(Retired(ns), es)
    BY BuiltNodes
  <2> HIDE DEF b
  <2> QED BY <1>1, <1>3, <2>1 DEF names
<1>5. b.incident = {e \in b.edges : e.src \in DOMAIN facts /\ e.dst \in DOMAIN facts}
  <2> DEFINE Left(r) == DOMAIN ns \ DOMAIN r
  <2>1. b.incident = {e \in b.edges : /\ e.src \in Left(Explicit(Retired(ns)))
                                     /\ e.dst \in Left(Explicit(Retired(ns)))}
    BY DEF Build
  <2>2. Explicit(Retired(ns)) = Retired(ns)
    BY DEF Explicit
  <2>3. DOMAIN facts = DOMAIN ns
    BY DEF Entries
  <2> HIDE DEF b, facts
  <2> QED BY <1>2, <2>1, <2>2, <2>3
<1>6. b = [nodes |-> b.nodes, edges |-> b.edges, incident |-> b.incident,
           retired |-> b.retired, names |-> b.names]
  BY DEF Build
<1>7. Explicit(facts) = facts
  BY DEF Explicit
<1>8. s = [nodes |-> facts, edges |-> KeptEdges(<< >>, es), retired |-> << >>, names |-> names,
           incident |-> {e \in KeptEdges(<< >>, es) : e.src \in DOMAIN facts /\ e.dst \in DOMAIN facts}]
  BY <1>7 DEF Scratch
<1> DEFINE kept == KeptEdges(<< >>, es)
           inside == {e \in kept : e.src \in DOMAIN facts /\ e.dst \in DOMAIN facts}
<1>9. b.edges = kept /\ b.incident = inside
  BY <1>4, <1>5
<1> HIDE DEF b, s, kept, inside
<1>10. b = [nodes |-> facts, edges |-> kept, incident |-> inside, retired |-> << >>, names |-> names]
  BY <1>3, <1>4, <1>6, <1>9
<1>11. s = [nodes |-> facts, edges |-> kept, retired |-> << >>, names |-> names, incident |-> inside]
  BY <1>8 DEF kept, inside
<1>12. b = s
  BY <1>10, <1>11
<1> QED BY <1>12 DEF b, s

\* A graph from which nothing was retired.
LEMMA NothingRetired ==
    ASSUME AskInv, RecordInv, graph.retired = << >>
    PROVE  /\ Unfolded(nodes)
           /\ graph.nodes = [id \in DOMAIN nodes |-> nodes[id]]
           /\ graph.edges = KeptEdges(<< >>, Stated(draft, stated))
           /\ graph.names = Bindings(graph.nodes)
           /\ \A e \in graph.edges : e.src \in DOMAIN nodes /\ e.dst \in DOMAIN nodes
<1> DEFINE es == Stated(draft, stated)
           facts == [id \in DOMAIN nodes |-> nodes[id]]
<1>1. graph = Build(nodes, es) /\ Builds(nodes, graph)
  BY DEF AskInv, IInv, GraphInv
<1>2. \A id \in DOMAIN nodes : nodes[id].same_as = None
  <2>1. \A id \in DOMAIN nodes : nodes[id].same_as # None => id \in DOMAIN graph.retired
    BY <1>1 DEF Builds
  <2>2. DOMAIN graph.retired = {}
    OBVIOUS
  <2> QED BY <2>1, <2>2
<1>3. Unfolded(nodes)
  BY <1>2 DEF Unfolded, RecordInv
<1>4. Retired(nodes) = << >> /\ \A id \in DOMAIN nodes : Merged(nodes, id) = nodes[id]
  BY <1>3, NothingIsFolded DEF Unfolded
<1> HIDE DEF es
<1>5. /\ graph.nodes = [id \in DOMAIN nodes \ DOMAIN Retired(nodes) |-> Merged(nodes, id)]
      /\ graph.names = Bindings(graph.nodes)
      /\ graph.edges = KeptEdges(Retired(nodes), es)
  BY <1>1, BuiltNodes
<1>6. DOMAIN nodes \ DOMAIN Retired(nodes) = DOMAIN nodes
  BY <1>4
<1>7. graph.nodes = facts
  BY <1>4, <1>5, <1>6
<1>8. graph.edges = KeptEdges(<< >>, es)
  BY <1>4, <1>5
<1>9. None \notin DOMAIN nodes
  BY NoneAssumption DEF AskInv, IInv, LogInv
<1>10. \A e \in graph.edges : e.src \in DOMAIN graph.nodes \cup {None} /\ e.dst \in DOMAIN graph.nodes \cup {None}
  BY <1>1 DEF Builds, DanglingRelations
<1>11. \A e \in graph.edges : e.src \in Ids /\ e.dst \in Ids
  <2>1. /\ \E m \in Nat : DOMAIN es = 1..m
        /\ \A i \in DOMAIN es : es[i] \in Relations
    BY LogOfTheGraph DEF AskInv, Log, es
  <2>2. \A e \in graph.edges : \E i \in DOMAIN es : e = es[i]
    BY <1>8, <2>1, NothingIsRewritten
  <2> QED BY <2>1, <2>2 DEF Relations
<1>12. \A e \in graph.edges : e.src \in DOMAIN nodes /\ e.dst \in DOMAIN nodes
  <2>1. DOMAIN graph.nodes = DOMAIN nodes
    BY <1>7
  <2> QED BY <1>10, <1>11, <2>1, NoneAssumption
<1> QED BY <1>3, <1>5, <1>7, <1>8, <1>12 DEF es

LEMMA OneAnswersAlike == ASSUME NEW g PROVE AnswerAlike(g, g)
<1> SUFFICES ASSUME NEW q \in Queries, NEW now \in Clocks
             PROVE  Cardinality({Resolutions(x, q, now) : x \in {g, g}}) = 1
  BY DEF AnswerAlike
<1> DEFINE r == Resolutions(g, q, now)
<1>1. {Resolutions(x, q, now) : x \in {g, g}} = {r}
  OBVIOUS
<1> HIDE DEF r
<1> QED BY <1>1, FS_Singleton

\* Facts put beside those of the log, without a name.
LEMMA SameNames ==
    ASSUME NEW ns, NEW more, DOMAIN ns \subseteq DOMAIN more,
           \A id \in DOMAIN ns : more[id].aliases = ns[id].aliases,
           \A id \in DOMAIN more \ DOMAIN ns : more[id].aliases = {}
    PROVE  Bindings(more) = Bindings(ns)
<1> DEFINE B(s, id) == {[alias |-> a, node |-> id] : a \in s[id].aliases}
<1>1. Bindings(more) = UNION {B(more, id) : id \in DOMAIN more} /\ Bindings(ns) = UNION {B(ns, id) : id \in DOMAIN ns}
  BY DEF Bindings
<1>2. \A id \in DOMAIN ns : B(more, id) = B(ns, id)
  OBVIOUS
<1>3. \A id \in DOMAIN more \ DOMAIN ns : B(more, id) = {}
  OBVIOUS
<1> HIDE DEF B
<1>4. Bindings(ns) \subseteq Bindings(more)
  BY <1>1, <1>2
<1>5. Bindings(more) \subseteq Bindings(ns)
  BY <1>1, <1>2, <1>3
<1> QED BY <1>4, <1>5

\* The relations stated are a row of them.
LEMMA StatedIsARow ==
    ASSUME AskInv
    PROVE  /\ Stated(draft, stated) \in Seq(Relations)
           /\ \E m \in Nat : DOMAIN Stated(draft, stated) = 1..m
           /\ \A i \in DOMAIN Stated(draft, stated) : Stated(draft, stated)[i] \in Relations
<1> DEFINE es == Stated(draft, stated)
<1>1. PICK m \in Nat : DOMAIN es = 1..m
  BY LogOfTheGraph DEF AskInv, Log
<1>2. \A i \in DOMAIN es : es[i] \in Relations
  BY LogOfTheGraph DEF AskInv, Log
<1>3. es = [i \in DOMAIN es |-> es[i]]
  BY DEF Stated
<1> HIDE DEF es
<1>4. es \in [1..m -> Relations]
  BY <1>1, <1>2, <1>3
<1>5. es \in Seq(Relations)
  BY <1>4, SeqDef
<1> QED BY <1>1, <1>2, <1>5 DEF es

\* A fact that is tried as it is then stated.
LEMMA TriedIsBuilt ==
    ASSUME AskInv, RecordInv, graph.retired = << >>,
           NEW f \in NewFacts, StandsAlone(f),
           NEW ns, ns = [id \in DOMAIN nodes \cup DOMAIN f.facts |->
                            IF id \in DOMAIN nodes THEN nodes[id] ELSE f.facts[id]]
    PROVE  Build(ns, Stated(draft, stated) \o f.relations)
              = WhatIf(graph, f.facts, ToSet(f.relations))
<1> DEFINE es == Stated(draft, stated)
           rs == f.relations
           facts == [id \in DOMAIN f.facts \cup DOMAIN graph.nodes |->
                        IF id \in DOMAIN f.facts THEN f.facts[id] ELSE graph.nodes[id]]
           left == {e \in graph.edges : e.src \notin DOMAIN f.facts}
<1>1. /\ Unfolded(nodes)
      /\ graph.nodes = [id \in DOMAIN nodes |-> nodes[id]]
      /\ graph.edges = KeptEdges(<< >>, es)
      /\ graph.names = Bindings(graph.nodes)
      /\ \A e \in graph.edges : e.src \in DOMAIN nodes /\ e.dst \in DOMAIN nodes
  BY NothingRetired
<1>2. IsFragment(f) /\ StandsAlone(f) /\ DOMAIN f.facts \cap DOMAIN nodes = {}
  BY QueryCheckAssumption DEF NewFacts
<1>3. /\ \A id \in DOMAIN f.facts : /\ IsRecord(f.facts[id]) /\ f.facts[id].same_as = None
                                    /\ f.facts[id].aliases = {}
      /\ rs \in Seq(Relations)
      /\ \A i \in DOMAIN rs : {rs[i].src, rs[i].dst} \cap DOMAIN f.facts # {}
      /\ \A i, j \in DOMAIN rs : i # j => ~ SameRelation(rs[i], rs[j])
  BY <1>2 DEF IsFragment, StandsAlone
<1>4. es \in Seq(Relations) /\ (\E m \in Nat : DOMAIN es = 1..m) /\ \A i \in DOMAIN es : es[i] \in Relations
  BY StatedIsARow
<1>5. PICK m \in Nat : DOMAIN es = 1..m
  BY <1>4
<1>6. Unfolded(ns)
  BY <1>1, <1>3 DEF Unfolded
<1>7. facts = Entries(ns)
  <2>1. DOMAIN graph.nodes = DOMAIN nodes /\ \A id \in DOMAIN nodes : graph.nodes[id] = nodes[id]
    BY <1>1
  <2>2. DOMAIN facts = DOMAIN ns
    BY <2>1
  <2>3. \A id \in DOMAIN ns : facts[id] = ns[id]
    BY <1>2, <2>1
  <2>4. facts = [id \in DOMAIN facts |-> facts[id]]
    OBVIOUS
  <2> HIDE DEF facts
  <2> QED BY <2>2, <2>3, <2>4 DEF Entries
<1> HIDE DEF es, rs
<1>8. KeptEdges(<< >>, es \o rs) = KeptEdges(<< >>, es) \cup ToSet(rs)
  <2>1. ASSUME NEW i \in DOMAIN rs, NEW e \in KeptEdges(<< >>, es), SameRelation(e, rs[i]) PROVE FALSE
    <3>1. rs[i] \in Relations
      BY <1>3
    <3>2. PICK j \in DOMAIN es : e = es[j]
      BY <1>4, <1>5, NothingIsRewritten
    <3>3. e \in Relations
      BY <1>4, <3>2
    <3>4. \A r \in Relations : [r EXCEPT !.one_way = FALSE].src = r.src /\ [r EXCEPT !.one_way = FALSE].dst = r.dst
      BY DEF Relations
    <3>5. e.src = rs[i].src /\ e.dst = rs[i].dst
      BY <2>1, <3>1, <3>3, <3>4 DEF SameRelation
    <3>6. e.src \in DOMAIN nodes /\ e.dst \in DOMAIN nodes
      BY <1>1
    <3> QED BY <1>2, <1>3, <3>5, <3>6
  <2> QED BY <1>3, <1>4, <1>5, <2>1, MoreIsKept
<1>9. left = graph.edges
  BY <1>1, <1>2
<1>10. graph.names = Bindings(facts)
  <2> DEFINE old == graph.nodes
  <2>1. /\ DOMAIN old \subseteq DOMAIN facts
        /\ \A id \in DOMAIN old : facts[id].aliases = old[id].aliases
        /\ \A id \in DOMAIN facts \ DOMAIN old : facts[id].aliases = {}
    BY <1>1, <1>2, <1>3
  <2> HIDE DEF facts, old
  <2>2. Bindings(facts) = Bindings(old)
    BY <2>1, SameNames
  <2> QED BY <1>1, <2>2 DEF old
<1>11. WhatIf(graph, f.facts, ToSet(rs)) = Scratch(facts, left \cup ToSet(rs), graph.names)
  BY DEF WhatIf
<1> HIDE DEF facts, left
<1>12. Build(ns, es \o rs) = Scratch(facts, KeptEdges(<< >>, es \o rs), graph.names)
  BY <1>6, <1>7, <1>10, ScratchIsBuilt
<1>13. Build(ns, es \o rs) = WhatIf(graph, f.facts, ToSet(rs))
  BY <1>1, <1>8, <1>9, <1>11, <1>12
<1> QED BY <1>13 DEF es, rs

\* An answer that is tried as it is then given.
LEMMA VariantIsBuilt ==
    ASSUME AskInv, RecordInv, graph.retired = << >>,
           NEW question \in DOMAIN nodes, NEW option \in DOMAIN nodes, question # option,
           NEW ns, ns = [nodes EXCEPT ![question].status = "resolved", ![option].status = "asserted"]
    PROVE  Build(ns, Stated(draft, stated)) = Variant(graph, question, option)
<1> DEFINE es == Stated(draft, stated)
           Answered(s) == [id \in DOMAIN s |->
                        CASE id = question -> [s[id] EXCEPT !.status = "resolved"]
                          [] id = option /\ id # question -> [s[id] EXCEPT !.status = "asserted"]
                          [] OTHER -> s[id]]
           facts == Answered(graph.nodes)
<1>1. /\ Unfolded(nodes)
      /\ graph.nodes = [id \in DOMAIN nodes |-> nodes[id]]
      /\ graph.edges = KeptEdges(<< >>, es)
  BY NothingRetired
<1>2. /\ DOMAIN ns = DOMAIN nodes
      /\ ns[question] = [nodes[question] EXCEPT !.status = "resolved"]
      /\ ns[option] = [nodes[option] EXCEPT !.status = "asserted"]
      /\ \A id \in DOMAIN nodes \ {question, option} : ns[id] = nodes[id]
  OBVIOUS
<1>3. Unfolded(ns)
  <2> DEFINE Fine(n) == IsRecord(n) /\ n.same_as = None
  <2>1. ASSUME NEW id \in DOMAIN nodes, NEW status
        PROVE  Fine([nodes[id] EXCEPT !.status = status])
    <3> DEFINE n == nodes[id]
               fields == DOMAIN Node("claim", "asserted")
    <3>1. n = [field \in fields |-> n[field]] /\ n.same_as = None /\ "same_as" \in fields
      BY <1>1 DEF Unfolded, IsRecord, Node
    <3> HIDE DEF n, fields
    <3>2. IsRecord([n EXCEPT !.status = status])
      BY <3>1 DEF IsRecord, fields
    <3>3. [n EXCEPT !.status = status].same_as = None
      BY <3>1
    <3> QED BY <3>2, <3>3 DEF n
  <2>2. \A id \in DOMAIN ns : IsRecord(ns[id]) /\ ns[id].same_as = None
    <3> SUFFICES ASSUME NEW id \in DOMAIN nodes PROVE Fine(ns[id])
      BY <1>2
    <3>4. \A x \in DOMAIN nodes : \A status : Fine([nodes[x] EXCEPT !.status = status])
      BY <2>1
    <3>5. \A x \in DOMAIN nodes : IsRecord(nodes[x]) /\ nodes[x].same_as = None => Fine(nodes[x])
      OBVIOUS
    <3> HIDE DEF Fine
    <3>1. CASE id = question
      BY <1>2, <3>1, <3>4
    <3>2. CASE id = option
      BY <1>2, <3>2, <3>4
    <3>3. CASE id \notin {question, option}
      BY <1>1, <1>2, <3>3, <3>5 DEF Unfolded
    <3> QED BY <3>1, <3>2, <3>3
  <2> QED BY <2>2 DEF Unfolded
<1>4. facts = Entries(ns)
  <2>1. DOMAIN graph.nodes = DOMAIN nodes /\ \A id \in DOMAIN nodes : graph.nodes[id] = nodes[id]
    BY <1>1
  <2>2. DOMAIN facts = DOMAIN ns
    BY <1>2, <2>1
  <2>3. \A id \in DOMAIN ns : facts[id] = ns[id]
    <3> SUFFICES ASSUME NEW id \in DOMAIN nodes PROVE facts[id] = ns[id]
      BY <1>2
    <3> DEFINE s == graph.nodes
    <3>0. id \in DOMAIN s /\ s[id] = nodes[id]
      BY <2>1
    <3> HIDE DEF s
    <3>4. Answered(s)[id] = CASE id = question -> [s[id] EXCEPT !.status = "resolved"]
                        [] id = option /\ id # question -> [s[id] EXCEPT !.status = "asserted"]
                        [] OTHER -> s[id]
      BY <3>0
    <3>5. facts[id] = Answered(s)[id]
      BY DEF s
    <3> HIDE DEF Answered, facts
    <3>1. CASE id = question
      <4>1. Answered(s)[id] = [s[id] EXCEPT !.status = "resolved"]
        BY <3>1, <3>4
      <4> QED BY <1>2, <3>0, <3>1, <3>5, <4>1
    <3>2. CASE id = option
      <4>1. Answered(s)[id] = [s[id] EXCEPT !.status = "asserted"]
        BY <3>2, <3>4
      <4> QED BY <1>2, <3>0, <3>2, <3>5, <4>1
    <3>3. CASE id \notin {question, option}
      BY <1>2, <3>0, <3>3, <3>4, <3>5
    <3> QED BY <3>1, <3>2, <3>3
  <2>4. facts = [id \in DOMAIN facts |-> facts[id]]
    OBVIOUS
  <2> HIDE DEF facts
  <2> QED BY <2>2, <2>3, <2>4 DEF Entries
<1>5. Variant(graph, question, option) = Scratch(facts, graph.edges, Bindings(facts))
  BY DEF Variant
<1> HIDE DEF facts, es
<1>6. Build(ns, es) = Scratch(facts, KeptEdges(<< >>, es), Bindings(facts))
  BY <1>3, <1>4, ScratchIsBuilt
<1> QED BY <1>1, <1>5, <1>6 DEF es

\* What is seen before a commit is what is seen after it.
THEOREM ScratchesForetell == Spec => []ScratchForetells
<1>1. ASSUME AskInv, RecordInv PROVE ScratchForetells
  <2> SUFFICES ASSUME graph.retired = << >>, NEW t \in Tried
               PROVE  AnswerAlike(t.scratch, Build(t.nodes, t.relations))
    BY DEF ScratchForetells, Foretells
  <2>1. t.scratch = Build(t.nodes, t.relations)
    <3>1. CASE \E f \in {f \in NewFacts : StandsAlone(f)} : t = TriedFacts(f)
      <4>1. PICK f \in {f \in NewFacts : StandsAlone(f)} : t = TriedFacts(f)
        BY <3>1
      <4> DEFINE ns == [id \in DOMAIN nodes \cup DOMAIN f.facts |->
                           IF id \in DOMAIN nodes THEN nodes[id] ELSE f.facts[id]]
                 es == Stated(draft, stated) \o f.relations
                 scratch == WhatIf(graph, f.facts, ToSet(f.relations))
      <4>2. Build(ns, es) = scratch
        BY <1>1, <4>1, TriedIsBuilt
      <4>3. t.scratch = scratch /\ t.nodes = ns /\ t.relations = es
        BY <4>1 DEF TriedFacts
      <4> HIDE DEF ns, es, scratch
      <4> QED BY <4>2, <4>3
    <3>2. CASE \E a \in OpenAnswers : t = TriedAnswer(a[1], a[2])
      <4>1. PICK a \in OpenAnswers : t = TriedAnswer(a[1], a[2])
        BY <3>2
      <4> DEFINE question == a[1]
                 option == a[2]
                 ns == [nodes EXCEPT ![question].status = "resolved", ![option].status = "asserted"]
                 es == Stated(draft, stated)
      <4>2. question \in DOMAIN nodes /\ option \in DOMAIN nodes /\ question # option
        <5>1. a \in (DOMAIN nodes) \X (DOMAIN nodes) /\ nodes[a[1]].status = "open" /\ nodes[a[2]].status = "proposed"
          BY DEF OpenAnswers
        <5> QED BY <5>1
      <4>3. t.scratch = Variant(graph, question, option) /\ t.nodes = ns /\ t.relations = es
        BY <4>1 DEF TriedAnswer
      <4> HIDE DEF question, option, es
      <4>4. Build(ns, es) = Variant(graph, question, option)
        BY <1>1, <4>2, VariantIsBuilt DEF es
      <4> HIDE DEF ns
      <4> QED BY <4>3, <4>4
    <3> QED BY <3>1, <3>2 DEF Tried
  <2> DEFINE scratch == t.scratch
  <2>2. AnswerAlike(scratch, scratch)
    <3> HIDE DEF scratch
    <3> QED BY OneAnswersAlike
  <2> QED BY <2>1, <2>2
<1>2. Spec => []RecordInv
  BY RecordInit, RecordNext, PTL DEF Spec
<1> QED BY <1>1, <1>2, AskInvariance, PTL
=============================================================================
