---------------------------- MODULE CorpusProofs ----------------------------
(***************************************************************************)
(* What the runs of GraphCheck, Standing and Ledgers check on corpora of   *)
(* four or five facts, for any facts, relations, dates, queries and        *)
(* people: the graph a log loads as, what is asked of it and kept, and the *)
(* verdicts and acceptances beside it.  The queries in between are what    *)
(* AskingProofs goes on from.                                              *)
(***************************************************************************)
EXTENDS Standing, Ledgers, FoldOrderProofs

-----------------------------------------------------------------------------
(* Recursion. *)

\* The right-hand side of an equation for a function on D, as a function itself:
\* F[x][f] is its value at x.  It asks only for values of a lesser rank.
Recursive(D, V, rank, top, F) ==
    /\ rank \in [D -> Nat] /\ \A x \in D : rank[x] < top
    /\ \A x \in D : \A f \in [D -> V] : F[x][f] \in V
    /\ \A x \in D : \A f, h \in [D -> V] :
          (\A y \in D : rank[y] < rank[x] => f[y] = h[y]) => F[x][f] = F[x][h]

\* Such an equation has a solution.
LEMMA Recursion ==
    ASSUME NEW D, NEW V, NEW v \in V, NEW rank, NEW top \in Nat, NEW F,
           Recursive(D, V, rank, top, F)
    PROVE  \E f \in [D -> V] : \A x \in D : f[x] = F[x][f]
<1> USE DEF Recursive
<1> DEFINE Solves(f, n) == \A x \in D : rank[x] < n => f[x] = F[x][f]
           S == {n \in Nat : \E f \in [D -> V] : Solves(f, n)}
<1>1. 0 \in S
  <2> DEFINE f == [x \in D |-> v]
  <2>1. f \in [D -> V] /\ Solves(f, 0)
    OBVIOUS
  <2> QED BY <2>1
<1>2. ASSUME NEW n \in S PROVE n + 1 \in S
  <2>1. n \in Nat /\ n + 1 \in Nat
    OBVIOUS
  <2>2. PICK f \in [D -> V] : Solves(f, n)
    OBVIOUS
  <2> DEFINE h == [x \in D |-> IF rank[x] < n THEN f[x] ELSE F[x][f]]
  <2>3. h \in [D -> V]
    BY <2>2
  <2>4. \A x \in D : rank[x] < n => h[x] = f[x]
    OBVIOUS
  <2>5. \A x \in D : ~ (rank[x] < n) => h[x] = F[x][f]
    OBVIOUS
  <2> HIDE DEF h
  <2>6. ASSUME NEW x \in D, rank[x] < n + 1 PROVE h[x] = F[x][h]
    <3>1. rank[x] \in Nat /\ rank[x] <= n
      BY <2>1, <2>6
    <3>2. \A y \in D : rank[y] < rank[x] => f[y] = h[y]
      <4> TAKE y \in D
      <4>1. rank[y] \in Nat
        OBVIOUS
      <4> QED BY <2>1, <2>4, <3>1, <4>1
    <3>3. F[x][f] = F[x][h]
      BY <2>2, <2>3, <3>2
    <3>4. h[x] = F[x][f]
      BY <2>2, <2>4, <2>5
    <3> QED BY <3>3, <3>4
  <2>7. Solves(h, n + 1)
    BY <2>6
  <2> HIDE DEF Solves
  <2> QED BY <2>1, <2>3, <2>7
<1>3. S = Nat
  <2>1. S \in SUBSET Nat
    OBVIOUS
  <2> HIDE DEF S
  <2> QED BY <1>1, <1>2, <2>1, Induction
<1>4. \E f \in [D -> V] : Solves(f, top)
  BY <1>3
<1> QED BY <1>4

\* Of finitely many ids those not yet seen get fewer as more are.
LEMMA Room ==
    /\ Cardinality(Ids) \in Nat
    /\ \A seen \in SUBSET Ids :
          /\ Cardinality(Ids \ seen) \in Nat /\ Cardinality(Ids \ seen) <= Cardinality(Ids)
          /\ \A more \in SUBSET Ids :
                seen \subseteq more /\ more # seen => Cardinality(Ids \ more) < Cardinality(Ids \ seen)
<1>1. IsFiniteSet(Ids)
  BY CorpusAssumption
<1>2. Cardinality(Ids) \in Nat
  BY <1>1, FS_CardinalityType
<1>3. ASSUME NEW seen \in SUBSET Ids
      PROVE  /\ IsFiniteSet(Ids \ seen)
             /\ Cardinality(Ids \ seen) \in Nat /\ Cardinality(Ids \ seen) <= Cardinality(Ids)
  <2> DEFINE rest == Ids \ seen
  <2>1. rest \in SUBSET Ids
    OBVIOUS
  <2> HIDE DEF rest
  <2>2. IsFiniteSet(rest) /\ Cardinality(rest) <= Cardinality(Ids)
    BY <1>1, <2>1, FS_Subset
  <2>3. Cardinality(rest) \in Nat
    BY <2>2, FS_CardinalityType
  <2> QED BY <2>2, <2>3 DEF rest
<1>4. ASSUME NEW seen \in SUBSET Ids, NEW more \in SUBSET Ids, seen \subseteq more, more # seen
      PROVE  Cardinality(Ids \ more) < Cardinality(Ids \ seen)
  <2> DEFINE rest == Ids \ seen
             less == Ids \ more
  <2>1. less \in SUBSET rest /\ less # rest
    BY <1>4
  <2>2. IsFiniteSet(rest) /\ Cardinality(rest) \in Nat /\ Cardinality(less) \in Nat
    BY <1>3
  <2> HIDE DEF rest, less
  <2>3. Cardinality(less) <= Cardinality(rest) /\ (Cardinality(rest) = Cardinality(less) => rest = less)
    BY <2>1, <2>2, FS_Subset
  <2>4. Cardinality(less) < Cardinality(rest)
    BY <2>1, <2>2, <2>3
  <2> QED BY <2>4 DEF rest, less
<1> QED BY <1>2, <1>3, <1>4

-----------------------------------------------------------------------------
(* Chains of same_as. *)

\* Facts that say what they are the same as, if anything, by an id.
Chained(ns) == DOMAIN ns \subseteq Ids /\ \A id \in DOMAIN ns : ns[id].same_as \in Ids \cup {None}

\* ChainEnd's equation holds everywhere.
LEMMA ChainEndUnfolds ==
    ASSUME NEW ns, Chained(ns), NEW cur \in Ids, NEW seen \in SUBSET Ids
    PROVE  ChainEnd(ns)[<<cur, seen>>] =
              IF cur \in seen \/ cur \notin DOMAIN ns THEN None
              ELSE IF ns[cur].same_as = None THEN cur
              ELSE ChainEnd(ns)[<<ns[cur].same_as, seen \cup {cur}>>]
<1> DEFINE D == Ids \X SUBSET Ids
           V == Ids \cup {None}
           Body(f, c, s) == IF c \in s \/ c \notin DOMAIN ns THEN None
                            ELSE IF ns[c].same_as = None THEN c
                            ELSE f[<<ns[c].same_as, s \cup {c}>>]
           rank == [x \in D |-> Cardinality(Ids \ x[2])]
           F == [x \in D |-> [f \in [D -> V] |-> Body(f, x[1], x[2])]]
           top == Cardinality(Ids) + 1
<1>1. /\ rank \in [D -> Nat] /\ top \in Nat /\ \A x \in D : rank[x] < top
  <2>1. \A x \in D : x[2] \in SUBSET Ids
    OBVIOUS
  <2>2. \A x \in D : Cardinality(Ids \ x[2]) \in Nat /\ Cardinality(Ids \ x[2]) <= Cardinality(Ids)
    BY <2>1, Room
  <2>3. Cardinality(Ids) \in Nat
    BY Room
  <2> HIDE DEF D
  <2> QED BY <2>2, <2>3
<1>2. ASSUME NEW x \in D, NEW f \in [D -> V] PROVE F[x][f] = Body(f, x[1], x[2]) /\ Body(f, x[1], x[2]) \in V
  <2>1. x[1] \in Ids /\ x[2] \in SUBSET Ids
    OBVIOUS
  <2>2. CASE x[1] \in x[2] \/ x[1] \notin DOMAIN ns \/ ns[x[1]].same_as = None
    BY <2>1, <2>2
  <2>3. CASE ~ (x[1] \in x[2] \/ x[1] \notin DOMAIN ns \/ ns[x[1]].same_as = None)
    <3>1. <<ns[x[1]].same_as, x[2] \cup {x[1]}>> \in D
      BY <2>1, <2>3 DEF Chained
    <3> QED BY <2>3, <3>1
  <2> QED BY <2>2, <2>3
<1>3. ASSUME NEW x \in D, NEW f \in [D -> V], NEW h \in [D -> V],
             \A y \in D : rank[y] < rank[x] => f[y] = h[y]
      PROVE  F[x][f] = F[x][h]
  <2> DEFINE y == <<ns[x[1]].same_as, x[2] \cup {x[1]}>>
  <2>1. x[1] \in Ids /\ x[2] \in SUBSET Ids
    OBVIOUS
  <2>2. CASE x[1] \in x[2] \/ x[1] \notin DOMAIN ns \/ ns[x[1]].same_as = None
    BY <2>1, <2>2
  <2>3. CASE ~ (x[1] \in x[2] \/ x[1] \notin DOMAIN ns \/ ns[x[1]].same_as = None)
    <3>1. y \in D
      BY <2>1, <2>3 DEF Chained
    <3>2. x[2] \subseteq y[2] /\ y[2] # x[2] /\ y[2] \in SUBSET Ids
      BY <2>1, <2>3
    <3>3. rank[y] < rank[x]
      BY <2>1, <3>1, <3>2, Room
    <3>4. f[y] = h[y]
      BY <1>3, <3>1, <3>3
    <3>5. Body(f, x[1], x[2]) = Body(h, x[1], x[2])
      BY <2>3, <3>4
    <3> QED BY <1>2, <3>5
  <2> QED BY <2>2, <2>3
<1> HIDE DEF rank, top
<1>4. PICK f \in [D -> V] : \A x \in D : f[x] = F[x][f]
  <2>1. None \in V /\ top \in Nat
    BY <1>1
  <2>2. \A x \in D : \A f \in [D -> V] : F[x][f] \in V
    BY <1>2
  <2>3. \A x \in D : \A f, h \in [D -> V] :
           (\A y \in D : rank[y] < rank[x] => f[y] = h[y]) => F[x][f] = F[x][h]
    <3> HIDE DEF D, V, F
    <3> QED BY <1>3
  <2> HIDE DEF D, V, F
  <2>4. Recursive(D, V, rank, top, F)
    BY <1>1, <2>2, <2>3 DEF Recursive
  <2> QED BY <2>1, <2>4, Recursion
<1> DEFINE Is(h) == h = [walk \in D |-> Body(h, walk[1], walk[2])]
           end == CHOOSE h : Is(h)
<1>5. Is(f)
  <2>1. \A walk \in D : f[walk] = Body(f, walk[1], walk[2])
    BY <1>2, <1>4
  <2> HIDE DEF Body, D, V
  <2> QED BY <2>1
<1>6. Is(end)
  <2> HIDE DEF Is
  <2> QED BY <1>5
<1>7. ChainEnd(ns) = end
  BY DEF ChainEnd
<1> HIDE DEF end
<1> DEFINE x == <<cur, seen>>
<1>8. x \in D /\ x[1] = cur /\ x[2] = seen
  OBVIOUS
<1>9. end[x] = Body(end, x[1], x[2])
  <2> HIDE DEF x, D, Body
  <2> QED BY <1>6, <1>8
<1> QED BY <1>7, <1>8, <1>9

\* A walk along same_as ends nowhere, or at a fact that is itself.
LEMMA ChainEndIsAnEnd ==
    ASSUME NEW ns, Chained(ns), NEW cur \in Ids, NEW seen \in SUBSET Ids,
           ChainEnd(ns)[<<cur, seen>>] # None
    PROVE  LET end == ChainEnd(ns)[<<cur, seen>>]
           IN  end \in DOMAIN ns /\ ns[end].same_as = None
<1> DEFINE end(c, s) == ChainEnd(ns)[<<c, s>>]
           Ends(c, s) == end(c, s) # None => end(c, s) \in DOMAIN ns /\ ns[end(c, s)].same_as = None
           S == {n \in Nat : \A c \in Ids, s \in SUBSET Ids : Cardinality(Ids \ s) < n => Ends(c, s)}
<1>1. 0 \in S
  <2>1. \A s \in SUBSET Ids : Cardinality(Ids \ s) \in Nat
    BY Room
  <2>2. \A s \in SUBSET Ids : ~ (Cardinality(Ids \ s) < 0)
    BY <2>1
  <2> HIDE DEF Ends
  <2> QED BY <2>2
<1>2. ASSUME NEW n \in S PROVE n + 1 \in S
  <2> SUFFICES ASSUME NEW c \in Ids, NEW s \in SUBSET Ids, Cardinality(Ids \ s) < n + 1
               PROVE  Ends(c, s)
    <3> HIDE DEF Ends
    <3> QED OBVIOUS
  <2>1. end(c, s) = IF c \in s \/ c \notin DOMAIN ns THEN None
                    ELSE IF ns[c].same_as = None THEN c
                    ELSE end(ns[c].same_as, s \cup {c})
    BY ChainEndUnfolds
  <2>2. CASE c \in s \/ c \notin DOMAIN ns \/ ns[c].same_as = None
    BY <2>1, <2>2
  <2>3. CASE ~ (c \in s \/ c \notin DOMAIN ns \/ ns[c].same_as = None)
    <3> DEFINE further == s \cup {c}
    <3>1. further \in SUBSET Ids /\ s \subseteq further /\ further # s /\ ns[c].same_as \in Ids
      BY <2>3 DEF Chained
    <3>2. Cardinality(Ids \ further) < n
      <4>1. /\ Cardinality(Ids \ further) \in Nat /\ Cardinality(Ids \ s) \in Nat /\ n \in Nat
            /\ Cardinality(Ids \ further) < Cardinality(Ids \ s)
        <5> HIDE DEF further, Ends
        <5> QED BY <3>1, Room
      <4> HIDE DEF further
      <4> QED BY <4>1
    <3>3. Ends(ns[c].same_as, further)
      <4> HIDE DEF Ends, further
      <4> QED BY <3>1, <3>2
    <3>4. end(c, s) = end(ns[c].same_as, further)
      BY <2>1, <2>3
    <3> HIDE DEF end, further
    <3> QED BY <3>3, <3>4
  <2> QED BY <2>2, <2>3
<1>3. S = Nat
  <2>1. S \in SUBSET Nat
    OBVIOUS
  <2> HIDE DEF S
  <2> QED BY <1>1, <1>2, <2>1, Induction
<1>4. Ends(cur, seen)
  <2>1. Cardinality(Ids \ seen) \in Nat
    BY Room
  <2>2. Cardinality(Ids \ seen) + 1 \in S
    <3> HIDE DEF S
    <3> QED BY <1>3, <2>1
  <2>3. Cardinality(Ids \ seen) < Cardinality(Ids \ seen) + 1
    BY <2>1
  <2> HIDE DEF Ends
  <2> QED BY <2>2, <2>3
<1> QED BY <1>4

\* Facts and relations as a log has them.
Log(ns, es) ==
    /\ DOMAIN ns \subseteq Ids /\ \A id \in DOMAIN ns : IsFact(ns[id])
    /\ \E m \in Nat : DOMAIN es = 1..m
    /\ \A i \in DOMAIN es : es[i] \in Relations

LEMMA LogIsChained ==
    ASSUME NEW ns, NEW es, Log(ns, es)
    PROVE  Chained(ns)
BY DEF Log, IsFact, Chained

\* What is folded away is folded into a fact of its kind that is not.
LEMMA RetiredInto ==
    ASSUME NEW ns, Chained(ns)
    PROVE  /\ DOMAIN Retired(ns) \subseteq DOMAIN ns
           /\ \A id \in DOMAIN Retired(ns) :
                 /\ ns[id].same_as # None /\ Retired(ns)[id] = Survivor(ns, id)
                 /\ Retired(ns)[id] \in DOMAIN ns \ DOMAIN Retired(ns)
                 /\ ns[Retired(ns)[id]].kind = ns[id].kind
<1> DEFINE folded == {id \in DOMAIN ns :
                     /\ ns[id].same_as # None
                     /\ Survivor(ns, id) # None
                     /\ ns[Survivor(ns, id)].kind = ns[id].kind}
<1>1. Retired(ns) = [id \in folded |-> Survivor(ns, id)]
  BY DEF Retired
<1>2. ASSUME NEW id \in folded
      PROVE  Survivor(ns, id) \in DOMAIN ns /\ ns[Survivor(ns, id)].same_as = None
  <2> DEFINE start == ns[id].same_as
             way == {id}
  <2>1. start \in Ids /\ way \in SUBSET Ids
    BY DEF Chained
  <2>2. Survivor(ns, id) = ChainEnd(ns)[<<start, way>>]
    BY DEF Survivor
  <2>3. Survivor(ns, id) # None
    OBVIOUS
  <2> HIDE DEF start, way, folded
  <2> QED BY <2>1, <2>2, <2>3, ChainEndIsAnEnd
<1>3. \A id \in folded : Survivor(ns, id) \notin folded
  BY <1>2
<1> QED BY <1>1, <1>2, <1>3

LEMMA BuildIsOfWhatIsLeft ==
    ASSUME NEW ns, NEW es, Log(ns, es)
    PROVE  LET g == Build(ns, es)
               retired == Retired(ns)
           IN  /\ g.retired = retired
               /\ DOMAIN g.nodes = DOMAIN ns \ DOMAIN retired
               /\ \A id \in DOMAIN g.nodes :
                     /\ g.nodes[id].while = Resolve(retired, ns[id].while)
                     /\ g.nodes[id].owner = Resolve(retired, ns[id].owner)
                     /\ g.nodes[id].kind = ns[id].kind
                     /\ g.nodes[id].status = ns[id].status
                     /\ g.nodes[id].k = ns[id].k
                     /\ g.nodes[id].says = ns[id].says
                     /\ DOMAIN g.nodes[id] = DOMAIN Node("claim", "asserted")
               /\ g.edges = KeptEdges(retired, es)
               /\ g.incident = {e \in g.edges : e.src \in DOMAIN g.nodes /\ e.dst \in DOMAIN g.nodes}
<1> DEFINE g == Build(ns, es)
           retired == Retired(ns)
           left == DOMAIN ns \ DOMAIN retired
           merged == [id \in left |-> [RewrittenNode(retired, ns[id])
                                 EXCEPT !.aliases = MergedAliases(ns, retired, id)]]
           kept == KeptEdges(retired, es)
<1>1. \A f : Explicit(f) = f
  BY DEF Explicit
<1>2. /\ g.retired = retired /\ g.nodes = merged /\ g.edges = kept
      /\ g.incident = {e \in kept : e.src \in left /\ e.dst \in left}
  <2>1. Explicit(retired) = retired /\ Explicit(merged) = merged
    BY <1>1
  <2> HIDE DEF merged, retired, kept
  <2>2. /\ Build(ns, es).retired = Explicit(Retired(ns))
        /\ Build(ns, es).nodes =
              Explicit([id \in DOMAIN ns \ DOMAIN Explicit(Retired(ns)) |->
                  [RewrittenNode(Explicit(Retired(ns)), ns[id])
                      EXCEPT !.aliases = MergedAliases(ns, Explicit(Retired(ns)), id)]])
        /\ Build(ns, es).edges = KeptEdges(Explicit(Retired(ns)), es)
        /\ Build(ns, es).incident = {e \in KeptEdges(Explicit(Retired(ns)), es) :
              /\ e.src \in DOMAIN ns \ DOMAIN Explicit(Retired(ns))
              /\ e.dst \in DOMAIN ns \ DOMAIN Explicit(Retired(ns))}
    BY DEF Build
  <2> QED BY <1>1, <2>1, <2>2 DEF merged, retired, kept
<1> HIDE DEF g, retired
<1>3. ASSUME NEW id \in left
      PROVE  /\ merged[id].while = Resolve(retired, ns[id].while)
             /\ merged[id].owner = Resolve(retired, ns[id].owner)
             /\ merged[id].kind = ns[id].kind
             /\ merged[id].status = ns[id].status
             /\ merged[id].k = ns[id].k
             /\ merged[id].says = ns[id].says
             /\ DOMAIN merged[id] = DOMAIN Node("claim", "asserted")
  <2> DEFINE n == RewrittenNode(retired, ns[id])
             names == MergedAliases(ns, retired, id)
  <2>1. DOMAIN ns[id] = DOMAIN Node("claim", "asserted")
    BY DEF Log, IsFact
  <2>2. {"while", "owner", "kind", "status", "k", "says"} \subseteq DOMAIN Node("claim", "asserted")
    BY DEF Node
  <2>3. /\ n.while = Resolve(retired, ns[id].while) /\ n.owner = Resolve(retired, ns[id].owner)
        /\ n.kind = ns[id].kind /\ n.status = ns[id].status /\ n.k = ns[id].k
        /\ n.says = ns[id].says /\ DOMAIN n = DOMAIN Node("claim", "asserted")
    BY <2>1, <2>2 DEF RewrittenNode
  <2>4. merged[id] = [n EXCEPT !.aliases = names]
    OBVIOUS
  <2> HIDE DEF n, names, merged
  <2> QED BY <2>2, <2>3, <2>4
<1> HIDE DEF merged, kept
<1>4. DOMAIN merged = left
  BY DEF merged
<1> QED BY <1>2, <1>3, <1>4 DEF g, retired, kept

-----------------------------------------------------------------------------
(* Folding one fact more. *)

Through(id, into, x) == IF x = id THEN into ELSE x

\* A walk that ended at id goes one link further.
LEMMA ChainEndGoesOn ==
    ASSUME NEW ns, Chained(ns), NEW id \in DOMAIN ns, NEW into \in DOMAIN ns, id # into,
           ns[id].same_as = None, ns[into].same_as = None,
           NEW ns2, DOMAIN ns2 = DOMAIN ns, ns2[id].same_as = into,
           \A x \in DOMAIN ns : x # id => ns2[x].same_as = ns[x].same_as,
           NEW cur \in Ids, NEW seen \in SUBSET Ids, id \notin seen, into \notin seen
    PROVE  ChainEnd(ns2)[<<cur, seen>>] = Through(id, into, ChainEnd(ns)[<<cur, seen>>])
<1> DEFINE was(c, s) == ChainEnd(ns)[<<c, s>>]
           now(c, s) == ChainEnd(ns2)[<<c, s>>]
           Same(c, s) == id \notin s /\ into \notin s => now(c, s) = Through(id, into, was(c, s))
           S == {n \in Nat : \A c \in Ids, s \in SUBSET Ids : Cardinality(Ids \ s) < n => Same(c, s)}
<1>0. Chained(ns2) /\ id \in Ids /\ into \in Ids /\ id # None /\ into # None
  BY NoneAssumption DEF Chained
<1>1. 0 \in S
  <2>1. \A s \in SUBSET Ids : Cardinality(Ids \ s) \in Nat
    BY Room
  <2>2. \A s \in SUBSET Ids : ~ (Cardinality(Ids \ s) < 0)
    BY <2>1
  <2> HIDE DEF Same
  <2> QED BY <2>2
<1>2. ASSUME NEW n \in S PROVE n + 1 \in S
  <2> SUFFICES ASSUME NEW c \in Ids, NEW s \in SUBSET Ids, Cardinality(Ids \ s) < n + 1
               PROVE  Same(c, s)
    <3> HIDE DEF Same
    <3> QED OBVIOUS
  <2> SUFFICES ASSUME id \notin s, into \notin s PROVE now(c, s) = Through(id, into, was(c, s))
    OBVIOUS
  <2>1. was(c, s) = IF c \in s \/ c \notin DOMAIN ns THEN None
                    ELSE IF ns[c].same_as = None THEN c
                    ELSE was(ns[c].same_as, s \cup {c})
    BY ChainEndUnfolds
  <2>2. now(c, s) = IF c \in s \/ c \notin DOMAIN ns THEN None
                    ELSE IF ns2[c].same_as = None THEN c
                    ELSE now(ns2[c].same_as, s \cup {c})
    BY <1>0, ChainEndUnfolds
  <2>3. CASE c \in s \/ c \notin DOMAIN ns
    BY <1>0, <2>1, <2>2, <2>3 DEF Through
  <2>4. CASE c = id
    <3>1. was(c, s) = id
      BY <2>1, <2>4
    <3>2. now(c, s) = now(into, s \cup {id})
      BY <1>0, <2>2, <2>4
    <3>3. now(into, s \cup {id}) = into
      <4> DEFINE way == s \cup {id}
      <4>1. way \in SUBSET Ids /\ into \notin way
        BY <1>0
      <4> HIDE DEF way
      <4>2. now(into, way) = IF into \in way \/ into \notin DOMAIN ns2 THEN None
                             ELSE IF ns2[into].same_as = None THEN into
                             ELSE now(ns2[into].same_as, way \cup {into})
        BY <1>0, <4>1, ChainEndUnfolds
      <4>3. now(into, way) = into
        BY <4>1, <4>2
      <4> QED BY <4>3 DEF way
    <3> QED BY <3>1, <3>2, <3>3 DEF Through
  <2>5. CASE c \notin s /\ c \in DOMAIN ns /\ c # id /\ ns[c].same_as = None
    BY <2>1, <2>2, <2>5 DEF Through
  <2>6. CASE c \notin s /\ c \in DOMAIN ns /\ c # id /\ ns[c].same_as # None
    <3> DEFINE further == s \cup {c}
    <3>1. further \in SUBSET Ids /\ s \subseteq further /\ further # s /\ ns[c].same_as \in Ids
          /\ id \notin further /\ into \notin further
      BY <2>6 DEF Chained
    <3>2. Cardinality(Ids \ further) < n
      <4>1. /\ Cardinality(Ids \ further) \in Nat /\ Cardinality(Ids \ s) \in Nat /\ n \in Nat
            /\ Cardinality(Ids \ further) < Cardinality(Ids \ s)
        <5> HIDE DEF further, Same
        <5> QED BY <3>1, Room
      <4> HIDE DEF further
      <4> QED BY <4>1
    <3>3. Same(ns[c].same_as, further)
      <4> HIDE DEF Same, further
      <4> QED BY <3>1, <3>2
    <3>4. was(c, s) = was(ns[c].same_as, further) /\ now(c, s) = now(ns[c].same_as, further)
      BY <2>1, <2>2, <2>6
    <3> HIDE DEF was, now, further
    <3> QED BY <3>1, <3>3, <3>4
  <2> QED BY <2>3, <2>4, <2>5, <2>6
<1>3. S = Nat
  <2>1. S \in SUBSET Nat
    OBVIOUS
  <2> HIDE DEF S
  <2> QED BY <1>1, <1>2, <2>1, Induction
<1>4. Same(cur, seen)
  <2>1. Cardinality(Ids \ seen) \in Nat
    BY Room
  <2>2. Cardinality(Ids \ seen) + 1 \in S
    <3> HIDE DEF S
    <3> QED BY <1>3, <2>1
  <2>3. Cardinality(Ids \ seen) < Cardinality(Ids \ seen) + 1
    BY <2>1
  <2> HIDE DEF Same
  <2> QED BY <2>2, <2>3
<1> QED BY <1>4

FoldedInto(ns, ns2, id, into) ==
    /\ Chained(ns) /\ id \in DOMAIN ns /\ into \in DOMAIN ns
    /\ id # into /\ ns[id].same_as = None /\ ns[into].same_as = None /\ ns[id].kind = ns[into].kind
    /\ \A x \in DOMAIN ns : ns[x].same_as # None => x \in DOMAIN Retired(ns)
    /\ DOMAIN ns2 = DOMAIN ns /\ ns2[id].same_as = into
    /\ \A x \in DOMAIN ns : x # id => ns2[x].same_as = ns[x].same_as
    /\ \A x \in DOMAIN ns : ns2[x].kind = ns[x].kind

\* What led to id leads to the other, and all else where it did.
LeadsOn(r, r2, id, into) ==
    \A x \in Ids \cup {None} : Resolve(r2, x) = Through(id, into, Resolve(r, x))

\* Folding id into another, where every chain so far has an end, changes nothing
\* else: what led to id leads to the other.
LEMMA FoldingOneMore ==
    \A ns, ns2, id, into :
        FoldedInto(ns, ns2, id, into) =>
            /\ DOMAIN Retired(ns2) = DOMAIN Retired(ns) \cup {id}
            /\ LeadsOn(Retired(ns), Retired(ns2), id, into)
<1> SUFFICES ASSUME NEW ns, NEW ns2, NEW id, NEW into, FoldedInto(ns, ns2, id, into)
             PROVE  /\ DOMAIN Retired(ns2) = DOMAIN Retired(ns) \cup {id}
                    /\ LeadsOn(Retired(ns), Retired(ns2), id, into)
  OBVIOUS
<1> USE DEF FoldedInto
<1> DEFINE r == Retired(ns)
           r2 == Retired(ns2)
           folded2 == {x \in DOMAIN ns2 :
                     /\ ns2[x].same_as # None
                     /\ Survivor(ns2, x) # None
                     /\ ns2[Survivor(ns2, x)].kind = ns2[x].kind}
<1>0. id \in Ids /\ into \in Ids /\ id # None /\ into # None /\ Chained(ns2)
  BY NoneAssumption DEF Chained
<1>1. r2 = [x \in folded2 |-> Survivor(ns2, x)]
  BY DEF Retired
<1>2. /\ DOMAIN r \subseteq DOMAIN ns
      /\ \A x \in DOMAIN r : /\ ns[x].same_as # None /\ r[x] = Survivor(ns, x)
                             /\ r[x] \in DOMAIN ns \ DOMAIN r /\ ns[r[x]].kind = ns[x].kind
  BY RetiredInto
<1>3. Survivor(ns2, id) = into
  <2> DEFINE way == {id}
  <2>1. way \in SUBSET Ids /\ into \notin way
    BY <1>0
  <2>2. Survivor(ns2, id) = ChainEnd(ns2)[<<into, way>>]
    BY DEF Survivor
  <2> HIDE DEF way
  <2>3. ChainEnd(ns2)[<<into, way>>] =
            IF into \in way \/ into \notin DOMAIN ns2 THEN None
            ELSE IF ns2[into].same_as = None THEN into
            ELSE ChainEnd(ns2)[<<ns2[into].same_as, way \cup {into}>>]
    BY <1>0, <2>1, ChainEndUnfolds
  <2> QED BY <2>1, <2>2, <2>3
<1>4. ASSUME NEW x \in DOMAIN r PROVE Survivor(ns2, x) = Through(id, into, r[x]) /\ x # id
  <2> DEFINE start == ns[x].same_as
             way == {x}
  <2>1. x # id /\ x # into /\ start \in Ids /\ way \in SUBSET Ids
    BY <1>2 DEF Chained
  <2>2. Survivor(ns2, x) = ChainEnd(ns2)[<<start, way>>] /\ Survivor(ns, x) = ChainEnd(ns)[<<start, way>>]
    BY <1>2, <2>1 DEF Survivor
  <2>3. id \notin way /\ into \notin way
    BY <2>1
  <2> HIDE DEF start, way, r, r2
  <2>4. ChainEnd(ns2)[<<start, way>>] = Through(id, into, ChainEnd(ns)[<<start, way>>])
    BY <2>1, <2>3, ChainEndGoesOn
  <2> QED BY <1>2, <2>1, <2>2, <2>4
<1>5. id \in folded2
  BY <1>0, <1>3
<1>6. ASSUME NEW x \in DOMAIN r PROVE x \in folded2
  <2>1. ns2[x].same_as # None /\ x \in DOMAIN ns2
    BY <1>2, <1>4
  <2>2. Through(id, into, r[x]) # None /\ ns2[Through(id, into, r[x])].kind = ns2[x].kind
    BY <1>0, <1>2, NoneAssumption DEF Through, Chained
  <2> HIDE DEF r, r2
  <2> QED BY <1>4, <2>1, <2>2
<1>7. ASSUME NEW x \in folded2, x # id PROVE x \in DOMAIN r
  BY <1>7
<1>8. DOMAIN r2 = DOMAIN r \cup {id}
  <2>1. folded2 = DOMAIN r \cup {id}
    <3> HIDE DEF r, folded2
    <3> QED BY <1>5, <1>6, <1>7
  <2> HIDE DEF r, folded2, r2
  <2> QED BY <1>1, <2>1
<1>9. r2[id] = into /\ \A x \in DOMAIN r : r2[x] = Through(id, into, r[x])
  <2> HIDE DEF r, r2, folded2
  <2> QED BY <1>1, <1>3, <1>4, <1>5, <1>6
<1>10. id \notin DOMAIN r
  BY <1>2
<1> HIDE DEF r, r2, folded2
<1>11. \A x \in Ids \cup {None} : Resolve(r2, x) = Through(id, into, Resolve(r, x))
  BY <1>8, <1>9, <1>10 DEF Resolve, Through
<1> QED BY <1>8, <1>11 DEF r, r2, LeadsOn

-----------------------------------------------------------------------------
(* Stated relations. *)

\* Some element of n or more numbers has just n - 1 below it.
LEMMA Nth ==
    ASSUME NEW len \in Nat, NEW T \in SUBSET (1..len), NEW n \in 1..Cardinality(T)
    PROVE  \E p \in T : Cardinality({q \in T : q < p}) = n - 1
<1> DEFINE below(p) == {q \in T : q < p}
           S == {m \in Nat : m < Cardinality(T) => \E p \in T : Cardinality(below(p)) = m}
<1>1. IsFiniteSet(T) /\ Cardinality(T) \in Nat /\ T \in SUBSET Nat
  <2>1. IsFiniteSet(1..len)
    BY FS_Interval
  <2>2. IsFiniteSet(T)
    BY <2>1, FS_Subset
  <2> QED BY <2>2, FS_CardinalityType
<1>2. 0 \in S
  <2> SUFFICES ASSUME 0 < Cardinality(T) PROVE \E p \in T : Cardinality(below(p)) = 0
    OBVIOUS
  <2>1. T # {}
    BY FS_EmptySet
  <2>2. PICK p \in T : \A q \in T : p <= q
    BY <1>1, <2>1, Smallest
  <2>3. below(p) = {}
    <3>1. \A q \in T : q \in Nat /\ p \in Nat /\ p <= q
      BY <1>1, <2>2
    <3>2. \A q \in T : ~ (q < p)
      BY <3>1
    <3> QED BY <3>2
  <2>4. Cardinality(below(p)) = 0
    BY <2>3, FS_EmptySet
  <2> QED BY <2>4
<1>3. ASSUME NEW m \in S PROVE m + 1 \in S
  <2> SUFFICES ASSUME m + 1 < Cardinality(T) PROVE \E p \in T : Cardinality(below(p)) = m + 1
    OBVIOUS
  <2>1. m \in Nat
    OBVIOUS
  <2>2. m < Cardinality(T)
    BY <1>1, <2>1
  <2>3. PICK p \in T : Cardinality(below(p)) = m
    BY <2>2
  <2> DEFINE upTo == below(p) \cup {p}
             above == T \ upTo
  <2>4. Cardinality(upTo) = m + 1
    <3>1. IsFiniteSet(below(p)) /\ p \notin below(p)
      <4>1. below(p) \in SUBSET T
        OBVIOUS
      <4>2. p \notin below(p)
        BY <1>1
      <4> QED BY <1>1, <4>1, <4>2, FS_Subset
    <3> HIDE DEF below
    <3> QED BY <2>3, <3>1, FS_AddElement
  <2>5. above # {}
    BY <1>1, <2>1, <2>4
  <2>6. PICK q \in above : \A x \in above : q <= x
    <3>1. above \in SUBSET Nat
      BY <1>1
    <3> HIDE DEF above
    <3> QED BY <2>5, <3>1, Smallest
  <2>7. below(q) = upTo
    <3>1. ASSUME NEW x \in T PROVE x < q <=> x \in upTo
      <4>1. x \in Nat /\ q \in Nat /\ p \in Nat /\ q \in T /\ q \notin upTo
        BY <1>1
      <4>2. p < q
        BY <4>1
      <4>3. x \notin upTo => q <= x
        BY <2>6
      <4>4. x \in upTo => x <= p
        BY <4>1
      <4> HIDE DEF upTo, above
      <4> QED BY <4>1, <4>2, <4>3, <4>4
    <3>2. upTo \subseteq T
      OBVIOUS
    <3> QED BY <3>1, <3>2
  <2>8. q \in T /\ Cardinality(below(q)) = m + 1
    BY <2>4, <2>7
  <2> QED BY <2>8
<1>4. S = Nat
  <2>1. S \in SUBSET Nat
    OBVIOUS
  <2> HIDE DEF S
  <2> QED BY <1>2, <1>3, <2>1, Induction
<1>5. n - 1 \in Nat /\ n - 1 < Cardinality(T)
  BY <1>1
<1> QED BY <1>4, <1>5

\* What is stated is stated of the draft.
LEMMA StatedAreRelations ==
    ASSUME draft \in Seq(Relations), NEW which \in SUBSET (DOMAIN draft)
    PROVE  /\ \E m \in Nat : DOMAIN Stated(draft, which) = 1..m
           /\ \A i \in DOMAIN Stated(draft, which) : Stated(draft, which)[i] \in Relations
<1> DEFINE total == Cardinality(which)
           position == [n \in 1..total |->
                        CHOOSE p \in which : Cardinality({q \in which : q < p}) = n - 1]
<1>1. Len(draft) \in Nat /\ DOMAIN draft = 1..Len(draft) /\ \A p \in DOMAIN draft : draft[p] \in Relations
  OBVIOUS
<1>2. total \in Nat
  <2>1. IsFiniteSet(1..Len(draft))
    BY <1>1, FS_Interval
  <2>2. IsFiniteSet(which)
    BY <1>1, <2>1, FS_Subset
  <2> QED BY <2>2, FS_CardinalityType
<1>3. Stated(draft, which) = [n \in DOMAIN position |-> draft[position[n]]] /\ DOMAIN position = 1..total
  BY DEF Stated
<1>4. ASSUME NEW n \in 1..total PROVE position[n] \in which
  <2>1. \E p \in which : Cardinality({q \in which : q < p}) = n - 1
    BY <1>1, Nth
  <2> QED BY <2>1
<1> HIDE DEF position, total
<1>5. ASSUME NEW n \in DOMAIN Stated(draft, which) PROVE Stated(draft, which)[n] \in Relations
  <2>1. n \in 1..total /\ Stated(draft, which)[n] = draft[position[n]]
    BY <1>3
  <2>2. position[n] \in DOMAIN draft
    BY <1>4, <2>1
  <2> QED BY <1>1, <2>1, <2>2
<1>6. DOMAIN Stated(draft, which) = 1..total
  BY <1>3
<1> QED BY <1>2, <1>5, <1>6

-----------------------------------------------------------------------------
(* The inductive invariant: the log is one, and the graph is the one it builds. *)

LogInv ==
    /\ DOMAIN nodes \subseteq Ids
    /\ \A id \in DOMAIN nodes : IsFact(nodes[id])
    /\ draft \in Seq(Relations)
    /\ stated \subseteq DOMAIN draft

GraphInv ==
    /\ graph = Build(nodes, Stated(draft, stated))
    /\ Builds(nodes, graph)

IInv == LogInv /\ GraphInv

LEMMA InitEstablishes == Init => IInv
<1> SUFFICES ASSUME Init PROVE IInv
  OBVIOUS
<1>1. LogInv
  BY CorpusAssumption DEF Init, LogInv
<1>2. Stated(draft, {}) = << >>
  <2>1. Cardinality({}) = 0
    BY FS_EmptySet
  <2>2. 1..0 = {}
    OBVIOUS
  <2> QED BY <2>1, <2>2 DEF Stated
<1>3. GraphInv
  BY <1>2 DEF Init, GraphInv
<1> QED BY <1>1, <1>3 DEF IInv

\* A write to one node that leaves it a fact.
LEMMA WritePreserves ==
    ASSUME IInv, NEW id \in DOMAIN nodes, NEW fields, IsFact(fields), Write(id, fields)
    PROVE  IInv'
<1>1. LogInv'
  BY DEF IInv, LogInv, Write
<1>2. GraphInv'
  BY DEF GraphInv, Write
<1> QED BY <1>1, <1>2 DEF IInv

LEMMA NextPreserves == IInv /\ [Next]_vars => IInv'
<1> SUFFICES ASSUME IInv, [Next]_vars PROVE IInv'
  OBVIOUS
<1>0. ASSUME NEW n, IsFact(n) PROVE
        /\ \A status : IsFact([n EXCEPT !.status = status])
        /\ \A into \in Ids : IsFact([n EXCEPT !.same_as = into])
  <2>1. {"status", "same_as", "while", "owner", "k"} \subseteq DOMAIN n /\ DOMAIN n = DOMAIN Node("claim", "asserted")
    BY <1>0 DEF IsFact, Node
  <2>2. ASSUME NEW status PROVE IsFact([n EXCEPT !.status = status])
    BY <1>0, <2>1 DEF IsFact
  <2>3. ASSUME NEW into \in Ids PROVE IsFact([n EXCEPT !.same_as = into])
    BY <1>0, <2>1 DEF IsFact
  <2> QED BY <2>2, <2>3
<1>1. ASSUME NEW p \in DOMAIN draft, Relate(p) PROVE IInv'
  <2>1. LogInv'
    BY <1>1 DEF IInv, LogInv, Relate
  <2>2. GraphInv'
    BY <1>1 DEF GraphInv, Relate
  <2> QED BY <2>1, <2>2 DEF IInv
<1>2. ASSUME NEW id \in DOMAIN nodes, Withdraw(id) PROVE IInv'
  <2>1. IsFact([nodes[id] EXCEPT !.status = "withdrawn"])
    BY <1>0 DEF IInv, LogInv
  <2> QED BY <1>2, <2>1, WritePreserves DEF Withdraw
<1>3. ASSUME NEW id \in DOMAIN nodes, NEW status, AssertAgain(id, status) PROVE IInv'
  <2>1. IsFact([nodes[id] EXCEPT !.status = status])
    BY <1>0 DEF IInv, LogInv
  <2> QED BY <1>3, <2>1, WritePreserves DEF AssertAgain
<1>4. ASSUME NEW id \in DOMAIN nodes, NEW into \in DOMAIN nodes, Retire(id, into) PROVE IInv'
  <2>1. IsFact([nodes[id] EXCEPT !.same_as = into])
    BY <1>0 DEF IInv, LogInv
  <2> QED BY <1>4, <2>1, WritePreserves DEF Retire
<1>5. CASE UNCHANGED <<nodes, draft, stated, graph>>
  BY <1>5 DEF IInv, LogInv, GraphInv
<1>6. ASSUME NEW fact, NEW source, NEW verdict, Rule(fact, source, verdict) PROVE IInv'
  BY <1>5, <1>6 DEF Rule
<1> QED BY <1>1, <1>2, <1>3, <1>4, <1>5, <1>6 DEF Next, vars

\* The graph in memory is always the one the log builds, whole, with no reference
\* to nothing (Apply refuses the write otherwise).
THEOREM Invariance == Spec => []IInv
BY InitEstablishes, NextPreserves, PTL DEF Spec

LEMMA LogOfTheGraph ==
    ASSUME IInv
    PROVE  Log(nodes, Stated(draft, stated))
BY StatedAreRelations DEF IInv, LogInv, Log

-----------------------------------------------------------------------------
(* Retirement. *)

LEMMA EveryIdIsFound == ASSUME IInv PROVE RetiredIsFound
<1> DEFINE es == Stated(draft, stated)
<1>1. Log(nodes, es) /\ Chained(nodes)
  BY LogOfTheGraph, LogIsChained
<1>2. graph = Build(nodes, es) /\ DOMAIN nodes \subseteq Ids
  BY DEF IInv, GraphInv, LogInv
<1> HIDE DEF es
<1>3. graph.retired = Retired(nodes) /\ DOMAIN graph.nodes = DOMAIN nodes \ DOMAIN Retired(nodes)
  BY <1>1, <1>2, BuildIsOfWhatIsLeft
<1>4. \A id \in DOMAIN Retired(nodes) : Retired(nodes)[id] \in DOMAIN nodes \ DOMAIN Retired(nodes)
  BY <1>1, RetiredInto
<1>5. \A id \in DOMAIN nodes : id # None
  BY <1>2, NoneAssumption
<1> QED BY <1>3, <1>4, <1>5 DEF RetiredIsFound, Lookup

\* Whatever was ever asserted is found, by its own id or as what it was folded
\* into (Lookup; retire, in write.go).
THEOREM WhatWasSaidIsFound == Spec => []RetiredIsFound
BY Invariance, EveryIdIsFound, PTL

\* The relation first stated of those that are now the same as it, kept unless it
\* relates a fact to itself.
LEMMA KeptForIt ==
    ASSUME NEW retired, NEW es, NEW m \in Nat, DOMAIN es = 1..m, NEW i \in DOMAIN es,
           \A j \in DOMAIN es : es[j] \in Relations,
           LET e == RewrittenEdge(retired, es[i]) IN e.src # e.dst
    PROVE  LET e == RewrittenEdge(retired, es[i])
           IN  \E f \in KeptEdges(retired, es) :
                  f.type = e.type /\ f.src = e.src /\ f.dst = e.dst /\ f.while = e.while
<1> DEFINE now(j) == RewrittenEdge(retired, es[j])
           T == {j \in Nat : j \in DOMAIN es /\ SameRelation(now(j), now(i))}
<1>1. SameRelation(now(i), now(i))
  BY DEF SameRelation
<1>2. T \in SUBSET Nat /\ T # {}
  <2> HIDE DEF now
  <2> QED BY <1>1
<1>3. PICK j \in T : \A x \in T : j <= x
  <2> HIDE DEF T
  <2> QED BY <1>2, Smallest
<1>4. j \in DOMAIN es /\ j \in Nat /\ SameRelation(now(j), now(i))
  <2> HIDE DEF now
  <2> QED OBVIOUS
<1>5. \A x \in 1..(j - 1) : ~ SameRelation(now(x), now(j))
  <2> SUFFICES ASSUME NEW x \in 1..(j - 1), SameRelation(now(x), now(j)) PROVE FALSE
    <3> HIDE DEF now
    <3> QED OBVIOUS
  <2>1. x \in DOMAIN es /\ x \in Nat /\ ~ (j <= x)
    BY <1>4
  <2>2. SameRelation(now(x), now(i))
    BY <1>4 DEF SameRelation
  <2> HIDE DEF now
  <2>3. x \in T
    BY <2>1, <2>2
  <2> HIDE DEF T
  <2> QED BY <1>3, <2>1, <2>3
<1>6. ASSUME NEW x \in DOMAIN es PROVE DOMAIN now(x) = {"type", "src", "dst", "while", "from", "until", "one_way"}
  <2>1. es[x] \in Relations
    OBVIOUS
  <2> QED BY <2>1 DEF Relations, RewrittenEdge
<1>7. now(j).type = now(i).type /\ now(j).src = now(i).src /\ now(j).dst = now(i).dst /\ now(j).while = now(i).while
  <2> DEFINE a == now(j)
             b == now(i)
             fields == {"type", "src", "dst", "while", "from", "until", "one_way"}
  <2>1. DOMAIN a = fields /\ DOMAIN b = fields
    BY <1>4, <1>6
  <2>2. [a EXCEPT !.one_way = FALSE] = [b EXCEPT !.one_way = FALSE]
    BY <1>4 DEF SameRelation
  <2> HIDE DEF a, b
  <2>3. \A x \in {"type", "src", "dst", "while"} :
           [a EXCEPT !.one_way = FALSE][x] = a[x] /\ [b EXCEPT !.one_way = FALSE][x] = b[x]
    BY <2>1
  <2>4. \A x \in {"type", "src", "dst", "while"} : a[x] = b[x]
    BY <2>2, <2>3
  <2>5. a.type = b.type /\ a.src = b.src /\ a.dst = b.dst /\ a.while = b.while
    BY <2>4
  <2> QED BY <2>5 DEF a, b
<1>8. now(j) \in KeptEdges(retired, es)
  <2>1. now(j).src # now(j).dst
    BY <1>7
  <2>2. KeptEdges(retired, es) = {now(x) : x \in {x \in DOMAIN es :
            /\ \A y \in 1..(x - 1) : ~ SameRelation(now(y), now(x))
            /\ DOMAIN retired # {} => now(x).src # now(x).dst}}
    <3>1. ASSUME NEW x \in DOMAIN es, NEW y \in 1..(x - 1) PROVE y \in DOMAIN es
      OBVIOUS
    <3> QED BY <3>1 DEF KeptEdges
  <2> HIDE DEF now
  <2> QED BY <1>4, <1>5, <2>1, <2>2
<1> HIDE DEF now, T
<1>9. \E f \in KeptEdges(retired, es) :
            f.type = now(i).type /\ f.src = now(i).src /\ f.dst = now(i).dst /\ f.while = now(i).while
  BY <1>7, <1>8
<1> QED BY <1>9 DEF now

\* Of two facts that are both left.
LEMMA FoldingLeavesNothingDangling ==
    ASSUME NEW ns, NEW es, Log(ns, es), NEW g, g = Build(ns, es), Builds(ns, g),
           NEW id \in DOMAIN g.nodes, NEW into \in DOMAIN g.nodes, id # into,
           g.nodes[id].kind = g.nodes[into].kind
    PROVE  DanglingRelations(Build([ns EXCEPT ![id].same_as = into], es)) = {}
<1> DEFINE ns2 == [ns EXCEPT ![id].same_as = into]
           r == Retired(ns)
           r2 == Retired(ns2)
           left == DOMAIN g.nodes
           g2 == Build(ns2, es)
<1> SUFFICES DanglingRelations(g2) = {}
  OBVIOUS
<1>1. Log(ns, es) /\ Chained(ns) /\ DOMAIN ns \subseteq Ids
  BY LogIsChained DEF Log
<1>2. Builds(ns, g)
  OBVIOUS
<1>3. /\ g.retired = r /\ left = DOMAIN ns \ DOMAIN r /\ g.edges = KeptEdges(r, es)
      /\ \A x \in left : /\ g.nodes[x].while = Resolve(r, ns[x].while)
                         /\ g.nodes[x].owner = Resolve(r, ns[x].owner)
                        /\ g.nodes[x].kind = ns[x].kind
  BY <1>1, BuildIsOfWhatIsLeft
<1>4. \A x \in DOMAIN ns : ns[x].same_as # None => x \in DOMAIN r
  BY <1>2, <1>3 DEF Builds
<1>5. id \in DOMAIN ns /\ into \in DOMAIN ns /\ ns[id].same_as = None /\ ns[into].same_as = None
      /\ ns[id].kind = ns[into].kind
  BY <1>3, <1>4
<1>6. /\ DOMAIN ns2 = DOMAIN ns /\ ns2[id].same_as = into
      /\ \A x \in DOMAIN ns : x # id => ns2[x].same_as = ns[x].same_as
      /\ \A x \in DOMAIN ns : /\ ns2[x].kind = ns[x].kind /\ ns2[x].while = ns[x].while
                                /\ ns2[x].owner = ns[x].owner
  <2>1. {"same_as", "kind", "while", "owner"} \subseteq DOMAIN ns[id]
    BY <1>1, <1>5 DEF Log, IsFact, Node
  <2> QED BY <1>5, <2>1
<1>7. Log(ns2, es)
  <2>1. ASSUME NEW x \in DOMAIN ns2 PROVE IsFact(ns2[x])
    <3>1. IsFact(ns[x]) /\ x \in DOMAIN ns
      BY <1>1 DEF Log
    <3>2. CASE x = id
      <4>1. ns2[x] = [ns[x] EXCEPT !.same_as = into]
        BY <3>1, <3>2
      <4>2. {"same_as", "while", "owner", "k"} \subseteq DOMAIN ns[x] /\ DOMAIN ns[x] = DOMAIN Node("claim", "asserted")
        BY <3>1 DEF IsFact, Node
      <4>3. into \in Ids
        BY <1>1, <1>5
      <4> HIDE DEF ns2
      <4> QED BY <3>1, <4>1, <4>2, <4>3 DEF IsFact
    <3>3. CASE x # id
      BY <3>1, <3>3
    <3> QED BY <3>2, <3>3
  <2> HIDE DEF ns2
  <2> QED BY <1>1, <1>6, <2>1 DEF Log
<1> HIDE DEF ns2
<1>8. /\ DOMAIN r2 = DOMAIN r \cup {id}
      /\ \A x \in Ids \cup {None} : Resolve(r2, x) = Through(id, into, Resolve(r, x))
  <2>1. id # into
    OBVIOUS
  <2>2. FoldedInto(ns, ns2, id, into)
    BY <1>1, <1>4, <1>5, <1>6, <2>1 DEF FoldedInto
  <2>3. DOMAIN Retired(ns2) = DOMAIN Retired(ns) \cup {id}
    BY <2>2, FoldingOneMore
  <2>4. LeadsOn(Retired(ns), Retired(ns2), id, into)
    BY <2>2, FoldingOneMore
  <2> QED BY <2>3, <2>4 DEF LeadsOn
<1>9. /\ DOMAIN g2.nodes = left \ {id} /\ g2.edges = KeptEdges(r2, es)
      /\ \A x \in left \ {id} : /\ g2.nodes[x].while = Resolve(r2, ns[x].while)
                                /\ g2.nodes[x].owner = Resolve(r2, ns[x].owner)
  <2>1. /\ DOMAIN g2.nodes = DOMAIN ns2 \ DOMAIN r2 /\ g2.edges = KeptEdges(r2, es)
        /\ \A x \in DOMAIN g2.nodes : /\ g2.nodes[x].while = Resolve(r2, ns2[x].while)
                                      /\ g2.nodes[x].owner = Resolve(r2, ns2[x].owner)
    BY <1>7, BuildIsOfWhatIsLeft
  <2> HIDE DEF g2, r, r2
  <2> QED BY <1>3, <1>6, <1>8, <2>1
<1>10. /\ \A e \in g.edges : {e.src, e.dst, e.while} \subseteq left \cup {None}
       /\ \A x \in left : {g.nodes[x].while, g.nodes[x].owner} \subseteq left \cup {None}
  BY <1>2 DEF Builds, DanglingRelations
<1> HIDE DEF g2, r, r2, left
<1>11. \A x \in left \cup {None} : Through(id, into, x) \in (left \ {id}) \cup {None}
  BY DEF Through, left
<1>12. ASSUME NEW e \in g2.edges PROVE {e.src, e.dst, e.while} \subseteq DOMAIN g2.nodes \cup {None}
  <2>1. PICK m \in Nat : DOMAIN es = 1..m
    BY <1>1 DEF Log
  <2>2. PICK i \in DOMAIN es : e = RewrittenEdge(r2, es[i]) /\ (DOMAIN r2 # {} => e.src # e.dst)
    BY <1>9 DEF KeptEdges
  <2>3. e.src # e.dst
    BY <1>8, <2>2
  <2>4. es[i] \in Relations /\ \A j \in DOMAIN es : es[j] \in Relations
    BY <1>1 DEF Log
  <2> DEFINE f == RewrittenEdge(r, es[i])
  <2>5. /\ f.src = Resolve(r, es[i].src) /\ f.dst = Resolve(r, es[i].dst) /\ f.while = Resolve(r, es[i].while)
        /\ e.src = Resolve(r2, es[i].src) /\ e.dst = Resolve(r2, es[i].dst) /\ e.while = Resolve(r2, es[i].while)
    BY <2>2, <2>4 DEF RewrittenEdge, Relations
  <2>6. es[i].src \in Ids \cup {None} /\ es[i].dst \in Ids \cup {None} /\ es[i].while \in Ids \cup {None}
    BY <2>4 DEF Relations
  <2>7. /\ e.src = Through(id, into, f.src) /\ e.dst = Through(id, into, f.dst)
        /\ e.while = Through(id, into, f.while)
    BY <1>8, <2>5, <2>6
  <2>8. f.src # f.dst
    BY <2>3, <2>7
  <2>9. PICK k \in KeptEdges(r, es) : k.src = f.src /\ k.dst = f.dst /\ k.while = f.while
    BY <2>1, <2>4, <2>8, KeptForIt
  <2> HIDE DEF f
  <2>10. {f.src, f.dst, f.while} \subseteq left \cup {None}
    BY <1>3, <1>10, <2>9
  <2> QED BY <1>9, <1>11, <2>7, <2>10
<1>13. ASSUME NEW x \in DOMAIN g2.nodes
       PROVE  {g2.nodes[x].while, g2.nodes[x].owner} \subseteq DOMAIN g2.nodes \cup {None}
  <2>1. x \in left /\ x \in left \ {id}
    BY <1>9
  <2>2. /\ g2.nodes[x].while = Through(id, into, g.nodes[x].while)
        /\ g2.nodes[x].owner = Through(id, into, g.nodes[x].owner)
    <3>1. x \in DOMAIN ns
      BY <1>3, <2>1
    <3>2. ns[x].while \in Ids \cup {None} /\ ns[x].owner \in Ids \cup {None}
      BY <1>1, <3>1 DEF Log, IsFact
    <3> QED BY <1>3, <1>8, <1>9, <2>1, <3>2
  <2> QED BY <1>9, <1>10, <1>11, <2>1, <2>2
<1> QED BY <1>12, <1>13 DEF DanglingRelations

\* Deleting a fact would break whatever cited it; folding any fact into another of
\* its kind breaks nothing: every relation, branch and owner still names something
\* there is (merge; retire, in write.go).
THEOREM FoldingBreaksNothing == Spec => []FoldingKeepsRelations
<1>1. ASSUME IInv PROVE FoldingKeepsRelations
  <2> DEFINE es == Stated(draft, stated)
  <2>1. Log(nodes, es) /\ graph = Build(nodes, es) /\ Builds(nodes, graph)
    BY <1>1, LogOfTheGraph DEF IInv, GraphInv
  <2> SUFFICES ASSUME NEW id \in DOMAIN graph.nodes, NEW into \in DOMAIN graph.nodes, id # into,
                      graph.nodes[id].kind = graph.nodes[into].kind
               PROVE  DanglingRelations(Build([nodes EXCEPT ![id].same_as = into], es)) = {}
    BY DEF FoldingKeepsRelations
  <2> HIDE DEF es
  <2> QED BY <2>1, FoldingLeavesNothingDangling
<1> QED BY <1>1, Invariance, PTL

-----------------------------------------------------------------------------
(* Tension. *)

\* Two supported claims that contradict each other at a time of both are both
\* reported, or one of them where it is undercut; this is so of any graph
\* (conflict).
THEOREM NeitherSideIsQuiet == Spec => []ContradictionIsMutual
<1>1. ASSUME NEW at \in Dates, NEW e \in graph.incident, e.type = "contradicts",
             EdgeLive(graph, e, at), e.src # e.dst,
             SupportedClaim(graph, e.src, at), SupportedClaim(graph, e.dst, at),
             WindowsOverlap(graph.nodes[e.src], graph.nodes[e.dst])
      PROVE  /\ Tension(graph, e.dst, at) # "none"
             /\ ~ e.one_way => Tension(graph, e.src, at) # "none"
  <2>1. e.src \in Opponents(graph, e.dst, at)
    BY <1>1 DEF Opponents, Other, Contests, WindowsOverlap
  <2>2. ~ e.one_way => e.dst \in Opponents(graph, e.src, at)
    BY <1>1 DEF Opponents, Other, Contests
  <2>3. ASSUME NEW id, SupportedClaim(graph, id, at), Opponents(graph, id, at) # {}
        PROVE  Tension(graph, id, at) # "none"
    BY <2>3 DEF Tension, Conflict, SupportedClaim
  <2> QED BY <1>1, <2>1, <2>2, <2>3
<1>2. ContradictionIsMutual
  BY <1>1 DEF ContradictionIsMutual
<1> QED BY <1>2, PTL

-----------------------------------------------------------------------------
(* A graph that is whole. *)

\* Nothing that is looked at names what is not there.
Whole(g) ==
    /\ DOMAIN g.nodes \subseteq Ids
    /\ \A id \in DOMAIN g.nodes : g.nodes[id].while \in DOMAIN g.nodes \cup {None}
    /\ \A e \in g.incident : /\ e.src \in DOMAIN g.nodes /\ e.dst \in DOMAIN g.nodes
                             /\ e.while \in DOMAIN g.nodes \cup {None}

LEMMA GraphIsWhole == ASSUME IInv PROVE Whole(graph)
<1> DEFINE es == Stated(draft, stated)
<1>1. Log(nodes, es) /\ graph = Build(nodes, es) /\ Builds(nodes, graph)
  BY LogOfTheGraph DEF IInv, GraphInv
<1> HIDE DEF es
<1>2. /\ DOMAIN graph.nodes \subseteq DOMAIN nodes
      /\ graph.incident = {e \in graph.edges : e.src \in DOMAIN graph.nodes /\ e.dst \in DOMAIN graph.nodes}
  BY <1>1, BuildIsOfWhatIsLeft
<1>3. DanglingRelations(graph) = {} /\ DOMAIN nodes \subseteq Ids
  BY <1>1 DEF Builds, Log
<1>4. /\ \A e \in graph.edges : e.while \in DOMAIN graph.nodes \cup {None}
      /\ \A x \in DOMAIN graph.nodes : graph.nodes[x].while \in DOMAIN graph.nodes \cup {None}
  BY <1>3 DEF DanglingRelations
<1> QED BY <1>2, <1>3, <1>4 DEF Whole

\* Closing's equation holds everywhere.
LEMMA ClosingUnfolds ==
    ASSUME NEW g, Whole(g), NEW found \in SUBSET Ids
    PROVE  LET more == found \cup (UNION {Depends(g, x) : x \in found})
           IN  more \in SUBSET Ids /\ Closing(g)[found] = IF more = found THEN found ELSE Closing(g)[more]
<1> DEFINE D == SUBSET Ids
           More(s) == s \cup (UNION {Depends(g, x) : x \in s})
           Body(f, s) == IF More(s) = s THEN s ELSE f[More(s)]
           rank == [s \in D |-> Cardinality(Ids \ s)]
           F == [s \in D |-> [f \in [D -> D] |-> Body(f, s)]]
           top == Cardinality(Ids) + 1
<1>0. \A s \in D : More(s) \in D /\ s \subseteq More(s)
  <2>1. \A x : Depends(g, x) \subseteq Ids
    BY DEF Depends, Whole
  <2> QED BY <2>1
<1> HIDE DEF More
<1>1. rank \in [D -> Nat] /\ top \in Nat /\ \A s \in D : rank[s] < top
  <2>1. /\ Cardinality(Ids) \in Nat
        /\ \A s \in D : Cardinality(Ids \ s) \in Nat /\ Cardinality(Ids \ s) <= Cardinality(Ids)
    BY Room
  <2> HIDE DEF D
  <2> QED BY <2>1
<1>2. ASSUME NEW s \in D, NEW f \in [D -> D] PROVE F[s][f] = Body(f, s) /\ Body(f, s) \in D
  <2>1. Body(f, s) \in D
    BY <1>0
  <2> HIDE DEF Body
  <2> QED BY <2>1
<1>3. ASSUME NEW s \in D, NEW f \in [D -> D], NEW h \in [D -> D],
             \A t \in D : rank[t] < rank[s] => f[t] = h[t]
      PROVE  F[s][f] = F[s][h]
  <2>1. CASE More(s) = s
    BY <1>2, <2>1
  <2>2. CASE More(s) # s
    <3>1. Cardinality(Ids \ More(s)) < Cardinality(Ids \ s)
      BY <1>0, <2>2, Room
    <3>2. f[More(s)] = h[More(s)]
      BY <1>0, <1>3, <3>1
    <3> QED BY <1>2, <2>2, <3>2
  <2> QED BY <2>1, <2>2
<1> HIDE DEF rank, top
<1>4. PICK f \in [D -> D] : \A s \in D : f[s] = F[s][f]
  <2>1. {} \in D /\ top \in Nat
    BY <1>1
  <2>2. \A s \in D : \A f \in [D -> D] : F[s][f] \in D
    BY <1>2
  <2>3. \A s \in D : \A f, h \in [D -> D] :
           (\A t \in D : rank[t] < rank[s] => f[t] = h[t]) => F[s][f] = F[s][h]
    <3> HIDE DEF D, F
    <3> QED BY <1>3
  <2> HIDE DEF D, F
  <2>4. Recursive(D, D, rank, top, F)
    BY <1>1, <2>2, <2>3 DEF Recursive
  <2> QED BY <2>1, <2>4, Recursion
<1> DEFINE Is(h) == h = [s \in D |-> Body(h, s)]
           close == CHOOSE h : Is(h)
<1>5. Is(f)
  <2>1. \A s \in D : f[s] = Body(f, s)
    BY <1>2, <1>4
  <2> HIDE DEF Body, D
  <2> QED BY <2>1
<1>6. Is(close)
  <2> HIDE DEF Is
  <2> QED BY <1>5
<1>7. Closing(g) = close
  BY DEF Closing, More
<1> HIDE DEF close
<1>8. close[found] = Body(close, found)
  <2> HIDE DEF Body
  <2> QED BY <1>6
<1> QED BY <1>0, <1>7, <1>8 DEF More

\* Whatever an id in it depends on is in it.
LEMMA ClosingIsClosed ==
    ASSUME NEW g, Whole(g), NEW found \in SUBSET Ids
    PROVE  /\ found \subseteq Closing(g)[found]
           /\ \A x \in Closing(g)[found] : Depends(g, x) \subseteq Closing(g)[found]
<1> DEFINE Closed(s) == /\ s \subseteq Closing(g)[s]
                        /\ \A x \in Closing(g)[s] : Depends(g, x) \subseteq Closing(g)[s]
           More(s) == s \cup (UNION {Depends(g, x) : x \in s})
           S == {n \in Nat : \A s \in SUBSET Ids : Cardinality(Ids \ s) < n => Closed(s)}
<1>1. 0 \in S
  <2>1. \A s \in SUBSET Ids : Cardinality(Ids \ s) \in Nat
    BY Room
  <2>2. \A s \in SUBSET Ids : ~ (Cardinality(Ids \ s) < 0)
    BY <2>1
  <2> HIDE DEF Closed
  <2> QED BY <2>2
<1>2. ASSUME NEW n \in S PROVE n + 1 \in S
  <2> SUFFICES ASSUME NEW s \in SUBSET Ids, Cardinality(Ids \ s) < n + 1
               PROVE  Closed(s)
    <3> HIDE DEF Closed
    <3> QED OBVIOUS
  <2>1. More(s) \in SUBSET Ids /\ Closing(g)[s] = IF More(s) = s THEN s ELSE Closing(g)[More(s)]
    BY ClosingUnfolds
  <2>2. CASE More(s) = s
    <3>1. Closing(g)[s] = s
      BY <2>1, <2>2
    <3>2. \A x \in s : Depends(g, x) \subseteq s
      BY <2>2
    <3> QED BY <3>1, <3>2
  <2>3. CASE More(s) # s
    <3>1. s \subseteq More(s)
      OBVIOUS
    <3>2. Cardinality(Ids \ More(s)) < n
      <4>1. /\ Cardinality(Ids \ More(s)) \in Nat /\ Cardinality(Ids \ s) \in Nat /\ n \in Nat
            /\ Cardinality(Ids \ More(s)) < Cardinality(Ids \ s)
        <5> HIDE DEF More, Closed
        <5> QED BY <2>1, <2>3, <3>1, Room
      <4> HIDE DEF More
      <4> QED BY <4>1
    <3>3. Closed(More(s))
      <4> HIDE DEF Closed, More
      <4> QED BY <2>1, <3>2
    <3>4. Closing(g)[s] = Closing(g)[More(s)]
      BY <2>1, <2>3
    <3> HIDE DEF More
    <3> QED BY <3>1, <3>3, <3>4
  <2> QED BY <2>2, <2>3
<1>3. S = Nat
  <2>1. S \in SUBSET Nat
    OBVIOUS
  <2> HIDE DEF S
  <2> QED BY <1>1, <1>2, <2>1, Induction
<1>4. Closed(found)
  <2>1. Cardinality(Ids \ found) \in Nat
    BY Room
  <2>2. Cardinality(Ids \ found) + 1 \in S
    <3> HIDE DEF S
    <3> QED BY <1>3, <2>1
  <2>3. Cardinality(Ids \ found) < Cardinality(Ids \ found) + 1
    BY <2>1
  <2> HIDE DEF Closed
  <2> QED BY <2>2, <2>3
<1> QED BY <1>4

LEMMA BasisIsClosed ==
    ASSUME NEW g, Whole(g), NEW id
    PROVE  /\ Depends(g, id) \subseteq Basis(g, id)
           /\ \A x \in Basis(g, id) : Depends(g, x) \subseteq Basis(g, id)
<1>1. Depends(g, id) \in SUBSET Ids
  BY DEF Depends, Whole
<1> QED BY <1>1, ClosingIsClosed DEF Basis

-----------------------------------------------------------------------------
(* The evaluator. *)

Calls == Ids \X (SUBSET Ids) \X (SUBSET Ids)

\* The calls a call makes: of a branch or a member, from inside of it; and of a
\* condition, from nowhere.
AgreeOnCalls(f, h, id, seen, asked) ==
    /\ \A x \in Ids : id \notin seen => f[<<x, seen \cup {id}, asked>>] = h[<<x, seen \cup {id}, asked>>]
    /\ \A x \in Ids \ asked : f[<<x, {}, asked \cup {x}>>] = h[<<x, {}, asked \cup {x}>>]

LEMMA AnswerDependsOnItsCalls ==
    ASSUME NEW g, Whole(g), NEW at, NEW id \in Ids, NEW seen \in SUBSET Ids, NEW asked \in SUBSET Ids,
           NEW f, NEW h, AgreeOnCalls(f, h, id, seen, asked)
    PROVE  /\ f \in [Calls -> Outcomes] => AnswerOf(g, at, f, id, seen, asked) \in Outcomes
           /\ AnswerOf(g, at, f, id, seen, asked) = AnswerOf(g, at, h, id, seen, asked)
<1>1. CASE id \notin DOMAIN g.nodes \/ id \in seen \/ ~ InWindow(g.nodes[id], at)
  BY <1>1 DEF AnswerOf, Outcomes
<1>2. CASE ~ (id \notin DOMAIN g.nodes \/ id \in seen \/ ~ InWindow(g.nodes[id], at))
  <2> DEFINE inside == seen \cup {id}
             branch(of) == IF g.nodes[id].while = None THEN "holds"
                           ELSE AskWithin(of, g.nodes[id].while, inside, asked)
             own(of) == OwnAnswer(g, at, of, id, inside, asked)
  <2>0. inside \in SUBSET Ids
    OBVIOUS
  <2>1. \A x \in Ids : AskWithin(f, x, inside, asked) = AskWithin(h, x, inside, asked)
    BY <1>2 DEF AgreeOnCalls, AskWithin
  <2>2. f \in [Calls -> Outcomes] => \A x \in Ids : AskWithin(f, x, inside, asked) \in Outcomes
    <3> SUFFICES ASSUME f \in [Calls -> Outcomes], NEW x \in Ids PROVE f[<<x, inside, asked>>] \in Outcomes
      BY DEF AskWithin
    <3> HIDE DEF inside
    <3>1. <<x, inside, asked>> \in Calls
      BY <2>0 DEF Calls
    <3> QED BY <3>1
  <2>3. branch(f) = branch(h) /\ (f \in [Calls -> Outcomes] => branch(f) \in Outcomes)
    BY <1>2, <2>1, <2>2 DEF Whole, Outcomes
  <2>4. own(f) = own(h) /\ own(f) \in Outcomes
    <3> DEFINE listed == StatedMembers(g, id, at)
               condition(of) == [e \in listed |-> Condition(of, e, inside, asked, at)]
               members(of) == {e \in listed : condition(of)[e] = "holds"}
               member(of) == [e \in members(of) |-> AskWithin(of, e.src, inside, asked)]
    <3>1. ASSUME NEW e \in listed PROVE Condition(f, e, inside, asked, at) = Condition(h, e, inside, asked, at)
      <4>1. e.while \in Ids \cup {None}
        BY DEF StatedMembers, Whole
      <4> QED BY <4>1 DEF Condition, AskAfresh, AgreeOnCalls
    <3>2. ASSUME NEW e \in listed PROVE AskWithin(f, e.src, inside, asked) = AskWithin(h, e.src, inside, asked)
      <4>1. e.src \in Ids
        BY DEF StatedMembers, Whole
      <4> QED BY <2>1, <4>1
    <3> HIDE DEF listed
    <3>3. condition(f) = condition(h)
      BY <3>1
    <3>4. members(f) = members(h)
      <4> HIDE DEF condition
      <4> QED BY <3>3
    <3>5. members(f) \subseteq listed
      OBVIOUS
    <3>6. member(f) = member(h)
      <4> HIDE DEF members
      <4> QED BY <3>2, <3>4, <3>5
    <3> DEFINE group(of) == GroupAnswer(g, at, of, id, inside, asked)
    <3>7. group(f) = group(h)
      <4> DEFINE met(of) == {e \in members(of) : member(of)[e] = "holds"}
                 answer(of) == IF \/ \E e \in listed : condition(of)[e] = "diverges"
                                  \/ \E e \in members(of) : member(of)[e] = "diverges"
                               THEN "diverges"
                               ELSE IF GroupOK(g.nodes[id], Cardinality(members(of)), Cardinality(met(of)))
                                    THEN "holds" ELSE "fails"
      <4>1. group(f) = answer(f) /\ group(h) = answer(h)
        BY DEF GroupAnswer, listed
      <4> HIDE DEF condition, members, member, group
      <4>2. met(f) = met(h)
        BY <3>4, <3>6
      <4> HIDE DEF met
      <4>3. answer(f) = answer(h)
        BY <3>3, <3>4, <3>6, <4>2
      <4> QED BY <4>1, <4>3
    <3>8. group(f) \in Outcomes
      BY DEF GroupAnswer, Outcomes
    <3> HIDE DEF group
    <3>9. \A of : own(of) = IF g.nodes[id].kind = "group" THEN group(of)
                            ELSE IF g.nodes[id].status \in {"asserted", "done", "resolved"} THEN "holds" ELSE "fails"
      BY DEF OwnAnswer, group
    <3> HIDE DEF own
    <3> QED BY <3>7, <3>8, <3>9 DEF Outcomes
  <2>5. \A of : AnswerOf(g, at, of, id, seen, asked) = IF branch(of) # "holds" THEN branch(of) ELSE own(of)
    BY <1>2 DEF AnswerOf
  <2> HIDE DEF branch, own
  <2> QED BY <2>3, <2>4, <2>5
<1> QED BY <1>1, <1>2

\* How much a call may still do: the questions that may be asked afresh, and, of
\* the one that is being asked, the nodes it is not yet inside of.
Depth(seen, asked) ==
    Cardinality(Ids \ asked) * (Cardinality(Ids) + 1) + Cardinality(Ids \ seen)

LEMMA CallsGoDown ==
    ASSUME NEW seen \in SUBSET Ids, NEW asked \in SUBSET Ids
    PROVE  /\ Depth(seen, asked) \in Nat
           /\ \A id \in Ids \ seen : Depth(seen \cup {id}, asked) < Depth(seen, asked)
           /\ \A x \in Ids \ asked : Depth({}, asked \cup {x}) < Depth(seen, asked)
<1> DEFINE N == Cardinality(Ids)
<1>1. /\ N \in Nat
      /\ \A s \in SUBSET Ids : Cardinality(Ids \ s) \in Nat /\ Cardinality(Ids \ s) <= N
      /\ \A s \in SUBSET Ids : \A x \in Ids \ s : Cardinality(Ids \ (s \cup {x})) < Cardinality(Ids \ s)
  <2>1. /\ N \in Nat
        /\ \A s \in SUBSET Ids : Cardinality(Ids \ s) \in Nat /\ Cardinality(Ids \ s) <= N
    BY Room
  <2>2. ASSUME NEW s \in SUBSET Ids, NEW x \in Ids \ s
        PROVE  Cardinality(Ids \ (s \cup {x})) < Cardinality(Ids \ s)
    <3> DEFINE more == s \cup {x}
    <3>1. more \in SUBSET Ids /\ s \subseteq more /\ more # s
      OBVIOUS
    <3> HIDE DEF more
    <3>2. Cardinality(Ids \ more) < Cardinality(Ids \ s)
      BY <3>1, Room
    <3> QED BY <3>2 DEF more
  <2> QED BY <2>1, <2>2
<1>2. \A a, b, c, d, n \in Nat : b < a /\ d <= n => b * (n + 1) + d < a * (n + 1) + c
  <2> TAKE a, b, c, d, n \in Nat
  <2> HAVE b < a /\ d <= n
  <2>1. (b + 1) * (n + 1) <= a * (n + 1)
    <3>1. b + 1 <= a
      OBVIOUS
    <3>2. \A u, v, w \in Nat : u <= v => u * w <= v * w
      OBVIOUS
    <3> QED BY <3>1, <3>2
  <2>2. (b + 1) * (n + 1) = b * (n + 1) + (n + 1)
    OBVIOUS
  <2>3. b * (n + 1) \in Nat /\ a * (n + 1) \in Nat
    OBVIOUS
  <2> DEFINE p == b * (n + 1)
             q == a * (n + 1)
  <2>4. p \in Nat /\ q \in Nat /\ p + (n + 1) <= q
    BY <2>1, <2>2, <2>3
  <2> HIDE DEF p, q
  <2>5. p + d < q + c
    BY <2>4
  <2> QED BY <2>5 DEF p, q
<1> DEFINE left(s) == Cardinality(Ids \ s)
<1>3. \A s \in SUBSET Ids : left(s) \in Nat /\ left(s) <= N
  BY <1>1
<1>4. \A s \in SUBSET Ids : \A x \in Ids \ s : left(s \cup {x}) < left(s) /\ left(s \cup {x}) \in Nat
  <2> TAKE s \in SUBSET Ids
  <2> TAKE x \in Ids \ s
  <2>1. s \cup {x} \in SUBSET Ids
    OBVIOUS
  <2> QED BY <1>1, <2>1
<1>5. \A s, a : Depth(s, a) = left(a) * (N + 1) + left(s)
  BY DEF Depth
<1> HIDE DEF N, left
<1>6. {} \in SUBSET Ids /\ N \in Nat
  BY <1>1
<1>7. \A x, y \in Nat : x * (N + 1) + y \in Nat
  BY <1>6
<1>8. Depth(seen, asked) \in Nat
  BY <1>3, <1>5, <1>7
<1>9. ASSUME NEW id \in Ids \ seen PROVE Depth(seen \cup {id}, asked) < Depth(seen, asked)
  <2>1. left(asked) * (N + 1) \in Nat
    BY <1>3, <1>6
  <2>2. left(seen \cup {id}) < left(seen) /\ left(seen \cup {id}) \in Nat /\ left(seen) \in Nat
    BY <1>3, <1>4
  <2>3. \A a, b, c \in Nat : b < c => a + b < a + c
    OBVIOUS
  <2> QED BY <1>5, <2>1, <2>2, <2>3
<1>10. ASSUME NEW x \in Ids \ asked PROVE Depth({}, asked \cup {x}) < Depth(seen, asked)
  <2>1. left(asked \cup {x}) < left(asked) /\ left(asked \cup {x}) \in Nat /\ left(asked) \in Nat
    BY <1>3, <1>4
  <2>2. left({}) \in Nat /\ left({}) <= N /\ left(seen) \in Nat
    BY <1>3, <1>6
  <2> QED BY <1>2, <1>5, <1>6, <2>1, <2>2
<1> QED BY <1>8, <1>9, <1>10

\* The evaluator's equation holds of every call.
LEMMA OutcomeUnfolds ==
    ASSUME NEW g, Whole(g), NEW at
    PROVE  /\ Outcome(g, at) \in [Calls -> Outcomes]
           /\ \A id \in Ids, seen \in SUBSET Ids, asked \in SUBSET Ids :
                 Outcome(g, at)[<<id, seen, asked>>] = AnswerOf(g, at, Outcome(g, at), id, seen, asked)
<1> DEFINE D == Calls
           V == Outcomes
           Body(f, c) == AnswerOf(g, at, f, c[1], c[2], c[3])
           rank == [c \in D |-> Depth(c[2], c[3])]
           F == [c \in D |-> [f \in [D -> V] |-> Body(f, c)]]
           top == Depth({}, {}) + 1
<1>0. \A c \in D : c[1] \in Ids /\ c[2] \in SUBSET Ids /\ c[3] \in SUBSET Ids
  BY DEF Calls
<1>1. rank \in [D -> Nat] /\ top \in Nat /\ \A c \in D : rank[c] < top
  <2>1. \A s, a \in SUBSET Ids : Depth(s, a) \in Nat
    BY CallsGoDown
  <2>2. \A s, a \in SUBSET Ids : Depth(s, a) <= Depth({}, {})
    <3> TAKE s, a \in SUBSET Ids
    <3> DEFINE left(x) == Cardinality(Ids \ x)
    <3>1. /\ Cardinality(Ids) \in Nat
          /\ left(s) \in Nat /\ left(a) \in Nat /\ left(s) <= Cardinality(Ids) /\ left(a) <= Cardinality(Ids)
      BY Room
    <3>2. Ids \ {} = Ids
      OBVIOUS
    <3>3. Depth({}, {}) = Cardinality(Ids) * (Cardinality(Ids) + 1) + Cardinality(Ids)
      BY <3>2 DEF Depth
    <3>4. Depth(s, a) = left(a) * (Cardinality(Ids) + 1) + left(s)
      BY DEF Depth
    <3> HIDE DEF left
    <3>5. \A x, y, z, n \in Nat : x <= n /\ y <= n => x * (n + 1) + y <= n * (n + 1) + n
      <4>1. \A u, v, w \in Nat : u <= v => u * w <= v * w
        OBVIOUS
      <4> TAKE x, y, z, n \in Nat
      <4>2. x <= n => x * (n + 1) <= n * (n + 1)
        BY <4>1
      <4>3. x * (n + 1) \in Nat /\ n * (n + 1) \in Nat
        OBVIOUS
      <4> DEFINE p == x * (n + 1)
                 q == n * (n + 1)
      <4> HIDE DEF p, q
      <4>4. p \in Nat /\ q \in Nat /\ (x <= n => p <= q)
        BY <4>2, <4>3 DEF p, q
      <4>5. x <= n /\ y <= n => p + y <= q + n
        BY <4>4
      <4> QED BY <4>5 DEF p, q
    <3> QED BY <3>1, <3>3, <3>4, <3>5
  <2>3. Depth({}, {}) \in Nat
    BY <2>1
  <2> HIDE DEF D
  <2> QED BY <1>0, <2>1, <2>2, <2>3
<1>2. ASSUME NEW c \in D, NEW f \in [D -> V] PROVE F[c][f] = Body(f, c) /\ Body(f, c) \in V
  <2>1. Body(f, c) \in V
    <3>1. AgreeOnCalls(f, f, c[1], c[2], c[3])
      BY DEF AgreeOnCalls
    <3> QED BY <1>0, <3>1, AnswerDependsOnItsCalls
  <2> HIDE DEF Body
  <2> QED BY <2>1
<1>3. ASSUME NEW c \in D, NEW f, NEW h, \A y \in D : rank[y] < rank[c] => f[y] = h[y]
      PROVE  Body(f, c) = Body(h, c)
  <2> DEFINE id == c[1]
             seen == c[2]
             asked == c[3]
  <2>1. id \in Ids /\ seen \in SUBSET Ids /\ asked \in SUBSET Ids
    BY <1>0
  <2>2. \A x \in Ids, s \in SUBSET Ids, a \in SUBSET Ids :
           <<x, s, a>> \in D /\ rank[<<x, s, a>>] = Depth(s, a)
    BY DEF Calls
  <2>3. rank[c] = Depth(seen, asked)
    OBVIOUS
  <2> HIDE DEF id, seen, asked, rank, F, D, V
  <2>4. AgreeOnCalls(f, h, id, seen, asked)
    <3>1. ASSUME NEW x \in Ids, id \notin seen
          PROVE  f[<<x, seen \cup {id}, asked>>] = h[<<x, seen \cup {id}, asked>>]
      <4> DEFINE s == seen \cup {id}
      <4>1. s \in SUBSET Ids /\ Depth(s, asked) < Depth(seen, asked)
        BY <2>1, <3>1, CallsGoDown
      <4> HIDE DEF s
      <4> QED BY <1>3, <2>1, <2>2, <2>3, <4>1 DEF s
    <3>2. ASSUME NEW x \in Ids \ asked PROVE f[<<x, {}, asked \cup {x}>>] = h[<<x, {}, asked \cup {x}>>]
      <4> DEFINE a == asked \cup {x}
      <4>1. a \in SUBSET Ids /\ Depth({}, a) < Depth(seen, asked) /\ {} \in SUBSET Ids
        BY <2>1, CallsGoDown
      <4> HIDE DEF a
      <4> QED BY <1>3, <2>2, <2>3, <4>1 DEF a
    <3> QED BY <3>1, <3>2 DEF AgreeOnCalls
  <2>5. AnswerOf(g, at, f, id, seen, asked) = AnswerOf(g, at, h, id, seen, asked)
    BY <2>1, <2>4, AnswerDependsOnItsCalls
  <2> QED BY <2>5 DEF id, seen, asked
<1> HIDE DEF rank, top
<1>4. PICK f \in [D -> V] : \A c \in D : f[c] = F[c][f]
  <2>1. "fails" \in V /\ top \in Nat
    BY <1>1 DEF Outcomes
  <2>2. \A c \in D : \A f \in [D -> V] : F[c][f] \in V
    BY <1>2
  <2>3. \A c \in D : \A f, h \in [D -> V] :
           (\A y \in D : rank[y] < rank[c] => f[y] = h[y]) => F[c][f] = F[c][h]
    <3> HIDE DEF D, V, F, Body
    <3> QED BY <1>2, <1>3
  <2> HIDE DEF D, V, F
  <2>4. Recursive(D, V, rank, top, F)
    BY <1>1, <2>2, <2>3 DEF Recursive
  <2> QED BY <2>1, <2>4, Recursion
<1> DEFINE Is(h) == h = [c \in D |-> Body(h, c)]
           of == CHOOSE h : Is(h)
<1>5. Is(f)
  <2>1. \A c \in D : f[c] = Body(f, c)
    BY <1>2, <1>4
  <2> HIDE DEF Body, D
  <2> QED BY <2>1
<1>6. Is(of)
  <2> HIDE DEF Is
  <2> QED BY <1>5
<1>7. Outcome(g, at) = of
  BY DEF Outcome, Calls
<1> HIDE DEF of
<1>8. \A c \in D : of[c] = Body(of, c)
  <2> HIDE DEF Body, D
  <2> QED BY <1>6
<1>9. \A c \in D : f[c] = Body(f, c)
  BY <1>2, <1>4
<1> HIDE DEF Body, D, V, F
<1> DEFINE S == {n \in Nat : \A c \in D : rank[c] < n => of[c] = f[c]}
<1>10. 0 \in S
  BY <1>1
<1>11. ASSUME NEW n \in S PROVE n + 1 \in S
  <2> SUFFICES ASSUME NEW c \in D, rank[c] < n + 1 PROVE of[c] = f[c]
    OBVIOUS
  <2>1. ASSUME NEW y \in D, rank[y] < rank[c] PROVE of[y] = f[y]
    <3>1. rank[y] \in Nat /\ rank[c] \in Nat /\ n \in Nat
      BY <1>1
    <3>2. rank[y] < n
      BY <2>1, <3>1
    <3> QED BY <3>2
  <2>2. Body(of, c) = Body(f, c)
    <3> HIDE DEF S
    <3> QED BY <1>3, <2>1
  <2> QED BY <1>8, <1>9, <2>2
<1>12. S = Nat
  <2>1. S \in SUBSET Nat
    OBVIOUS
  <2> HIDE DEF S
  <2> QED BY <1>10, <1>11, <2>1, Induction
<1>13. \A c \in D : of[c] = f[c]
  BY <1>1, <1>12
<1>14. of = [c \in D |-> Body(of, c)]
  BY <1>6 DEF D, Body
<1>15. of \in [D -> V]
  <2>1. \A c \in D : of[c] \in V
    BY <1>4, <1>13
  <2> QED BY <1>14, <2>1
<1>16. \A id \in Ids, seen \in SUBSET Ids, asked \in SUBSET Ids :
           of[<<id, seen, asked>>] = AnswerOf(g, at, of, id, seen, asked)
  <2> TAKE id \in Ids, seen \in SUBSET Ids, asked \in SUBSET Ids
  <2> DEFINE c == <<id, seen, asked>>
  <2>1. c \in D /\ c[1] = id /\ c[2] = seen /\ c[3] = asked
    BY DEF D, Calls
  <2> HIDE DEF c
  <2>2. of[c] = AnswerOf(g, at, of, c[1], c[2], c[3])
    BY <1>8, <2>1 DEF Body
  <2> QED BY <2>1, <2>2 DEF c
<1> QED BY <1>7, <1>15, <1>16 DEF D, V

\* A call of an evaluation is about what the questions asked further out depend
\* on; where there is no condition to ask about it does not matter.
Under(g, id, asked) == Conditional(g) = {} \/ \A a \in asked : id \in {a} \cup Basis(g, a)

LEMMA CallsAreUnder ==
    ASSUME NEW g, Whole(g), NEW id \in DOMAIN g.nodes, NEW asked \in SUBSET Ids, Under(g, id, asked),
           NEW x \in Depends(g, id)
    PROVE  Under(g, x, asked) /\ Under(g, x, asked \cup {x})
BY BasisIsClosed DEF Under

\* Where no membership is conditional on what it bears on, no call diverges.
LEMMA UnconditionalCallsReturn ==
    ASSUME NEW g, Whole(g), NEW at, \A e \in Conditional(g) : e.dst \notin {e.while} \cup Basis(g, e.while),
           NEW id \in Ids, NEW within \in SUBSET Ids, NEW about \in SUBSET Ids, Under(g, id, about)
    PROVE  Outcome(g, at)[<<id, within, about>>] # "diverges"
<1> DEFINE of == Outcome(g, at)
           Returns(x, seen, asked) == Under(g, x, asked) => of[<<x, seen, asked>>] # "diverges"
           S == {n \in Nat : \A x \in Ids, seen \in SUBSET Ids, asked \in SUBSET Ids :
                    Depth(seen, asked) < n => Returns(x, seen, asked)}
<1>1. /\ of \in [Calls -> Outcomes]
      /\ \A x \in Ids, seen \in SUBSET Ids, asked \in SUBSET Ids :
            of[<<x, seen, asked>>] = AnswerOf(g, at, of, x, seen, asked)
  BY OutcomeUnfolds
<1> HIDE DEF of
<1>2. 0 \in S
  <2>1. \A seen, asked \in SUBSET Ids : ~ (Depth(seen, asked) < 0)
    <3> TAKE seen, asked \in SUBSET Ids
    <3>1. Depth(seen, asked) \in Nat
      BY CallsGoDown
    <3> QED BY <3>1
  <2> HIDE DEF Returns
  <2> QED BY <2>1
<1>3. ASSUME NEW n \in S PROVE n + 1 \in S
  <2> SUFFICES ASSUME NEW x \in Ids, NEW seen \in SUBSET Ids, NEW asked \in SUBSET Ids,
                      Depth(seen, asked) < n + 1
               PROVE  Returns(x, seen, asked)
    <3> HIDE DEF Returns
    <3> QED OBVIOUS
  <2>0. n \in Nat /\ Depth(seen, asked) \in Nat
    BY CallsGoDown
  <2>1. ASSUME NEW y \in Ids, NEW s \in SUBSET Ids, NEW a \in SUBSET Ids, Depth(s, a) < Depth(seen, asked),
               Under(g, y, a)
        PROVE  of[<<y, s, a>>] # "diverges"
    <3>1. Depth(s, a) \in Nat
      BY CallsGoDown
    <3>2. Depth(s, a) < n
      BY <2>0, <2>1, <3>1
    <3>3. Returns(y, s, a)
      <4> HIDE DEF Returns
      <4> QED BY <3>2
    <3> QED BY <2>1, <3>3
  <2> HIDE DEF S
  <2> SUFFICES ASSUME Under(g, x, asked) PROVE AnswerOf(g, at, of, x, seen, asked) # "diverges"
    BY <1>1
  <2>2. CASE x \notin DOMAIN g.nodes \/ x \in seen \/ ~ InWindow(g.nodes[x], at)
    BY <2>2 DEF AnswerOf
  <2>3. CASE ~ (x \notin DOMAIN g.nodes \/ x \in seen \/ ~ InWindow(g.nodes[x], at))
    <3> DEFINE inside == seen \cup {x}
    <3>1. inside \in SUBSET Ids /\ Depth(inside, asked) < Depth(seen, asked)
      BY <2>3, CallsGoDown
    <3> HIDE DEF inside
    <3>2. ASSUME NEW y \in Depends(g, x) PROVE AskWithin(of, y, inside, asked) # "diverges"
      <4>1. y \in Ids /\ Under(g, y, asked)
        BY <2>3, CallsAreUnder DEF Depends, Whole
      <4> QED BY <2>1, <3>1, <4>1 DEF AskWithin
    <3>3. g.nodes[x].while # None => g.nodes[x].while \in Depends(g, x)
      BY <2>3 DEF Depends, Whole
    <3>4. OwnAnswer(g, at, of, x, inside, asked) # "diverges"
      <4>1. CASE g.nodes[x].kind = "group"
        <5> DEFINE listed == StatedMembers(g, x, at)
        <5>1. ASSUME NEW e \in listed PROVE e.src \in Depends(g, x) /\ (e.while # None => e.while \in Depends(g, x))
          <6>1. /\ e \in g.incident /\ e.type = "member_of" /\ e.dst = x
                /\ e.src \in DOMAIN g.nodes /\ (e.while # None => e.while \in DOMAIN g.nodes)
            BY DEF StatedMembers, Whole
          <6> HIDE DEF listed
          <6> QED BY <4>1, <6>1 DEF Depends
        <5>2. ASSUME NEW e \in listed PROVE Condition(of, e, inside, asked, at) # "diverges"
          <6>1. CASE e.while = None \/ at = NoDate
            BY <6>1 DEF Condition
          <6>2. CASE e.while # None /\ at # NoDate
            <7> DEFINE y == e.while
            <7>1. y \in Depends(g, x) /\ y \in Ids /\ e \in Conditional(g) /\ e.dst = x
              BY <5>1, <6>2 DEF Conditional, StatedMembers, Whole, Depends
            <7>2. y \notin asked
              BY <7>1 DEF Under
            <7>3. {} \in SUBSET Ids /\ asked \cup {y} \in SUBSET Ids /\ Depth({}, asked \cup {y}) < Depth(seen, asked)
              BY <7>1, <7>2, CallsGoDown
            <7>4. Under(g, y, asked \cup {y})
              BY <2>3, <7>1, CallsAreUnder
            <7> HIDE DEF y
            <7>5. of[<<y, {}, asked \cup {y}>>] # "diverges"
              BY <2>1, <7>1, <7>3, <7>4
            <7> QED BY <6>2, <7>2, <7>5 DEF y, Condition, AskAfresh
          <6> QED BY <6>1, <6>2
        <5>3. ASSUME NEW e \in listed PROVE AskWithin(of, e.src, inside, asked) # "diverges"
          BY <3>2, <5>1
        <5>4. GroupAnswer(g, at, of, x, inside, asked) # "diverges"
          <6> DEFINE condition == [e \in listed |-> Condition(of, e, inside, asked, at)]
                     members == {e \in listed : condition[e] = "holds"}
                     member == [e \in members |-> AskWithin(of, e.src, inside, asked)]
                     satisfied == {e \in members : member[e] = "holds"}
          <6>1. GroupAnswer(g, at, of, x, inside, asked) =
                  IF \/ \E e \in listed : condition[e] = "diverges"
                     \/ \E e \in members : member[e] = "diverges"
                  THEN "diverges"
                  ELSE IF GroupOK(g.nodes[x], Cardinality(members), Cardinality(satisfied))
                       THEN "holds" ELSE "fails"
            BY DEF GroupAnswer
          <6>2. \A e \in listed : condition[e] # "diverges"
            <7> HIDE DEF listed
            <7> QED BY <5>2
          <6>3. \A e \in members : member[e] # "diverges"
            <7> HIDE DEF listed, condition
            <7> QED BY <5>3
          <6> HIDE DEF listed, condition, members, member, satisfied
          <6> QED BY <6>1, <6>2, <6>3
        <5> QED BY <4>1, <5>4 DEF OwnAnswer
      <4>2. CASE g.nodes[x].kind # "group"
        BY <4>2 DEF OwnAnswer
      <4> QED BY <4>1, <4>2
    <3> DEFINE branch == IF g.nodes[x].while = None THEN "holds"
                         ELSE AskWithin(of, g.nodes[x].while, inside, asked)
    <3>5. AnswerOf(g, at, of, x, seen, asked) =
             IF branch # "holds" THEN branch ELSE OwnAnswer(g, at, of, x, inside, asked)
      BY <2>3 DEF AnswerOf, inside
    <3>6. branch # "diverges"
      BY <3>2, <3>3
    <3> HIDE DEF branch
    <3> QED BY <3>4, <3>5, <3>6
  <2> QED BY <2>2, <2>3
<1>4. S = Nat
  <2>1. S \in SUBSET Nat
    OBVIOUS
  <2> HIDE DEF S
  <2> QED BY <1>2, <1>3, <2>1, Induction
<1>5. Depth(within, about) \in Nat
  BY CallsGoDown
<1>6. Depth(within, about) + 1 \in S /\ Depth(within, about) < Depth(within, about) + 1
  <2> HIDE DEF S
  <2> QED BY <1>4, <1>5
<1>7. Returns(id, within, about)
  <2> HIDE DEF Returns
  <2> QED BY <1>6
<1> QED BY <1>7 DEF of

LEMMA UnconditionalReturns ==
    ASSUME NEW g, Whole(g), NEW at, \A e \in Conditional(g) : e.dst \notin {e.while} \cup Basis(g, e.while),
           NEW id \in DOMAIN g.nodes
    PROVE  Evaluate(g, id, at) # "diverges"
<1> DEFINE self == {id}
<1>1. id \in Ids /\ {} \in SUBSET Ids /\ self \in SUBSET Ids /\ Under(g, id, self)
  BY DEF Whole, Under
<1>2. Evaluate(g, id, at) = Outcome(g, at)[<<id, {}, self>>]
  BY DEF Evaluate
<1> HIDE DEF self
<1> QED BY <1>1, <1>2, UnconditionalCallsReturn

\* A cycle does not hang the evaluator, unless a membership's own condition is on
\* it: satisfied knows the nodes it is inside of, and asks about a condition afresh
\* (edgeLive).
THEOREM CyclesDoNotHang == Spec => []OnlyConditionsDiverge
<1>1. IInv => OnlyConditionsDiverge
  BY GraphIsWhole, UnconditionalReturns DEF OnlyConditionsDiverge
<1> QED BY <1>1, Invariance, PTL

-----------------------------------------------------------------------------
(* Taint. *)

LEMMA VisitedUnfolds ==
    ASSUME NEW g, Whole(g), NEW at, NEW next \in SUBSET Ids, NEW seen \in SUBSET Ids
    PROVE  LET found == UNION {RestsOn(g, x, at) : x \in next \ seen}
           IN  /\ found \in SUBSET Ids
               /\ Visited(g, at)[<<next, seen>>] =
                     IF next \subseteq seen THEN seen ELSE Visited(g, at)[<<found, seen \cup next>>]
<1> DEFINE D == (SUBSET Ids) \X (SUBSET Ids)
           V == SUBSET Ids
           Found(n, s) == UNION {RestsOn(g, x, at) : x \in n \ s}
           Body(f, n, s) == IF n \subseteq s THEN s ELSE f[<<Found(n, s), s \cup n>>]
           rank == [x \in D |-> Cardinality(Ids \ x[2])]
           F == [x \in D |-> [f \in [D -> V] |-> Body(f, x[1], x[2])]]
           top == Cardinality(Ids) + 1
<1>0. \A n, s \in SUBSET Ids : Found(n, s) \in SUBSET Ids
  <2>1. \A x : RestsOn(g, x, at) \subseteq Ids
    BY DEF RestsOn, Whole
  <2> QED BY <2>1
<1> HIDE DEF Found
<1>1. /\ rank \in [D -> Nat] /\ top \in Nat /\ \A x \in D : rank[x] < top
  <2>1. \A x \in D : x[2] \in SUBSET Ids
    OBVIOUS
  <2>2. \A x \in D : Cardinality(Ids \ x[2]) \in Nat /\ Cardinality(Ids \ x[2]) <= Cardinality(Ids)
    BY <2>1, Room
  <2>3. Cardinality(Ids) \in Nat
    BY Room
  <2> HIDE DEF D
  <2> QED BY <2>2, <2>3
<1>2. ASSUME NEW x \in D, NEW f \in [D -> V] PROVE F[x][f] = Body(f, x[1], x[2]) /\ Body(f, x[1], x[2]) \in V
  <2>1. x[1] \in SUBSET Ids /\ x[2] \in SUBSET Ids
    OBVIOUS
  <2>2. <<Found(x[1], x[2]), x[2] \cup x[1]>> \in D
    BY <1>0, <2>1
  <2>3. Body(f, x[1], x[2]) \in V
    BY <2>1, <2>2
  <2> HIDE DEF Body
  <2> QED BY <2>3
<1>3. ASSUME NEW x \in D, NEW f \in [D -> V], NEW h \in [D -> V],
             \A y \in D : rank[y] < rank[x] => f[y] = h[y]
      PROVE  F[x][f] = F[x][h]
  <2> DEFINE y == <<Found(x[1], x[2]), x[2] \cup x[1]>>
  <2>1. x[1] \in SUBSET Ids /\ x[2] \in SUBSET Ids
    OBVIOUS
  <2>2. CASE x[1] \subseteq x[2]
    BY <1>2, <2>2
  <2>3. CASE ~ (x[1] \subseteq x[2])
    <3>1. y \in D /\ y[2] = x[2] \cup x[1]
      BY <1>0, <2>1
    <3>2. x[2] \subseteq y[2] /\ y[2] # x[2] /\ y[2] \in SUBSET Ids
      BY <2>1, <2>3, <3>1
    <3>3. rank[y] < rank[x]
      BY <2>1, <3>1, <3>2, Room
    <3>4. f[y] = h[y]
      BY <1>3, <3>1, <3>3
    <3>5. Body(f, x[1], x[2]) = Body(h, x[1], x[2])
      BY <2>3, <3>4
    <3> QED BY <1>2, <3>5
  <2> QED BY <2>2, <2>3
<1> HIDE DEF rank, top
<1>4. PICK f \in [D -> V] : \A x \in D : f[x] = F[x][f]
  <2>1. {} \in V /\ top \in Nat
    BY <1>1
  <2>2. \A x \in D : \A f \in [D -> V] : F[x][f] \in V
    BY <1>2
  <2>3. \A x \in D : \A f, h \in [D -> V] :
           (\A y \in D : rank[y] < rank[x] => f[y] = h[y]) => F[x][f] = F[x][h]
    <3> HIDE DEF D, V, F
    <3> QED BY <1>3
  <2> HIDE DEF D, V, F
  <2>4. Recursive(D, V, rank, top, F)
    BY <1>1, <2>2, <2>3 DEF Recursive
  <2> QED BY <2>1, <2>4, Recursion
<1> DEFINE Is(h) == h = [search \in D |-> Body(h, search[1], search[2])]
           visit == CHOOSE h : Is(h)
<1>5. Is(f)
  <2>1. \A search \in D : f[search] = Body(f, search[1], search[2])
    BY <1>2, <1>4
  <2> HIDE DEF Body, D, V
  <2> QED BY <2>1
<1>6. Is(visit)
  <2> HIDE DEF Is
  <2> QED BY <1>5
<1>7. Visited(g, at) = visit
  BY DEF Visited, Found
<1> HIDE DEF visit
<1> DEFINE x == <<next, seen>>
<1>8. x \in D /\ x[1] = next /\ x[2] = seen
  OBVIOUS
<1>9. visit[x] = Body(visit, x[1], x[2])
  <2> HIDE DEF x, D, Body
  <2> QED BY <1>6, <1>8
<1> QED BY <1>0, <1>7, <1>8, <1>9 DEF Found

\* A search that has come to whatever the nodes it has seen rest on ends with all
\* that the nodes it has visited rest on.
LEMMA VisitedIsClosed ==
    ASSUME NEW g, Whole(g), NEW at, NEW next \in SUBSET Ids, NEW seen \in SUBSET Ids,
           \A x \in seen : RestsOn(g, x, at) \subseteq seen \cup next
    PROVE  /\ next \cup seen \subseteq Visited(g, at)[<<next, seen>>]
           /\ \A x \in Visited(g, at)[<<next, seen>>] :
                 RestsOn(g, x, at) \subseteq Visited(g, at)[<<next, seen>>]
<1> DEFINE all(n, s) == Visited(g, at)[<<n, s>>]
           Found(n, s) == UNION {RestsOn(g, x, at) : x \in n \ s}
           Closed(n, s) == (\A x \in s : RestsOn(g, x, at) \subseteq s \cup n)
                              => /\ n \cup s \subseteq all(n, s)
                                 /\ \A x \in all(n, s) : RestsOn(g, x, at) \subseteq all(n, s)
           S == {m \in Nat : \A n, s \in SUBSET Ids : Cardinality(Ids \ s) < m => Closed(n, s)}
<1>1. 0 \in S
  <2>1. \A s \in SUBSET Ids : Cardinality(Ids \ s) \in Nat
    BY Room
  <2>2. \A s \in SUBSET Ids : ~ (Cardinality(Ids \ s) < 0)
    BY <2>1
  <2> HIDE DEF Closed
  <2> QED BY <2>2
<1>2. ASSUME NEW m \in S PROVE m + 1 \in S
  <2> SUFFICES ASSUME NEW n \in SUBSET Ids, NEW s \in SUBSET Ids, Cardinality(Ids \ s) < m + 1
               PROVE  Closed(n, s)
    <3> HIDE DEF Closed
    <3> QED OBVIOUS
  <2>1. /\ Found(n, s) \in SUBSET Ids
        /\ all(n, s) = IF n \subseteq s THEN s ELSE all(Found(n, s), s \cup n)
    BY VisitedUnfolds
  <2>2. CASE n \subseteq s
    <3>1. all(n, s) = s /\ s \cup n = s
      BY <2>1, <2>2
    <3> HIDE DEF all
    <3> QED BY <3>1
  <2>3. CASE ~ (n \subseteq s)
    <3> DEFINE more == s \cup n
               found == Found(n, s)
    <3>1. more \in SUBSET Ids /\ s \subseteq more /\ more # s /\ found \in SUBSET Ids
      BY <2>1, <2>3
    <3>2. Cardinality(Ids \ more) < m
      <4>1. /\ Cardinality(Ids \ more) \in Nat /\ Cardinality(Ids \ s) \in Nat /\ m \in Nat
            /\ Cardinality(Ids \ more) < Cardinality(Ids \ s)
        <5> HIDE DEF more, found, Closed
        <5> QED BY <3>1, Room
      <4> HIDE DEF more
      <4> QED BY <4>1
    <3>3. Closed(found, more)
      <4> HIDE DEF Closed, found, more
      <4> QED BY <3>1, <3>2
    <3>4. all(n, s) = all(found, more)
      BY <2>1, <2>3
    <3> SUFFICES ASSUME \A x \in s : RestsOn(g, x, at) \subseteq s \cup n
                 PROVE  /\ n \cup s \subseteq all(n, s)
                        /\ \A x \in all(n, s) : RestsOn(g, x, at) \subseteq all(n, s)
      OBVIOUS
    <3>5. ASSUME NEW x \in more PROVE RestsOn(g, x, at) \subseteq more \cup found
      OBVIOUS
    <3> HIDE DEF all, found
    <3>6. /\ found \cup more \subseteq all(found, more)
          /\ \A x \in all(found, more) : RestsOn(g, x, at) \subseteq all(found, more)
      <4> HIDE DEF more
      <4> QED BY <3>3, <3>5
    <3> QED BY <3>4, <3>6
  <2> QED BY <2>2, <2>3
<1>3. S = Nat
  <2>1. S \in SUBSET Nat
    OBVIOUS
  <2> HIDE DEF S
  <2> QED BY <1>1, <1>2, <2>1, Induction
<1>4. Closed(next, seen)
  <2>1. Cardinality(Ids \ seen) \in Nat
    BY Room
  <2>2. Cardinality(Ids \ seen) + 1 \in S
    <3> HIDE DEF S
    <3> QED BY <1>3, <2>1
  <2>3. Cardinality(Ids \ seen) < Cardinality(Ids \ seen) + 1
    BY <2>1
  <2> HIDE DEF Closed
  <2> QED BY <2>2, <2>3
<1> HIDE DEF all
<1> QED BY <1>4 DEF all

-----------------------------------------------------------------------------
(* Answers and what follows from what holds. *)

\* The relations there are can be counted, and so can what a group asks for.
Counted(g) == IsFiniteSet(g.incident) /\ \A id \in DOMAIN g.nodes : g.nodes[id].k \in Int

LEMMA GraphIsCounted == ASSUME IInv PROVE Counted(graph)
<1> DEFINE es == Stated(draft, stated)
           r == Retired(nodes)
           f == [i \in DOMAIN es |-> RewrittenEdge(r, es[i])]
           all == {f[i] : i \in DOMAIN es}
<1>1. Log(nodes, es) /\ graph = Build(nodes, es)
  BY LogOfTheGraph DEF IInv, GraphInv
<1>2. PICK m \in Nat : DOMAIN es = 1..m
  BY <1>1 DEF Log
<1>3. IsFiniteSet(DOMAIN es)
  BY <1>2, FS_Interval
<1> HIDE DEF es
<1>4. /\ graph.edges = KeptEdges(r, es) /\ graph.incident \subseteq graph.edges
      /\ DOMAIN graph.nodes \subseteq DOMAIN nodes
      /\ \A id \in DOMAIN graph.nodes : graph.nodes[id].k = nodes[id].k
  BY <1>1, BuildIsOfWhatIsLeft
<1>5. IsFiniteSet(all)
  <2>1. f \in Surjection(DOMAIN es, all)
    BY DEF Surjection
  <2> HIDE DEF f, all
  <2> QED BY <1>3, <2>1, FS_Surjection
<1>6. graph.incident \in SUBSET all
  BY <1>4 DEF KeptEdges
<1>7. IsFiniteSet(graph.incident)
  <2> HIDE DEF all
  <2> QED BY <1>5, <1>6, FS_Subset
<1>8. \A id \in DOMAIN nodes : nodes[id].k \in Int
  BY <1>1 DEF Log, IsFact
<1> QED BY <1>4, <1>7, <1>8 DEF Counted

\* groupStat counts what Meets compares.
LEMMA CountsTell ==
    ASSUME NEW n, NEW members, IsFiniteSet(members), NEW X
    PROVE  GroupOK(n, Cardinality(members), Cardinality({e \in members : e.src \in X}))
              <=> Meets(n, members, X)
<1> DEFINE held == {e \in members : e.src \in X}
           total == Cardinality(members)
           satisfied == Cardinality(held)
<1>1. /\ IsFiniteSet(held) /\ total \in Nat /\ satisfied \in Nat
      /\ (satisfied = total => held = members)
  <2>1. held \in SUBSET members
    OBVIOUS
  <2> HIDE DEF held
  <2>2. IsFiniteSet(held) /\ (Cardinality(members) = Cardinality(held) => members = held)
    BY <2>1, FS_Subset
  <2>3. total \in Nat /\ satisfied \in Nat
    BY <2>2, FS_CardinalityType
  <2> QED BY <2>2, <2>3
<1> HIDE DEF held
<1>2. (total = 0 <=> members = {}) /\ (satisfied = 0 <=> held = {})
  BY <1>1, FS_EmptySet
<1>3. held = members => satisfied = total
  OBVIOUS
<1> HIDE DEF total, satisfied
<1>4. Meets(n, members, X) <=>
         \/ n.expr = "all" /\ members # {} /\ held = members
         \/ n.expr = "any" /\ held # {}
         \/ n.expr = "none" /\ held = {}
         \/ n.expr = "sum" /\ members # {}
         \/ n.expr = ">=" /\ satisfied >= n.k
         \/ n.expr = ">" /\ satisfied > n.k
         \/ n.expr = "<=" /\ satisfied <= n.k
         \/ n.expr = "<" /\ satisfied < n.k
         \/ n.expr = "==" /\ satisfied = n.k
  BY DEF Meets, held, satisfied
<1>5. (total > 0 <=> members # {}) /\ (satisfied >= 1 <=> held # {})
  BY <1>1, <1>2
<1>6. GroupOK(n, total, satisfied) <=> Meets(n, members, X)
  BY <1>1, <1>2, <1>3, <1>4, <1>5 DEF GroupOK
<1> QED BY <1>6 DEF total, satisfied, held

\* What an answer says of an id.
Holding(Y, id) == IF id \in Y THEN "holds" ELSE "fails"

\* The calls a call makes say of each id whether it is in Y.
CallsSay(g, at, of, id, seen, asked, Y) ==
    /\ \A x \in Depends(g, id) : AskWithin(of, x, seen \cup {id}, asked) = Holding(Y, x)
    /\ \A e \in StatedMembers(g, id, at) :
          g.nodes[id].kind = "group" /\ at # NoDate /\ e.while # None
             => AskAfresh(of, e.while, seen \cup {id}, asked) = Holding(Y, e.while)

\* It says, then, whether this one follows from Y.
LEMMA AnswerIsWhatFollows ==
    ASSUME NEW g, Whole(g), Counted(g), NEW at, NEW of, NEW id, NEW seen, NEW asked, NEW Y, id \notin seen,
           CallsSay(g, at, of, id, seen, asked, Y)
    PROVE  AnswerOf(g, at, of, id, seen, asked) = Holding(Follows(g, Y, at), id)
<1> USE DEF CallsSay
<1> DEFINE inside == seen \cup {id}
           members == {e \in g.incident :
                          /\ e.type = "member_of" /\ e.dst = id /\ InWindow(e, at)
                          /\ at # NoDate /\ e.while # None => e.while \in Y}
           met == IF g.nodes[id].kind = "group"
                  THEN Meets(g.nodes[id], members, Y)
                  ELSE g.nodes[id].status \in {"asserted", "done", "resolved"}
<1>1. id \in Follows(g, Y, at) <=>
         /\ id \in DOMAIN g.nodes /\ InWindow(g.nodes[id], at)
         /\ g.nodes[id].while # None => g.nodes[id].while \in Y
         /\ met
  BY DEF Follows
<1>2. CASE id \notin DOMAIN g.nodes \/ ~ InWindow(g.nodes[id], at)
  BY <1>1, <1>2 DEF AnswerOf, Holding
<1>3. CASE id \in DOMAIN g.nodes /\ InWindow(g.nodes[id], at)
  <2> DEFINE branch == IF g.nodes[id].while = None THEN "holds"
                       ELSE AskWithin(of, g.nodes[id].while, inside, asked)
             own == OwnAnswer(g, at, of, id, inside, asked)
  <2>1. AnswerOf(g, at, of, id, seen, asked) = IF branch # "holds" THEN branch ELSE own
    BY <1>3 DEF AnswerOf
  <2>2. branch = IF g.nodes[id].while # None => g.nodes[id].while \in Y THEN "holds" ELSE "fails"
    <3>1. g.nodes[id].while # None => g.nodes[id].while \in Depends(g, id)
      BY <1>3 DEF Depends, Whole
    <3> QED BY <3>1 DEF Holding
  <2>3. own = IF met THEN "holds" ELSE "fails"
    <3>1. CASE g.nodes[id].kind # "group"
      BY <3>1 DEF OwnAnswer
    <3>2. CASE g.nodes[id].kind = "group"
      <4> DEFINE listed == StatedMembers(g, id, at)
                 condition == [e \in listed |-> Condition(of, e, inside, asked, at)]
                 those == {e \in listed : condition[e] = "holds"}
                 member == [e \in those |-> AskWithin(of, e.src, inside, asked)]
                 satisfied == {e \in those : member[e] = "holds"}
      <4>1. GroupAnswer(g, at, of, id, inside, asked) =
              IF \/ \E e \in listed : condition[e] = "diverges"
                 \/ \E e \in those : member[e] = "diverges"
              THEN "diverges"
              ELSE IF GroupOK(g.nodes[id], Cardinality(those), Cardinality(satisfied))
                   THEN "holds" ELSE "fails"
        BY DEF GroupAnswer
      <4>2. \A e \in listed : Condition(of, e, inside, asked, at) =
                 IF at # NoDate /\ e.while # None => e.while \in Y THEN "holds" ELSE "fails"
        BY <3>2 DEF Condition, Holding
      <4>3. \A e \in listed : AskWithin(of, e.src, inside, asked) = Holding(Y, e.src)
        <5> SUFFICES ASSUME NEW e \in listed PROVE e.src \in Depends(g, id)
          OBVIOUS
        <5>1. e \in g.incident /\ e.type = "member_of" /\ e.dst = id /\ e.src \in DOMAIN g.nodes
          BY DEF StatedMembers, Whole
        <5> QED BY <3>2, <5>1 DEF Depends
      <4>4. members = {e \in listed : at # NoDate /\ e.while # None => e.while \in Y}
        BY DEF StatedMembers
      <4> HIDE DEF listed, members
      <4>5. \A e \in listed : condition[e] =
                 IF at # NoDate /\ e.while # None => e.while \in Y THEN "holds" ELSE "fails"
        BY <4>2
      <4> HIDE DEF condition
      <4>6. those = members
        BY <4>4, <4>5
      <4>7. \A e \in those : member[e] = Holding(Y, e.src)
        BY <4>3
      <4> HIDE DEF member
      <4>8. satisfied = {e \in members : e.src \in Y}
        <5> HIDE DEF those
        <5> QED BY <4>6, <4>7 DEF Holding
      <4>9. IsFiniteSet(members)
        <5>1. members \in SUBSET g.incident
          BY DEF members
        <5> QED BY <5>1, FS_Subset DEF Counted
      <4> HIDE DEF those, satisfied
      <4>10. GroupOK(g.nodes[id], Cardinality(those), Cardinality(satisfied)) <=> Meets(g.nodes[id], members, Y)
        <5> DEFINE n == g.nodes[id]
        <5> HIDE DEF n
        <5>1. GroupOK(n, Cardinality(members), Cardinality({e \in members : e.src \in Y})) <=> Meets(n, members, Y)
          BY <4>9, CountsTell
        <5> QED BY <4>6, <4>8, <5>1 DEF n
      <4>11. /\ \A e \in listed : condition[e] # "diverges"
             /\ \A e \in those : member[e] # "diverges"
        BY <4>5, <4>7 DEF Holding
      <4>12. own = GroupAnswer(g, at, of, id, inside, asked)
        BY <3>2 DEF OwnAnswer
      <4> HIDE DEF own
      <4> QED BY <3>2, <4>1, <4>10, <4>11, <4>12
    <3> QED BY <3>1, <3>2
  <2> HIDE DEF branch, own, met
  <2> QED BY <1>1, <1>3, <2>1, <2>2, <2>3 DEF Holding
<1> QED BY <1>2, <1>3

\* What holds from inside of some nodes.
Held(g, at, seen, asked) == {x \in Ids : Outcome(g, at)[<<x, seen, asked>>] = "holds"}

\* Where there is no condition to ask about, an id holds from inside of some nodes
\* if it follows from what holds from inside of it too.
LEMMA HeldIsWhatFollows ==
    ASSUME NEW g, Whole(g), Counted(g), Conditional(g) = {}, NEW at,
           NEW id \in Ids, NEW seen \in SUBSET Ids, NEW asked \in SUBSET Ids
    PROVE  id \in Held(g, at, seen, asked) <=>
              id \notin seen /\ id \in Follows(g, Held(g, at, seen \cup {id}, asked), at)
<1> DEFINE of == Outcome(g, at)
           inside == seen \cup {id}
           Y == Held(g, at, inside, asked)
<1>1. inside \in SUBSET Ids
  OBVIOUS
<1>2. /\ of \in [Calls -> Outcomes]
      /\ of[<<id, seen, asked>>] = AnswerOf(g, at, of, id, seen, asked)
  BY OutcomeUnfolds
<1>3. ASSUME NEW x \in Ids PROVE AskWithin(of, x, inside, asked) = Holding(Y, x)
  <2> HIDE DEF inside
  <2>1. of[<<x, inside, asked>>] # "diverges"
    <3>1. Under(g, x, asked)
      BY DEF Under
    <3> QED BY <1>1, <3>1, UnconditionalCallsReturn
  <2>2. of[<<x, inside, asked>>] \in Outcomes
    <3>1. <<x, inside, asked>> \in Calls
      BY <1>1 DEF Calls
    <3> HIDE DEF of
    <3> QED BY <1>2, <3>1
  <2>3. x \in Y <=> of[<<x, inside, asked>>] = "holds"
    BY DEF Held
  <2> HIDE DEF Y, of
  <2> QED BY <2>1, <2>2, <2>3 DEF AskWithin, Holding, Outcomes
<1>4. \A e \in StatedMembers(g, id, at) : e.while = None
  BY DEF StatedMembers, Conditional
<1>5. Depends(g, id) \subseteq Ids
  BY DEF Depends, Whole
<1>6. CASE id \in seen
  BY <1>2, <1>6 DEF AnswerOf, Held
<1>7. CASE id \notin seen
  <2> HIDE DEF of, Y
  <2>1. AnswerOf(g, at, of, id, seen, asked) = Holding(Follows(g, Y, at), id)
    <3>1. CallsSay(g, at, of, id, seen, asked, Y)
      BY <1>3, <1>4, <1>5 DEF CallsSay
    <3> QED BY <1>7, <3>1, AnswerIsWhatFollows
  <2>2. id \in Held(g, at, seen, asked) <=> of[<<id, seen, asked>>] = "holds"
    BY DEF of, Held
  <2>3. id \in Held(g, at, seen, asked) <=> id \in Follows(g, Y, at)
    BY <1>2, <2>1, <2>2 DEF Holding
  <2> QED BY <1>7, <2>3 DEF Y
<1> QED BY <1>6, <1>7

-----------------------------------------------------------------------------
(* A question that is answered. *)

\* a is g with the question q answered.
AnsweredIn(g, q, a) ==
    /\ a.incident = g.incident /\ DOMAIN a.nodes = DOMAIN g.nodes
    /\ \A x \in DOMAIN g.nodes : /\ a.nodes[x].while = g.nodes[x].while /\ a.nodes[x].k = g.nodes[x].k
                                 /\ x # q => a.nodes[x] = g.nodes[x]

\* What does not rest on it holds, from inside of any nodes, as it did.
LEMMA SettledIsSettled ==
    ASSUME NEW g, Whole(g), Counted(g), Conditional(g) = {}, NEW at, NEW q, IsHole(g, q),
           NEW a, AnsweredIn(g, q, a),
           NEW R \in SUBSET Ids, q \notin R, \A x \in R : RestsOn(g, x, at) \subseteq R,
           NEW id \in R, NEW within \in SUBSET Ids, NEW asked \in SUBSET Ids
    PROVE  id \in Held(g, at, within, asked) <=> id \in Held(a, at, within, asked)
<1> DEFINE Same(x, seen) == x \in Held(g, at, seen, asked) <=> x \in Held(a, at, seen, asked)
           S == {n \in Nat : \A x \in R, seen \in SUBSET Ids : Cardinality(Ids \ seen) < n => Same(x, seen)}
<1>0. /\ a.incident = g.incident /\ DOMAIN a.nodes = DOMAIN g.nodes
      /\ \A x \in DOMAIN g.nodes : a.nodes[x].while = g.nodes[x].while /\ a.nodes[x].k = g.nodes[x].k
      /\ \A x \in DOMAIN g.nodes : x # q => a.nodes[x] = g.nodes[x]
  BY DEF AnsweredIn
<1>1. Whole(a) /\ Counted(a) /\ Conditional(a) = {}
  <2>1. Whole(a)
    BY <1>0 DEF Whole
  <2>2. Counted(a)
    BY <1>0 DEF Counted
  <2>3. Conditional(a) = {}
    BY <1>0 DEF Conditional
  <2> QED BY <2>1, <2>2, <2>3
<1>2. 0 \in S
  <2>1. \A seen \in SUBSET Ids : ~ (Cardinality(Ids \ seen) < 0)
    <3>1. \A seen \in SUBSET Ids : Cardinality(Ids \ seen) \in Nat
      BY Room
    <3> QED BY <3>1
  <2> HIDE DEF Same
  <2> QED BY <2>1
<1>3. ASSUME NEW n \in S PROVE n + 1 \in S
  <2> SUFFICES ASSUME NEW x \in R, NEW seen \in SUBSET Ids, Cardinality(Ids \ seen) < n + 1
               PROVE  Same(x, seen)
    <3> HIDE DEF Same
    <3> QED OBVIOUS
  <2> DEFINE inside == seen \cup {x}
             Y == Held(g, at, inside, asked)
             Z == Held(a, at, inside, asked)
  <2>1. /\ x \in Held(g, at, seen, asked) <=> x \notin seen /\ x \in Follows(g, Y, at)
        /\ x \in Held(a, at, seen, asked) <=> x \notin seen /\ x \in Follows(a, Z, at)
    BY <1>1, HeldIsWhatFollows
  <2>2. CASE x \in seen
    BY <2>1, <2>2
  <2>3. CASE x \notin seen
    <3>1. inside \in SUBSET Ids /\ seen \subseteq inside /\ inside # seen
      BY <2>3
    <3>2. \A y \in R : y \in Y <=> y \in Z
      <4>1. Cardinality(Ids \ inside) < n
        <5>1. /\ Cardinality(Ids \ inside) \in Nat /\ Cardinality(Ids \ seen) \in Nat /\ n \in Nat
              /\ Cardinality(Ids \ inside) < Cardinality(Ids \ seen)
          <6> HIDE DEF inside, Same
          <6> QED BY <3>1, Room
        <5> HIDE DEF inside
        <5> QED BY <5>1
      <4>2. \A y \in R : Same(y, inside)
        <5> HIDE DEF Same, inside
        <5> QED BY <3>1, <4>1
      <4> QED BY <4>2
    <3> HIDE DEF S, Y, Z, inside
    <3>3. CASE x \notin DOMAIN g.nodes
      BY <1>0, <2>1, <3>3 DEF Follows
    <3>4. CASE IsHole(g, x)
      <4>1. a.nodes[x] = g.nodes[x] /\ g.nodes[x].kind = "question" /\ g.nodes[x].status = "open"
        BY <1>0, <3>4 DEF IsHole
      <4>2. x \notin Follows(g, Y, at) /\ x \notin Follows(a, Z, at)
        BY <4>1 DEF Follows
      <4> QED BY <2>1, <4>2
    <3>5. CASE x \in DOMAIN g.nodes /\ ~ IsHole(g, x)
      <4> DEFINE n0 == g.nodes[x]
                 members == {e \in g.incident : e.type = "member_of" /\ e.dst = x /\ InWindow(e, at)}
                 Met(X) == IF n0.kind = "group" THEN Meets(n0, members, X)
                           ELSE n0.status \in {"asserted", "done", "resolved"}
      <4>1. a.nodes[x] = n0 /\ x \in DOMAIN a.nodes /\ a.incident = g.incident
        BY <1>0, <3>5
      <4>2. \A e \in g.incident : e.type = "member_of" => e.while = None
        BY DEF Conditional
      <4>3. n0.while # None => n0.while \in R
        BY <3>5 DEF RestsOn
      <4>4. n0.kind = "group" => \A e \in members : e.src \in R
        BY <3>5, <4>2 DEF RestsOn, EdgeLive
      <4>5. \A X : members = {e \in g.incident :
                          /\ e.type = "member_of" /\ e.dst = x /\ InWindow(e, at)
                          /\ at # NoDate /\ e.while # None => e.while \in X}
        BY <4>2
      <4>6. /\ x \in Follows(g, Y, at) <=>
                  InWindow(n0, at) /\ (n0.while # None => n0.while \in Y) /\ Met(Y)
            /\ x \in Follows(a, Z, at) <=>
                  InWindow(n0, at) /\ (n0.while # None => n0.while \in Z) /\ Met(Z)
        <5>1. \A X : x \in Follows(g, X, at) <=>
                  InWindow(n0, at) /\ (n0.while # None => n0.while \in X)
                  /\ IF n0.kind = "group"
                     THEN Meets(n0, {e \in g.incident :
                          /\ e.type = "member_of" /\ e.dst = x /\ InWindow(e, at)
                          /\ at # NoDate /\ e.while # None => e.while \in X}, X)
                     ELSE n0.status \in {"asserted", "done", "resolved"}
          BY <3>5 DEF Follows
        <5>2. \A X : x \in Follows(a, X, at) <=>
                  InWindow(n0, at) /\ (n0.while # None => n0.while \in X)
                  /\ IF n0.kind = "group"
                     THEN Meets(n0, {e \in g.incident :
                          /\ e.type = "member_of" /\ e.dst = x /\ InWindow(e, at)
                          /\ at # NoDate /\ e.while # None => e.while \in X}, X)
                     ELSE n0.status \in {"asserted", "done", "resolved"}
          BY <4>1 DEF Follows
        <5> HIDE DEF members, n0
        <5> QED BY <4>5, <5>1, <5>2
      <4> HIDE DEF n0, members
      <4>7. n0.kind = "group" =>
               {e \in members : e.src \in Y} = {e \in members : e.src \in Z}
        BY <3>2, <4>4
      <4>8. Met(Y) <=> Met(Z)
        BY <4>7 DEF Meets
      <4> QED BY <2>1, <3>2, <4>3, <4>6, <4>8
    <3> QED BY <3>3, <3>4, <3>5
  <2> QED BY <2>2, <2>3
<1>4. S = Nat
  <2>1. S \in SUBSET Nat
    OBVIOUS
  <2> HIDE DEF S
  <2> QED BY <1>2, <1>3, <2>1, Induction
<1>5. Cardinality(Ids \ within) + 1 \in S /\ Cardinality(Ids \ within) < Cardinality(Ids \ within) + 1
  <2>1. Cardinality(Ids \ within) \in Nat
    BY Room
  <2> HIDE DEF S
  <2> QED BY <1>4, <2>1
<1>6. Same(id, within)
  <2> HIDE DEF Same
  <2> QED BY <1>5
<1> QED BY <1>6

LEMMA AnsweringSettlesNoMore == ASSUME IInv PROVE UntaintedIsSettled
<1>1. Whole(graph) /\ Counted(graph)
  BY GraphIsWhole, GraphIsCounted
<1> SUFFICES ASSUME Conditional(graph) = {}, NEW q \in DOMAIN graph.nodes, IsHole(graph, q), NEW at \in Dates,
                    NEW id \in DOMAIN graph.nodes, q \notin Taint(graph, id, at)
             PROVE  Satisfied(graph, id, at)
                       <=> Satisfied([graph EXCEPT !.nodes[q].status = "resolved"], id, at)
  BY <1>1 DEF UntaintedIsSettled, AnsweredIn
<1> DEFINE a == [graph EXCEPT !.nodes[q].status = "resolved"]
           R == Visited(graph, at)[<<{id}, {}>>] \cap Ids
<1>2. AnsweredIn(graph, q, a)
  <2>1. {"nodes", "incident"} \subseteq DOMAIN graph
    BY DEF IInv, GraphInv, Build
  <2>2. {"while", "k", "status"} \subseteq DOMAIN graph.nodes[q]
    <3> DEFINE es == Stated(draft, stated)
    <3>1. Log(nodes, es) /\ graph = Build(nodes, es)
      BY LogOfTheGraph DEF IInv, GraphInv
    <3> HIDE DEF es
    <3>2. DOMAIN graph.nodes[q] = DOMAIN Node("claim", "asserted")
      BY <3>1, BuildIsOfWhatIsLeft
    <3> QED BY <3>2 DEF Node
  <2> QED BY <2>1, <2>2 DEF AnsweredIn
<1>3. /\ id \in R /\ q \notin R
      /\ \A x \in R : RestsOn(graph, x, at) \subseteq R
  <2> DEFINE from == {id}
             nothing == {}
             all == Visited(graph, at)[<<from, nothing>>]
  <2>1. from \in SUBSET Ids /\ nothing \in SUBSET Ids /\ id \in Ids
    BY <1>1 DEF Whole
  <2>2. \A x \in nothing : RestsOn(graph, x, at) \subseteq nothing \cup from
    OBVIOUS
  <2> HIDE DEF from, nothing
  <2>3. from \cup nothing \subseteq all /\ \A x \in all : RestsOn(graph, x, at) \subseteq all
    BY <1>1, <2>1, <2>2, VisitedIsClosed
  <2>4. \A x : RestsOn(graph, x, at) \subseteq Ids
    BY <1>1 DEF RestsOn, Whole
  <2>5. q \notin all
    BY DEF Taint, from, nothing
  <2>6. R = all \cap Ids
    BY DEF from, nothing
  <2> HIDE DEF R, all
  <2> QED BY <2>1, <2>3, <2>4, <2>5, <2>6 DEF from
<1> DEFINE self == {id}
<1>4. self \in SUBSET Ids /\ {} \in SUBSET Ids /\ R \in SUBSET Ids /\ id \in Ids
  BY <1>1 DEF Whole
<1> HIDE DEF R, self
<1>5. id \in Held(graph, at, {}, self) <=> id \in Held(a, at, {}, self)
  <2> HIDE DEF a
  <2> QED BY <1>1, <1>2, <1>3, <1>4, SettledIsSettled
<1>6. \A g : id \in Held(g, at, {}, self) <=> Satisfied(g, id, at)
  BY <1>4 DEF Held, Satisfied, Evaluate, self
<1> QED BY <1>5, <1>6

\* What no open question is found under does not come to hold, or to fail, by that
\* question's being answered (taint).
THEOREM TaintFindsEveryQuestion == Spec => []UntaintedIsSettled
BY Invariance, AnsweringSettlesNoMore, PTL

-----------------------------------------------------------------------------
(* What holds, where groups only ask for more. *)

\* What asks only for more members is met if more of them hold.
LEMMA MoreMeetsMore ==
    ASSUME NEW n, n.expr \in {"all", "any", "sum", ">=", ">"}, n.k \in Int,
           NEW members, IsFiniteSet(members), NEW X, NEW Y, X \subseteq Y, Meets(n, members, X)
    PROVE  Meets(n, members, Y)
<1> DEFINE held(Z) == {e \in members : e.src \in Z}
<1>1. held(X) \in SUBSET held(Y) /\ held(Y) \in SUBSET members
  OBVIOUS
<1> DEFINE few == held(X)
           many == held(Y)
<1>2. /\ Cardinality(few) \in Nat /\ Cardinality(many) \in Nat
      /\ Cardinality(few) <= Cardinality(many)
  <2> HIDE DEF few, many
  <2>1. IsFiniteSet(many)
    BY <1>1, FS_Subset DEF few, many
  <2>2. IsFiniteSet(few) /\ Cardinality(few) <= Cardinality(many)
    BY <1>1, <2>1, FS_Subset DEF few, many
  <2> QED BY <2>1, <2>2, FS_CardinalityType
<1>3. few \subseteq many /\ many \subseteq members
  BY <1>1
<1>4. \/ n.expr = "all" /\ members # {} /\ few = members
      \/ n.expr = "any" /\ few # {}
      \/ n.expr = "sum" /\ members # {}
      \/ n.expr = ">=" /\ Cardinality(few) >= n.k
      \/ n.expr = ">" /\ Cardinality(few) > n.k
  BY DEF Meets
<1>5. \/ n.expr = "all" /\ members # {} /\ many = members
      \/ n.expr = "any" /\ many # {}
      \/ n.expr = "sum" /\ members # {}
      \/ n.expr = ">=" /\ Cardinality(many) >= n.k
      \/ n.expr = ">" /\ Cardinality(many) > n.k
  <2> HIDE DEF few, many
  <2> QED BY <1>2, <1>3, <1>4
<1> QED BY <1>5 DEF Meets

LEMMA MoreFollowsFromMore ==
    ASSUME NEW g, Counted(g), Monotone(g), NEW at, NEW X, NEW Y, X \subseteq Y
    PROVE  Follows(g, X, at) \subseteq Follows(g, Y, at)
<1> SUFFICES ASSUME NEW id \in Follows(g, X, at) PROVE id \in Follows(g, Y, at)
  OBVIOUS
<1> DEFINE n == g.nodes[id]
           those(Z) == {e \in g.incident :
                          /\ e.type = "member_of" /\ e.dst = id /\ InWindow(e, at)
                          /\ at # NoDate /\ e.while # None => e.while \in Z}
           Met(Z) == IF n.kind = "group" THEN Meets(n, those(Z), Z)
                     ELSE n.status \in {"asserted", "done", "resolved"}
<1>1. \A Z : id \in Follows(g, Z, at) <=>
         /\ id \in DOMAIN g.nodes /\ InWindow(n, at)
         /\ n.while # None => n.while \in Z
         /\ Met(Z)
  BY DEF Follows
<1>2. id \in DOMAIN g.nodes /\ Met(X)
  BY <1>1
<1>3. those(X) = those(Y)
  BY DEF Monotone, Conditional
<1>4. IsFiniteSet(those(X))
  <2>1. those(X) \in SUBSET g.incident
    OBVIOUS
  <2> HIDE DEF those
  <2> QED BY <2>1, FS_Subset DEF Counted
<1>5. n.k \in Int /\ (n.kind = "group" => n.expr \in {"all", "any", "sum", ">=", ">"})
  BY <1>2 DEF Counted, Monotone
<1>6. Met(Y)
  <2> HIDE DEF those, n
  <2>1. n.kind = "group" /\ Meets(n, those(X), X) => Meets(n, those(X), Y)
    BY <1>4, <1>5, MoreMeetsMore
  <2> QED BY <1>2, <1>3, <2>1
<1> HIDE DEF Met
<1> QED BY <1>1, <1>6

\* What holds from inside of some nodes holds from inside of fewer, whatever was
\* asked further out.
LEMMA FewerInsideHoldsMore ==
    ASSUME NEW g, Whole(g), Counted(g), Monotone(g), NEW at,
           NEW within \in SUBSET Ids, NEW fewer \in SUBSET within, NEW asked \in SUBSET Ids, NEW other \in SUBSET Ids
    PROVE  Held(g, at, within, asked) \subseteq Held(g, at, fewer, other)
<1> DEFINE More(s, t) == t \subseteq s => Held(g, at, s, asked) \subseteq Held(g, at, t, other)
           S == {n \in Nat : \A s, t \in SUBSET Ids : Cardinality(Ids \ s) < n => More(s, t)}
<1>0. Conditional(g) = {}
  BY DEF Monotone
<1>1. 0 \in S
  <2>1. \A s \in SUBSET Ids : ~ (Cardinality(Ids \ s) < 0)
    <3>1. \A s \in SUBSET Ids : Cardinality(Ids \ s) \in Nat
      BY Room
    <3> QED BY <3>1
  <2> HIDE DEF More
  <2> QED BY <2>1
<1>2. ASSUME NEW n \in S PROVE n + 1 \in S
  <2> SUFFICES ASSUME NEW s \in SUBSET Ids, NEW t \in SUBSET Ids, Cardinality(Ids \ s) < n + 1
               PROVE  More(s, t)
    <3> HIDE DEF More
    <3> QED OBVIOUS
  <2> SUFFICES ASSUME t \subseteq s, NEW x \in Held(g, at, s, asked) PROVE x \in Held(g, at, t, other)
    OBVIOUS
  <2> DEFINE inside == s \cup {x}
             outside == t \cup {x}
             Y == Held(g, at, inside, asked)
             Z == Held(g, at, outside, other)
  <2>1. x \in Ids
    BY DEF Held
  <2>2. x \notin s /\ x \in Follows(g, Y, at)
    BY <1>0, <2>1, HeldIsWhatFollows
  <2>3. /\ inside \in SUBSET Ids /\ outside \in SUBSET Ids /\ outside \subseteq inside
        /\ s \subseteq inside /\ inside # s
    BY <2>1, <2>2
  <2>4. Cardinality(Ids \ inside) < n
    <3>1. /\ Cardinality(Ids \ inside) \in Nat /\ Cardinality(Ids \ s) \in Nat /\ n \in Nat
          /\ Cardinality(Ids \ inside) < Cardinality(Ids \ s)
      <4> HIDE DEF inside, outside, More
      <4> QED BY <2>3, Room
    <3> HIDE DEF inside
    <3> QED BY <3>1
  <2>5. Y \subseteq Z
    <3>1. More(inside, outside)
      <4> HIDE DEF More, inside, outside
      <4> QED BY <2>3, <2>4
    <3> QED BY <2>3, <3>1
  <2> HIDE DEF S, Y, Z
  <2>6. x \in Follows(g, Z, at)
    BY <2>2, <2>5, MoreFollowsFromMore
  <2>7. x \notin t
    BY <2>2
  <2> QED BY <1>0, <2>1, <2>6, <2>7, HeldIsWhatFollows DEF Z
<1>3. S = Nat
  <2>1. S \in SUBSET Nat
    OBVIOUS
  <2> HIDE DEF S
  <2> QED BY <1>1, <1>2, <2>1, Induction
<1>4. Cardinality(Ids \ within) + 1 \in S /\ Cardinality(Ids \ within) < Cardinality(Ids \ within) + 1
  <2>1. Cardinality(Ids \ within) \in Nat
    BY Room
  <2> HIDE DEF S
  <2> QED BY <1>3, <2>1
<1>5. fewer \in SUBSET Ids
  OBVIOUS
<1>6. More(within, fewer)
  <2> HIDE DEF More
  <2> QED BY <1>4, <1>5
<1> QED BY <1>6

\* What holds from inside of some nodes is in every set that has what follows from it.
LEMMA HeldIsLeast ==
    ASSUME NEW g, Whole(g), Counted(g), Monotone(g), NEW at, NEW X, Follows(g, X, at) \subseteq X,
           NEW within \in SUBSET Ids, NEW asked \in SUBSET Ids
    PROVE  Held(g, at, within, asked) \subseteq X
<1> DEFINE S == {n \in Nat : \A s \in SUBSET Ids :
                    Cardinality(Ids \ s) < n => Held(g, at, s, asked) \subseteq X}
<1>0. Conditional(g) = {}
  BY DEF Monotone
<1>1. 0 \in S
  <2>1. \A s \in SUBSET Ids : ~ (Cardinality(Ids \ s) < 0)
    <3>1. \A s \in SUBSET Ids : Cardinality(Ids \ s) \in Nat
      BY Room
    <3> QED BY <3>1
  <2> QED BY <2>1
<1>2. ASSUME NEW n \in S PROVE n + 1 \in S
  <2> SUFFICES ASSUME NEW s \in SUBSET Ids, Cardinality(Ids \ s) < n + 1, NEW x \in Held(g, at, s, asked)
               PROVE  x \in X
    OBVIOUS
  <2> DEFINE inside == s \cup {x}
             Y == Held(g, at, inside, asked)
  <2>1. x \in Ids
    BY DEF Held
  <2>2. x \notin s /\ x \in Follows(g, Y, at)
    BY <1>0, <2>1, HeldIsWhatFollows
  <2>3. inside \in SUBSET Ids /\ s \subseteq inside /\ inside # s
    BY <2>1, <2>2
  <2>4. Cardinality(Ids \ inside) < n
    <3>1. /\ Cardinality(Ids \ inside) \in Nat /\ Cardinality(Ids \ s) \in Nat /\ n \in Nat
          /\ Cardinality(Ids \ inside) < Cardinality(Ids \ s)
      <4> HIDE DEF inside
      <4> QED BY <2>3, Room
    <3> HIDE DEF inside
    <3> QED BY <3>1
  <2>5. Y \subseteq X
    <3> HIDE DEF inside
    <3> QED BY <2>3, <2>4
  <2> HIDE DEF S, Y
  <2>6. x \in Follows(g, X, at)
    BY <2>2, <2>5, MoreFollowsFromMore
  <2> QED BY <2>6
<1>3. S = Nat
  <2>1. S \in SUBSET Nat
    OBVIOUS
  <2> HIDE DEF S
  <2> QED BY <1>1, <1>2, <2>1, Induction
<1>4. Cardinality(Ids \ within) + 1 \in S /\ Cardinality(Ids \ within) < Cardinality(Ids \ within) + 1
  <2>1. Cardinality(Ids \ within) \in Nat
    BY Room
  <2> HIDE DEF S
  <2> QED BY <1>3, <2>1
<1> QED BY <1>4

\* What does not hold is not missed by being inside of it.
LEMMA NotHeldIsNotMissed ==
    ASSUME NEW g, Whole(g), Counted(g), Monotone(g), NEW at,
           NEW within \in SUBSET Ids, NEW asked \in SUBSET Ids,
           NEW out \in Ids, out \notin Held(g, at, within, asked)
    PROVE  Held(g, at, within, asked) \subseteq Held(g, at, within \cup {out}, asked)
<1> DEFINE Spared(s) == out \notin Held(g, at, s, asked)
                           => Held(g, at, s, asked) \subseteq Held(g, at, s \cup {out}, asked)
           S == {n \in Nat : \A s \in SUBSET Ids : Cardinality(Ids \ s) < n => Spared(s)}
<1>0. Conditional(g) = {}
  BY DEF Monotone
<1>1. 0 \in S
  <2>1. \A s \in SUBSET Ids : ~ (Cardinality(Ids \ s) < 0)
    <3>1. \A s \in SUBSET Ids : Cardinality(Ids \ s) \in Nat
      BY Room
    <3> QED BY <3>1
  <2> HIDE DEF Spared
  <2> QED BY <2>1
<1>2. ASSUME NEW n \in S PROVE n + 1 \in S
  <2> SUFFICES ASSUME NEW s \in SUBSET Ids, Cardinality(Ids \ s) < n + 1
               PROVE  Spared(s)
    <3> HIDE DEF Spared
    <3> QED OBVIOUS
  <2> SUFFICES ASSUME out \notin Held(g, at, s, asked), NEW x \in Held(g, at, s, asked)
               PROVE  x \in Held(g, at, s \cup {out}, asked)
    OBVIOUS
  <2> DEFINE inside == s \cup {x}
             also == s \cup {out}
             both == also \cup {x}
             Y == Held(g, at, inside, asked)
             Z == Held(g, at, both, asked)
  <2>1. x \in Ids /\ x # out
    BY DEF Held
  <2>2. x \notin s /\ x \in Follows(g, Y, at)
    BY <1>0, <2>1, HeldIsWhatFollows
  <2>3. /\ inside \in SUBSET Ids /\ also \in SUBSET Ids /\ both \in SUBSET Ids
        /\ s \subseteq inside /\ inside # s /\ s \in SUBSET inside /\ inside \cup {out} = both
    BY <2>1, <2>2
  <2>4. Cardinality(Ids \ inside) < n
    <3>1. /\ Cardinality(Ids \ inside) \in Nat /\ Cardinality(Ids \ s) \in Nat /\ n \in Nat
          /\ Cardinality(Ids \ inside) < Cardinality(Ids \ s)
      <4> HIDE DEF inside, also, both, Spared
      <4> QED BY <2>3, Room
    <3> HIDE DEF inside
    <3> QED BY <3>1
  <2>5. out \notin Y
    <3>1. Y \subseteq Held(g, at, s, asked)
      <4> HIDE DEF inside
      <4> QED BY <2>3, FewerInsideHoldsMore
    <3> QED BY <3>1
  <2>6. Y \subseteq Z
    <3>1. Spared(inside)
      <4> HIDE DEF Spared, inside, also, both
      <4> QED BY <2>3, <2>4
    <3> QED BY <2>3, <2>5, <3>1
  <2> HIDE DEF S, Y, Z
  <2>7. x \in Follows(g, Z, at)
    BY <2>2, <2>6, MoreFollowsFromMore
  <2>8. x \notin also
    BY <2>1, <2>2
  <2> HIDE DEF also, both
  <2>9. x \in Held(g, at, also, asked)
    BY <1>0, <2>1, <2>3, <2>7, <2>8, HeldIsWhatFollows DEF Z, both
  <2> QED BY <2>9 DEF also
<1>3. S = Nat
  <2>1. S \in SUBSET Nat
    OBVIOUS
  <2> HIDE DEF S
  <2> QED BY <1>1, <1>2, <2>1, Induction
<1>4. Cardinality(Ids \ within) + 1 \in S /\ Cardinality(Ids \ within) < Cardinality(Ids \ within) + 1
  <2>1. Cardinality(Ids \ within) \in Nat
    BY Room
  <2> HIDE DEF S
  <2> QED BY <1>3, <2>1
<1>5. Spared(within)
  <2> HIDE DEF Spared
  <2> QED BY <1>4
<1> QED BY <1>5

\* What is satisfied, as SatisfiedIsGrounded has it.
AllHeld(g, at) == {id \in DOMAIN g.nodes : Satisfied(g, id, at)}

Grounded(g, at) ==
    /\ Follows(g, AllHeld(g, at), at) = AllHeld(g, at)
    /\ \A X \in SUBSET DOMAIN g.nodes : Follows(g, X, at) = X => AllHeld(g, at) \subseteq X

LEMMA MonotoneIsGrounded ==
    ASSUME NEW g, Whole(g), Counted(g), Monotone(g), NEW at
    PROVE  Grounded(g, at)
<1> DEFINE nothing == {}
           H(s) == Held(g, at, s, nothing)
<1>0. Conditional(g) = {} /\ nothing \in SUBSET Ids
  BY DEF Monotone
<1> HIDE DEF nothing
<1>1. AllHeld(g, at) = H(nothing)
  <2>1. ASSUME NEW id \in Ids PROVE id \in H(nothing) <=> Satisfied(g, id, at)
    <3> DEFINE self == {id}
    <3>1. self \in SUBSET Ids /\ nothing \in SUBSET nothing
      OBVIOUS
    <3> HIDE DEF self
    <3>2. Held(g, at, nothing, self) = H(nothing)
      <4>1. Held(g, at, nothing, self) \subseteq Held(g, at, nothing, nothing)
        BY <1>0, <3>1, FewerInsideHoldsMore
      <4>2. Held(g, at, nothing, nothing) \subseteq Held(g, at, nothing, self)
        BY <1>0, <3>1, FewerInsideHoldsMore
      <4> QED BY <4>1, <4>2
    <3>3. id \in Held(g, at, nothing, self) <=> Satisfied(g, id, at)
      BY DEF Held, Satisfied, Evaluate, self, nothing
    <3> QED BY <3>2, <3>3
  <2>2. \A id \in H(nothing) : id \in DOMAIN g.nodes
    <3> SUFFICES ASSUME NEW id \in H(nothing) PROVE id \in DOMAIN g.nodes
      OBVIOUS
    <3>1. id \in Ids
      BY DEF Held
    <3> QED BY <1>0, <3>1, HeldIsWhatFollows DEF Follows
  <2>3. DOMAIN g.nodes \subseteq Ids
    BY DEF Whole
  <2> HIDE DEF H
  <2> QED BY <2>1, <2>2, <2>3 DEF AllHeld
<1>2. \A id \in Ids : id \in H(nothing) <=> id \in Follows(g, H(nothing \cup {id}), at)
  <2>1. \A id \in Ids : id \notin nothing
    BY DEF nothing
  <2> QED BY <1>0, <2>1, HeldIsWhatFollows
<1>3. \A id \in Ids : H(nothing \cup {id}) \subseteq H(nothing)
  <2> TAKE id \in Ids
  <2> DEFINE self == nothing \cup {id}
  <2>1. self \in SUBSET Ids /\ nothing \in SUBSET self
    BY <1>0
  <2> HIDE DEF self
  <2>2. H(self) \subseteq H(nothing)
    BY <1>0, <2>1, FewerInsideHoldsMore
  <2> QED BY <2>2 DEF self
<1>4. \A id \in Ids : id \notin H(nothing) => H(nothing) \subseteq H(nothing \cup {id})
  BY <1>0, NotHeldIsNotMissed
<1>5. H(nothing) \subseteq Ids
  BY DEF Held
<1>6. Follows(g, H(nothing), at) \subseteq Ids
  BY DEF Follows, Whole
<1> DEFINE Y == H(nothing)
<1>7. Follows(g, Y, at) = Y
  <2> HIDE DEF H
  <2>1. ASSUME NEW id \in Y PROVE id \in Follows(g, Y, at)
    <3> DEFINE Z == H(nothing \cup {id})
    <3>1. id \in Follows(g, Z, at) /\ Z \subseteq Y
      BY <1>2, <1>3, <1>5
    <3> HIDE DEF Y, Z
    <3> QED BY <3>1, MoreFollowsFromMore
  <2>2. ASSUME NEW id \in Follows(g, Y, at), id \notin Y PROVE FALSE
    <3> DEFINE Z == H(nothing \cup {id})
    <3>1. Y \subseteq Z
      BY <1>4, <1>6, <2>2
    <3>2. id \in Follows(g, Z, at)
      <4> HIDE DEF Y, Z
      <4> QED BY <2>2, <3>1, MoreFollowsFromMore
    <3> QED BY <1>2, <1>6, <2>2, <3>2
  <2> QED BY <2>1, <2>2
<1>8. ASSUME NEW X \in SUBSET DOMAIN g.nodes, Follows(g, X, at) = X PROVE Y \subseteq X
  BY <1>0, <1>8, HeldIsLeast
<1> QED BY <1>1, <1>7, <1>8 DEF Grounded

-----------------------------------------------------------------------------
(* What holds, where nothing depends on itself. *)

LEMMA ClosingIsLeast ==
    ASSUME NEW g, Whole(g), NEW found \in SUBSET Ids, NEW C, found \subseteq C,
           \A x \in C : Depends(g, x) \subseteq C
    PROVE  Closing(g)[found] \subseteq C
<1> DEFINE More(s) == s \cup (UNION {Depends(g, x) : x \in s})
           Within(s) == s \subseteq C => Closing(g)[s] \subseteq C
           S == {n \in Nat : \A s \in SUBSET Ids : Cardinality(Ids \ s) < n => Within(s)}
<1>1. 0 \in S
  <2>1. \A s \in SUBSET Ids : ~ (Cardinality(Ids \ s) < 0)
    <3>1. \A s \in SUBSET Ids : Cardinality(Ids \ s) \in Nat
      BY Room
    <3> QED BY <3>1
  <2> HIDE DEF Within
  <2> QED BY <2>1
<1>2. ASSUME NEW n \in S PROVE n + 1 \in S
  <2> SUFFICES ASSUME NEW s \in SUBSET Ids, Cardinality(Ids \ s) < n + 1
               PROVE  Within(s)
    <3> HIDE DEF Within
    <3> QED OBVIOUS
  <2>1. More(s) \in SUBSET Ids /\ Closing(g)[s] = IF More(s) = s THEN s ELSE Closing(g)[More(s)]
    BY ClosingUnfolds
  <2>2. CASE More(s) = s
    BY <2>1, <2>2
  <2>3. CASE More(s) # s
    <3>1. s \subseteq More(s) /\ (s \subseteq C => More(s) \subseteq C)
      OBVIOUS
    <3>2. Cardinality(Ids \ More(s)) < n
      <4>1. /\ Cardinality(Ids \ More(s)) \in Nat /\ Cardinality(Ids \ s) \in Nat /\ n \in Nat
            /\ Cardinality(Ids \ More(s)) < Cardinality(Ids \ s)
        <5> HIDE DEF More, Within
        <5> QED BY <2>1, <2>3, <3>1, Room
      <4> HIDE DEF More
      <4> QED BY <4>1
    <3>3. Within(More(s))
      <4> HIDE DEF Within, More
      <4> QED BY <2>1, <3>2
    <3> HIDE DEF More
    <3> QED BY <2>1, <2>3, <3>1, <3>3
  <2> QED BY <2>2, <2>3
<1>3. S = Nat
  <2>1. S \in SUBSET Nat
    OBVIOUS
  <2> HIDE DEF S
  <2> QED BY <1>1, <1>2, <2>1, Induction
<1>4. Cardinality(Ids \ found) + 1 \in S /\ Cardinality(Ids \ found) < Cardinality(Ids \ found) + 1
  <2>1. Cardinality(Ids \ found) \in Nat
    BY Room
  <2> HIDE DEF S
  <2> QED BY <1>3, <2>1
<1>5. Within(found)
  <2> HIDE DEF Within
  <2> QED BY <1>4
<1> QED BY <1>5

\* What an id depends on depends on less.
LEMMA BasisGoesDown ==
    ASSUME NEW g, Whole(g), Acyclic(g), NEW id
    PROVE  /\ Cardinality(Basis(g, id)) \in Nat
           /\ \A x \in Depends(g, id) : Cardinality(Basis(g, x)) < Cardinality(Basis(g, id))
<1>1. \A x : Depends(g, x) \in SUBSET Ids /\ Depends(g, x) \subseteq DOMAIN g.nodes
  BY DEF Depends, Whole
<1>2. ASSUME NEW x PROVE Basis(g, x) \in SUBSET Ids
  BY <1>1, ClosingIsLeast DEF Basis
<1>3. ASSUME NEW x PROVE IsFiniteSet(Basis(g, x)) /\ Cardinality(Basis(g, x)) \in Nat
  BY <1>2, FS_Subset, FS_CardinalityType, CorpusAssumption
<1>4. ASSUME NEW x \in Depends(g, id)
      PROVE  Cardinality(Basis(g, x)) < Cardinality(Basis(g, id))
  <2> DEFINE mine == Basis(g, id)
             its == Basis(g, x)
  <2>1. x \in mine /\ \A y \in mine : Depends(g, y) \subseteq mine
    BY <1>4, BasisIsClosed
  <2>2. its \in SUBSET mine
    <3> HIDE DEF mine
    <3>1. Depends(g, x) \subseteq mine
      BY <2>1
    <3> QED BY <1>1, <2>1, <3>1, ClosingIsLeast DEF Basis
  <2>3. x \notin its
    BY <1>1, <1>4 DEF Acyclic
  <2>4. IsFiniteSet(mine) /\ Cardinality(mine) \in Nat /\ Cardinality(its) \in Nat
    BY <1>3
  <2> HIDE DEF mine, its
  <2>5. Cardinality(its) <= Cardinality(mine) /\ Cardinality(its) # Cardinality(mine)
    BY <2>1, <2>2, <2>3, <2>4, FS_Subset
  <2>6. Cardinality(its) < Cardinality(mine)
    BY <2>4, <2>5
  <2> QED BY <2>6 DEF mine, its
<1> QED BY <1>3, <1>4

\* X agrees with the evaluator on what follows from it.
Agrees(g, at, X) ==
    \A id \in DOMAIN g.nodes :
        Evaluate(g, id, at) = Holding(Follows(g, X, at), id) => (id \in X <=> id \in Follows(g, X, at))

\* A call comes from inside of what depends on its id, and of what asked about it.
Amid(g, id, seen, asked) ==
    /\ \A s \in seen : id \in Basis(g, s)
    /\ \A a \in asked : id \in {a} \cup Basis(g, a)

LEMMA CallsAreAmid ==
    ASSUME NEW g, Whole(g), Acyclic(g), NEW id \in DOMAIN g.nodes, NEW seen, NEW asked,
           Amid(g, id, seen, asked)
    PROVE  /\ id \notin seen
           /\ \A x \in Depends(g, id) : /\ x \in DOMAIN g.nodes /\ x \notin asked
                                        /\ Amid(g, x, seen \cup {id}, asked)
                                        /\ Amid(g, x, {}, asked \cup {x})
<1>1. id \notin seen
  BY DEF Amid, Acyclic
<1>2. ASSUME NEW x \in Depends(g, id)
      PROVE  /\ x \in DOMAIN g.nodes /\ x \notin asked
             /\ Amid(g, x, seen \cup {id}, asked)
             /\ Amid(g, x, {}, asked \cup {x})
  <2>1. \A y : id \in {y} \cup Basis(g, y) => x \in Basis(g, y)
    BY BasisIsClosed
  <2>2. x \in DOMAIN g.nodes /\ x \notin Basis(g, x)
    BY DEF Depends, Acyclic
  <2> QED BY <2>1, <2>2 DEF Amid
<1> QED BY <1>1, <1>2

\* Every call then says what follows, and the same from wherever it is made.
LEMMA AcyclicCallsSay ==
    ASSUME NEW g, Whole(g), Counted(g), Acyclic(g), NEW at, NEW X, Agrees(g, at, X),
           NEW id \in DOMAIN g.nodes
    PROVE  Evaluate(g, id, at) = Holding(X, id) /\ (id \in X <=> id \in Follows(g, X, at))
<1> DEFINE of == Outcome(g, at)
           Y == Follows(g, X, at)
           Says(x) == \A seen, asked \in SUBSET Ids :
                           Amid(g, x, seen, asked) => of[<<x, seen, asked>>] = Holding(X, x)
           Right(x) == Says(x) /\ (x \in X <=> x \in Y)
           S == {n \in Nat : \A x \in DOMAIN g.nodes : Cardinality(Basis(g, x)) < n => Right(x)}
<1>0. /\ \A x \in Ids, seen \in SUBSET Ids, asked \in SUBSET Ids :
            of[<<x, seen, asked>>] = AnswerOf(g, at, of, x, seen, asked)
      /\ \A x : Cardinality(Basis(g, x)) \in Nat
  BY OutcomeUnfolds, BasisGoesDown
<1>a. \A x : Evaluate(g, x, at) = of[<<x, {}, {x}>>]
  BY DEF Evaluate
<1> HIDE DEF of
<1>1. 0 \in S
  <2>1. \A x : ~ (Cardinality(Basis(g, x)) < 0)
    BY <1>0
  <2> HIDE DEF Right
  <2> QED BY <2>1
<1>2. ASSUME NEW n \in S PROVE n + 1 \in S
  <2> SUFFICES ASSUME NEW x \in DOMAIN g.nodes, Cardinality(Basis(g, x)) < n + 1
               PROVE  Right(x)
    <3> HIDE DEF Right
    <3> QED OBVIOUS
  <2>0. x \in Ids
    BY DEF Whole
  <2>1. ASSUME NEW y \in Depends(g, x) PROVE y \in Ids /\ Says(y)
    <3>1. Cardinality(Basis(g, y)) < Cardinality(Basis(g, x)) /\ y \in DOMAIN g.nodes
      BY BasisGoesDown DEF Depends
    <3>2. Cardinality(Basis(g, y)) < n
      BY <1>0, <3>1
    <3>3. Right(y)
      <4> HIDE DEF Right
      <4> QED BY <3>1, <3>2
    <3> QED BY <3>1, <3>3 DEF Whole
  <2> HIDE DEF S, Y
  <2>2. ASSUME NEW seen \in SUBSET Ids, NEW asked \in SUBSET Ids, Amid(g, x, seen, asked)
        PROVE  of[<<x, seen, asked>>] = Holding(Y, x)
    <3>1. /\ x \notin seen
          /\ \A y \in Depends(g, x) : /\ y \notin asked
                                      /\ Amid(g, y, seen \cup {x}, asked)
                                      /\ Amid(g, y, {}, asked \cup {y})
      BY <2>2, CallsAreAmid
    <3>2. ASSUME NEW y \in Depends(g, x)
          PROVE  /\ AskWithin(of, y, seen \cup {x}, asked) = Holding(X, y)
                 /\ AskAfresh(of, y, seen \cup {x}, asked) = Holding(X, y)
      <4> DEFINE inside == seen \cup {x}
                 about == asked \cup {y}
                 nothing == {}
      <4>1. inside \in SUBSET Ids /\ about \in SUBSET Ids /\ nothing \in SUBSET Ids
        BY <2>0, <2>1
      <4>2. Amid(g, y, inside, asked) /\ Amid(g, y, nothing, about) /\ y \notin asked
        BY <3>1
      <4> HIDE DEF inside, about, nothing
      <4>3. of[<<y, inside, asked>>] = Holding(X, y) /\ of[<<y, nothing, about>>] = Holding(X, y)
        BY <2>1, <4>1, <4>2
      <4> QED BY <4>2, <4>3 DEF AskWithin, AskAfresh, inside, about, nothing
    <3>3. ASSUME NEW e \in StatedMembers(g, x, at), g.nodes[x].kind = "group", e.while # None
          PROVE  e.while \in Depends(g, x)
      <4>1. e \in g.incident /\ e.type = "member_of" /\ e.dst = x /\ e.while \in DOMAIN g.nodes
        BY <3>3 DEF StatedMembers, Whole
      <4> QED BY <3>3, <4>1 DEF Depends
    <3>4. CallsSay(g, at, of, x, seen, asked, X)
      BY <3>2, <3>3 DEF CallsSay
    <3>5. AnswerOf(g, at, of, x, seen, asked) = Holding(Follows(g, X, at), x)
      BY <3>1, <3>4, AnswerIsWhatFollows
    <3> QED BY <1>0, <2>0, <3>5 DEF Y
  <2>3. Evaluate(g, x, at) = Holding(Y, x)
    <3> DEFINE self == {x}
               nothing == {}
    <3>1. self \in SUBSET Ids /\ nothing \in SUBSET Ids /\ Amid(g, x, nothing, self)
      BY <2>0 DEF Amid
    <3>2. Evaluate(g, x, at) = of[<<x, nothing, self>>]
      BY <1>a
    <3> HIDE DEF self, nothing
    <3> QED BY <2>2, <3>1, <3>2
  <2>4. x \in X <=> x \in Y
    BY <2>3 DEF Agrees, Y
  <2>5. Holding(Y, x) = Holding(X, x)
    BY <2>4 DEF Holding
  <2> QED BY <2>2, <2>4, <2>5
<1>3. S = Nat
  <2>1. S \in SUBSET Nat
    OBVIOUS
  <2> HIDE DEF S
  <2> QED BY <1>1, <1>2, <2>1, Induction
<1>4. Right(id)
  <2>1. Cardinality(Basis(g, id)) + 1 \in S /\ Cardinality(Basis(g, id)) < Cardinality(Basis(g, id)) + 1
    <3> HIDE DEF S
    <3> QED BY <1>0, <1>3
  <2> HIDE DEF Right
  <2> QED BY <2>1
<1>5. Evaluate(g, id, at) = Holding(X, id)
  <2> DEFINE self == {id}
             nothing == {}
  <2>1. self \in SUBSET Ids /\ nothing \in SUBSET Ids /\ Amid(g, id, nothing, self)
    BY DEF Amid, Whole
  <2>2. Evaluate(g, id, at) = of[<<id, nothing, self>>]
    BY <1>a
  <2> HIDE DEF self, nothing
  <2> QED BY <1>4, <2>1, <2>2
<1> QED BY <1>4, <1>5 DEF Y

LEMMA AcyclicIsGrounded ==
    ASSUME NEW g, Whole(g), Counted(g), Acyclic(g), NEW at
    PROVE  Grounded(g, at)
<1> DEFINE held == AllHeld(g, at)
<1>1. \A id \in DOMAIN g.nodes : id \in held <=> Evaluate(g, id, at) = "holds"
  BY DEF AllHeld, Satisfied
<1>2. held \subseteq DOMAIN g.nodes /\ \A X : Follows(g, X, at) \subseteq DOMAIN g.nodes
  BY DEF AllHeld, Follows
<1> HIDE DEF held
<1>3. Agrees(g, at, held)
  BY <1>1 DEF Agrees, Holding
<1>4. Follows(g, held, at) = held
  <2>1. \A id \in DOMAIN g.nodes : id \in held <=> id \in Follows(g, held, at)
    BY <1>3, AcyclicCallsSay
  <2> QED BY <1>2, <2>1
<1>5. ASSUME NEW X \in SUBSET DOMAIN g.nodes, Follows(g, X, at) = X PROVE held \subseteq X
  <2>1. Agrees(g, at, X)
    BY <1>5 DEF Agrees
  <2>2. \A id \in DOMAIN g.nodes : Evaluate(g, id, at) = Holding(X, id)
    BY <2>1, AcyclicCallsSay
  <2> QED BY <1>1, <1>2, <2>2 DEF Holding
<1> QED BY <1>4, <1>5 DEF Grounded, held

\* "A cycle cannot establish its own truth" (satisfied): what holds is the least of
\* the sets that follow from themselves, for groups that only ask for more on any
\* cycles, and for groups of every kind where nothing depends on itself.
THEOREM NothingHoldsByItself == Spec => []SatisfiedIsGrounded
<1>1. ASSUME IInv PROVE SatisfiedIsGrounded
  <2>1. Whole(graph) /\ Counted(graph)
    BY <1>1, GraphIsWhole, GraphIsCounted
  <2>2. Monotone(graph) \/ Acyclic(graph) => \A at \in Dates : Grounded(graph, at)
    BY <2>1, MonotoneIsGrounded, AcyclicIsGrounded
  <2> QED BY <2>2 DEF SatisfiedIsGrounded, Grounded, AllHeld
<1> QED BY <1>1, Invariance, PTL

-----------------------------------------------------------------------------
(* Rows. *)

\* These are just the ids of S, each once.
Enumerates(row, S) == row \in Seq(S) /\ IsInjective(row) /\ ToSet(row) = S

LEMMA EmptyLists == Enumerates(<< >>, {})
BY DEF Enumerates, IsInjective, ToSet

LEMMA InsertedElements ==
    ASSUME NEW S, NEW row \in Seq(S), NEW id \in S, NEW k \in 1..(Len(row) + 1)
    PROVE  /\ Len(InsertAt(row, k, id)) = Len(row) + 1
           /\ InsertAt(row, k, id) \in Seq(S)
           /\ \A i \in 1..(Len(row) + 1) :
                 InsertAt(row, k, id)[i] = IF i < k THEN row[i] ELSE IF i = k THEN id ELSE row[i - 1]
<1> DEFINE before == SubSeq(row, 1, k - 1)
           after == SubSeq(row, k, Len(row))
           n == Len(row)
<1>0. n \in Nat /\ k \in Nat /\ k >= 1 /\ k <= n + 1
  OBVIOUS
<1>1. /\ before \in Seq(S) /\ Len(before) = k - 1
      /\ \A i \in 1..(k - 1) : before[i] = row[i]
  OBVIOUS
<1>2. /\ after \in Seq(S) /\ Len(after) = n - k + 1
      /\ \A i \in 1..(n - k + 1) : after[i] = row[k + i - 1]
  OBVIOUS
<1>3. InsertAt(row, k, id) = (before \o <<id>>) \o after
  BY DEF InsertAt
<1> HIDE DEF before, after
<1> DEFINE front == before \o <<id>>
<1>4. /\ front \in Seq(S) /\ Len(front) = k /\ front[k] = id
      /\ \A i \in 1..(k - 1) : front[i] = row[i]
  BY <1>0, <1>1
<1> HIDE DEF front
<1>5. /\ front \o after \in Seq(S) /\ Len(front \o after) = n + 1
      /\ \A i \in 1..(n + 1) : (front \o after)[i] = IF i <= k THEN front[i] ELSE after[i - k]
  <2>1. Len(front) + Len(after) = n + 1
    BY <1>0, <1>2, <1>4
  <2>2. /\ front \o after \in Seq(S) /\ Len(front \o after) = Len(front) + Len(after)
        /\ \A i \in 1..(Len(front) + Len(after)) :
              (front \o after)[i] = IF i <= Len(front) THEN front[i] ELSE after[i - Len(front)]
    BY <1>2, <1>4, ConcatProperties
  <2>3. Len(front) = k
    BY <1>4
  <2> HIDE DEF n
  <2> QED BY <2>1, <2>2, <2>3, Zenon
<1> HIDE DEF n
<1>6. ASSUME NEW i \in 1..(n + 1)
      PROVE  (front \o after)[i] = IF i < k THEN row[i] ELSE IF i = k THEN id ELSE row[i - 1]
  <2>1. CASE i <= k
    BY <1>0, <1>4, <1>5, <2>1
  <2>2. CASE i > k
    <3>1. i - k \in 1..(n - k + 1) /\ k + (i - k) - 1 = i - 1
      BY <1>0, <2>2
    <3> QED BY <1>0, <1>2, <1>5, <2>2, <3>1
  <2>3. i <= k \/ i > k
    BY <1>0
  <2> QED BY <2>1, <2>2, <2>3, Zenon
<1> QED BY <1>3, <1>5, <1>6 DEF front, n

LEMMA InsertLists ==
    ASSUME NEW S, NEW row, Enumerates(row, S), NEW id, id \notin S, NEW k \in 1..(Len(row) + 1)
    PROVE  Enumerates(InsertAt(row, k, id), S \cup {id})
<1> DEFINE T == S \cup {id}
           n == Len(row)
           new == InsertAt(row, k, id)
<1>0. /\ row \in Seq(S) /\ row \in Seq(T) /\ n \in Nat /\ DOMAIN row = 1..n /\ id \in T
      /\ k \in Nat /\ 1 <= k /\ k <= n + 1
  BY DEF Enumerates
<1>1. /\ Len(new) = n + 1 /\ new \in Seq(T)
      /\ \A i \in 1..(n + 1) : new[i] = IF i < k THEN row[i] ELSE IF i = k THEN id ELSE row[i - 1]
  <2> HIDE DEF T
  <2> QED BY <1>0, InsertedElements
<1>2. DOMAIN new = 1..(n + 1)
  BY <1>1
<1> HIDE DEF new
<1> DEFINE old(i) == IF i < k THEN i ELSE i - 1
<1>3. \A i \in 1..(n + 1) : i # k => old(i) \in 1..n /\ new[i] = row[old(i)]
  BY <1>0, <1>1
<1>4. \A i \in 1..n : row[i] \in S /\ row[i] # id
  BY <1>0
<1>5. \A i, j \in 1..n : row[i] = row[j] => i = j
  BY <1>0 DEF Enumerates, IsInjective
<1>6. ASSUME NEW i \in 1..(n + 1), NEW j \in 1..(n + 1), new[i] = new[j] PROVE i = j
  <2>1. CASE i = k \/ j = k
    BY <1>1, <1>3, <1>4, <1>6, <2>1
  <2>2. CASE i # k /\ j # k
    <3>1. old(i) = old(j)
      BY <1>3, <1>5, <1>6, <2>2
    <3> QED BY <1>0, <2>2, <3>1
  <2> QED BY <2>1, <2>2
<1>7. T \subseteq ToSet(new)
  <2>1. id \in ToSet(new)
    BY <1>0, <1>1, <1>2 DEF ToSet
  <2>2. ASSUME NEW x \in S PROVE x \in ToSet(new)
    <3>1. PICK i \in 1..n : row[i] = x
      BY <1>0 DEF Enumerates, ToSet
    <3>2. CASE i < k
      <4>1. i \in 1..(n + 1) /\ new[i] = x
        BY <1>0, <1>1, <3>1, <3>2
      <4> QED BY <1>2, <4>1 DEF ToSet
    <3>3. CASE ~ (i < k)
      <4>1. i + 1 \in 1..(n + 1) /\ ~ (i + 1 < k) /\ i + 1 # k /\ (i + 1) - 1 = i
        BY <1>0, <3>3
      <4>2. new[i + 1] = x
        BY <1>1, <3>1, <4>1
      <4> QED BY <1>2, <4>1, <4>2 DEF ToSet
    <3> QED BY <3>2, <3>3
  <2> QED BY <2>1, <2>2
<1>8. ToSet(new) \subseteq T
  <2>1. \A i \in 1..(n + 1) : new[i] \in T
    BY <1>1, <1>2
  <2> QED BY <1>2, <2>1 DEF ToSet
<1> HIDE DEF T
<1>9. ToSet(new) = T
  BY <1>7, <1>8
<1>10. IsInjective(new)
  BY <1>2, <1>6 DEF IsInjective
<1> QED BY <1>1, <1>9, <1>10 DEF Enumerates, new, T

\* How many of the positions of a row anything is true of.
LEMMA CountedPositions ==
    ASSUME NEW n \in Nat, NEW T \in SUBSET (1..n)
    PROVE  1 + Cardinality(T) \in 1..(n + 1)
<1>1. IsFiniteSet(1..n) /\ Cardinality(1..n) = n
  BY FS_Interval
<1>2. IsFiniteSet(T) /\ Cardinality(T) <= Cardinality(1..n)
  BY <1>1, FS_Subset
<1>3. Cardinality(T) \in Nat
  BY <1>2, FS_CardinalityType
<1> QED BY <1>1, <1>2, <1>3

LEMMA PlacedLists ==
    ASSUME NEW g, NEW S, NEW row, Enumerates(row, S), NEW id, id \notin S, NEW keys, NEW at
    PROVE  Enumerates(Placed(g, row, id, keys, at), S \cup {id})
<1> DEFINE before == {i \in DOMAIN row :
                        \E says \in {[n \in DOMAIN keys |-> KeyOrder(g, keys[n], row[i], id, at)]} :
                            Precedes(says, row[i], id)}
<1>1. Placed(g, row, id, keys, at) = InsertAt(row, 1 + Cardinality(before), id)
  BY DEF Placed
<1>2. Len(row) \in Nat /\ before \in SUBSET (1..Len(row))
  BY DEF Enumerates
<1> HIDE DEF before
<1>3. 1 + Cardinality(before) \in 1..(Len(row) + 1)
  BY <1>2, CountedPositions
<1> QED BY <1>1, <1>3, InsertLists

\* From v on, each of N steps goes from a value to a value.
Steps(N, V, v, G) == N \in Nat /\ v \in V /\ G \in [1..N -> [V -> V]]
Stepped(f, N, v, G) == \A n \in 0..N : f[n] = IF n = 0 THEN v ELSE G[n][f[n - 1]]

LEMMA Counting ==
    ASSUME NEW N, NEW V, NEW v, NEW G, Steps(N, V, v, G)
    PROVE  \E f \in [0..N -> V] : Stepped(f, N, v, G)
<1> USE DEF Steps, Stepped
<1> DEFINE Upto(f, m) == \A n \in 0..N : n <= m => f[n] = IF n = 0 THEN v ELSE G[n][f[n - 1]]
           S == {m \in Nat : \E f \in [0..N -> V] : Upto(f, m)}
<1>1. 0 \in S
  <2> DEFINE f == [n \in 0..N |-> v]
  <2>1. f \in [0..N -> V] /\ Upto(f, 0)
    OBVIOUS
  <2> QED BY <2>1
<1>2. ASSUME NEW m \in S PROVE m + 1 \in S
  <2>1. m \in Nat /\ m + 1 \in Nat
    OBVIOUS
  <2>2. PICK f \in [0..N -> V] : Upto(f, m)
    OBVIOUS
  <2> DEFINE h == [n \in 0..N |-> IF n = m + 1 THEN G[n][f[n - 1]] ELSE f[n]]
  <2>3. \A n \in 0..N : n # 0 => n \in 1..N /\ n - 1 \in 0..N /\ n - 1 # n
    OBVIOUS
  <2>4. h \in [0..N -> V]
    <3> SUFFICES ASSUME NEW n \in 0..N, n = m + 1 PROVE G[n][f[n - 1]] \in V
      OBVIOUS
    <3>1. n # 0
      BY <2>1
    <3>2. G[n] \in [V -> V] /\ f[n - 1] \in V
      BY <2>3, <3>1
    <3> QED BY <3>2
  <2>5. \A n \in 0..N : /\ n = m + 1 => h[n] = G[n][f[n - 1]]
                        /\ n # m + 1 => h[n] = f[n]
    OBVIOUS
  <2> HIDE DEF h
  <2>6. ASSUME NEW n \in 0..N, n <= m + 1 PROVE h[n] = IF n = 0 THEN v ELSE G[n][h[n - 1]]
    <3>1. CASE n = m + 1
      <4>1. n # 0 /\ n - 1 \in 0..N /\ n - 1 # m + 1
        BY <2>1, <2>3, <3>1
      <4>2. h[n - 1] = f[n - 1]
        BY <2>5, <4>1
      <4> QED BY <2>5, <3>1, <4>1, <4>2
    <3>2. CASE n # m + 1
      <4>1. n <= m
        BY <2>1, <2>6, <3>2
      <4>2. h[n] = f[n] /\ f[n] = IF n = 0 THEN v ELSE G[n][f[n - 1]]
        BY <2>2, <2>5, <3>2, <4>1
      <4>3. n # 0 => n - 1 \in 0..N /\ n - 1 # m + 1
        BY <2>1, <2>3, <4>1
      <4> QED BY <2>5, <4>2, <4>3
    <3> QED BY <3>1, <3>2
  <2>7. Upto(h, m + 1)
    BY <2>6
  <2> HIDE DEF Upto
  <2> QED BY <2>1, <2>4, <2>7
<1>3. S = Nat
  <2>1. S \in SUBSET Nat
    OBVIOUS
  <2> HIDE DEF S
  <2> QED BY <1>1, <1>2, <2>1, Induction
<1>4. PICK f \in [0..N -> V] : Upto(f, N)
  BY <1>3
<1>5. \A n \in 0..N : n <= N
  OBVIOUS
<1> QED BY <1>4, <1>5

\* A row that is built id by id, each put somewhere in what there is so far.
Building(ids, Put) ==
    Put \in [1..Len(Alphabet) -> [Seq(Ids) -> Seq(Ids)]]

LEMMA BuiltRowLists ==
    ASSUME NEW ids, NEW row, NEW Put \in [1..Len(Alphabet) -> [Seq(Ids) -> Seq(Ids)]],
           \A n \in 0..Len(Alphabet) :
              row[n] = IF n = 0 THEN << >>
                       ELSE IF Alphabet[n] \in ids THEN Put[n][row[n - 1]] ELSE row[n - 1],
           \A n \in 1..Len(Alphabet) : \A S \in SUBSET Ids : \A r \in Seq(Ids) :
              Enumerates(r, S) /\ Alphabet[n] \notin S => Enumerates(Put[n][r], S \cup {Alphabet[n]})
    PROVE  Enumerates(row[Len(Alphabet)], ids \cap Ids)
<1> DEFINE N == Len(Alphabet)
           Sofar(n) == {Alphabet[i] : i \in 1..n} \cap ids
           S == {n \in Nat : n <= N => Enumerates(row[n], Sofar(n))}
<1>0. /\ N \in Nat /\ DOMAIN Alphabet = 1..N /\ \A i \in 1..N : Alphabet[i] \in Ids
      /\ \A i, j \in 1..N : Alphabet[i] = Alphabet[j] => i = j
      /\ Ids = {Alphabet[i] : i \in 1..N}
  BY AlphabetAssumption DEF IsInjective, ToSet
<1>1. 0 \in S
  <2>1. Sofar(0) = {}
    OBVIOUS
  <2>2. row[0] = << >>
    BY <1>0
  <2> QED BY <2>1, <2>2, EmptyLists
<1>2. ASSUME NEW n \in S PROVE n + 1 \in S
  <2> SUFFICES ASSUME n + 1 <= N PROVE Enumerates(row[n + 1], Sofar(n + 1))
    BY DEF S
  <2> DEFINE x == Alphabet[n + 1]
  <2>1. n \in Nat /\ n + 1 \in 1..N /\ n + 1 \in 0..N /\ n + 1 # 0 /\ (n + 1) - 1 = n /\ n <= N
    BY <1>0
  <2>2. Enumerates(row[n], Sofar(n))
    BY <2>1 DEF S
  <2>3. row[n + 1] = IF x \in ids THEN Put[n + 1][row[n]] ELSE row[n]
    BY <2>1
  <2>4. Sofar(n + 1) = IF x \in ids THEN Sofar(n) \cup {x} ELSE Sofar(n)
    <3>1. \A i : i \in 1..(n + 1) <=> i \in 1..n \/ i = n + 1
      BY <2>1
    <3> QED BY <3>1
  <2>5. x \notin Sofar(n)
    <3>1. \A i \in 1..n : i \in 1..N /\ i # n + 1
      BY <1>0, <2>1
    <3> QED BY <1>0, <2>1, <3>1
  <2>6. Sofar(n) \in SUBSET Ids
    BY <1>0, <2>1
  <2>7. row[n] \in Seq(Ids)
    <3> HIDE DEF Sofar
    <3>1. row[n] \in Seq(Sofar(n))
      BY <2>2 DEF Enumerates
    <3> QED BY <2>6, <3>1
  <2> HIDE DEF Sofar, x, N
  <2>8. CASE x \in ids
    <3>1. Enumerates(Put[n + 1][row[n]], Sofar(n) \cup {x})
      BY <2>1, <2>2, <2>5, <2>6, <2>7 DEF x, N
    <3> QED BY <2>3, <2>4, <2>8, <3>1
  <2>9. CASE x \notin ids
    BY <2>2, <2>3, <2>4, <2>9
  <2> QED BY <2>8, <2>9
<1>3. S = Nat
  <2>1. S \in SUBSET Nat
    OBVIOUS
  <2> HIDE DEF S
  <2> QED BY <1>1, <1>2, <2>1, Induction
<1>4. Enumerates(row[N], Sofar(N))
  <2>1. \A n \in S : n <= N => Enumerates(row[n], Sofar(n))
    OBVIOUS
  <2>2. N \in Nat /\ N <= N
    BY <1>0
  <2> HIDE DEF S, N, Sofar
  <2> QED BY <1>3, <2>1, <2>2
<1>5. Sofar(N) = ids \cap Ids
  BY <1>0
<1> QED BY <1>4, <1>5

LEMMA InOrderLists == ASSUME NEW ids PROVE Enumerates(InOrder(ids), ids \cap Ids)
<1> DEFINE N == Len(Alphabet)
           V == Seq(Ids)
           Put == [n \in 1..N |-> [r \in V |-> Append(r, Alphabet[n])]]
           G == [n \in 1..N |-> [r \in V |-> IF Alphabet[n] \in ids THEN Put[n][r] ELSE r]]
           Body(f, n) == IF n = 0 THEN << >>
                         ELSE IF Alphabet[n] \in ids THEN Append(f[n - 1], Alphabet[n]) ELSE f[n - 1]
           Is(f) == f = [n \in 0..N |-> Body(f, n)]
           listed == CHOOSE f : Is(f)
<1>0. N \in Nat /\ \A n \in 1..N : Alphabet[n] \in Ids
  BY AlphabetAssumption
<1>1. Put \in [1..N -> [V -> V]]
  BY <1>0
<1>2. \A n \in 1..N : \A r \in V : Put[n][r] = Append(r, Alphabet[n])
  OBVIOUS
<1> HIDE DEF Put
<1>3. G \in [1..N -> [V -> V]] /\ << >> \in V
  <2>1. \A n \in 1..N : \A r \in V : Put[n][r] \in V
    BY <1>1
  <2>2. << >> \in V
    OBVIOUS
  <2> HIDE DEF V, N
  <2> QED BY <2>1, <2>2
<1>4. \A n \in 1..N : \A r \in V : G[n][r] = IF Alphabet[n] \in ids THEN Put[n][r] ELSE r
  OBVIOUS
<1> HIDE DEF G
<1>5. PICK f \in [0..N -> V] : \A n \in 0..N : f[n] = IF n = 0 THEN << >> ELSE G[n][f[n - 1]]
  <2> DEFINE v == << >>
  <2>1. Steps(N, V, v, G)
    BY <1>0, <1>3 DEF Steps
  <2> HIDE DEF V, N, v
  <2>2. \E f \in [0..N -> V] : Stepped(f, N, v, G)
    BY <2>1, Counting
  <2> QED BY <2>2 DEF v, Stepped
<1>6. \A n \in 0..N : n # 0 => n \in 1..N /\ n - 1 \in 0..N
  BY <1>0
<1>7. Is(f)
  <2>1. \A n \in 0..N : f[n] = Body(f, n)
    <3> TAKE n \in 0..N
    <3>1. CASE n = 0
      <4>1. f[n] = << >>
        BY <1>5, <3>1, Zenon
      <4>2. Body(f, n) = << >>
        BY <3>1, Zenon
      <4> QED BY <4>1, <4>2
    <3>2. CASE n # 0
      <4>1. n \in 1..N /\ f[n - 1] \in V
        BY <1>6, <3>2
      <4> HIDE DEF V, N
      <4>2. G[n][f[n - 1]] = IF Alphabet[n] \in ids THEN Put[n][f[n - 1]] ELSE f[n - 1]
        BY <1>4, <4>1
      <4>3. Put[n][f[n - 1]] = Append(f[n - 1], Alphabet[n])
        BY <1>2, <4>1
      <4>4. f[n] = G[n][f[n - 1]]
        BY <1>5, <3>2
      <4> QED BY <3>2, <4>2, <4>3, <4>4
    <3> QED BY <3>1, <3>2
  <2> HIDE DEF Body
  <2> QED BY <2>1
<1>8. Is(listed)
  <2> HIDE DEF Is
  <2> QED BY <1>7
<1>9. InOrder(ids) = listed[N]
  BY DEF InOrder
<1> HIDE DEF listed
<1>10. \A n \in 0..N : listed[n] \in V
  <2> DEFINE S == {n \in Nat : n <= N => listed[n] \in V}
  <2>0. \A n \in 0..N : listed[n] = Body(listed, n)
    <3> HIDE DEF Body
    <3> QED BY <1>8
  <2>1. 0 \in S
    <3>1. 0 \in 0..N
      BY <1>0
    <3>2. listed[0] = << >>
      BY <2>0, <3>1
    <3> QED BY <3>2
  <2>2. ASSUME NEW n \in S PROVE n + 1 \in S
    <3> SUFFICES ASSUME n + 1 <= N PROVE listed[n + 1] \in V
      OBVIOUS
    <3>1. n \in Nat /\ n + 1 \in 0..N /\ n + 1 \in 1..N /\ n + 1 # 0 /\ (n + 1) - 1 = n /\ listed[n] \in V
      BY <1>0
    <3>2. listed[n + 1] = IF Alphabet[n + 1] \in ids THEN Append(listed[n], Alphabet[n + 1]) ELSE listed[n]
      BY <2>0, <3>1
    <3> QED BY <1>0, <3>1, <3>2
  <2>3. S = Nat
    <3>1. S \in SUBSET Nat
      OBVIOUS
    <3> HIDE DEF S
    <3> QED BY <2>1, <2>2, <3>1, Induction
  <2> QED BY <1>0, <2>3
<1>11. \A n \in 0..N : listed[n] = IF n = 0 THEN << >>
                       ELSE IF Alphabet[n] \in ids THEN Put[n][listed[n - 1]] ELSE listed[n - 1]
  <2> TAKE n \in 0..N
  <2>1. listed[n] = Body(listed, n)
    <3> HIDE DEF Body
    <3> QED BY <1>8
  <2>2. CASE n = 0
    BY <2>1, <2>2
  <2>3. CASE n # 0
    <3>1. n \in 1..N /\ listed[n - 1] \in V
      BY <1>6, <1>10, <2>3
    <3>2. Put[n][listed[n - 1]] = Append(listed[n - 1], Alphabet[n])
      <4> HIDE DEF V, N
      <4> QED BY <1>2, <3>1
    <3> QED BY <2>1, <2>3, <3>2
  <2> QED BY <2>2, <2>3
<1>12. \A n \in 1..N : \A S \in SUBSET Ids : \A r \in V :
          Enumerates(r, S) /\ Alphabet[n] \notin S => Enumerates(Put[n][r], S \cup {Alphabet[n]})
  <2> SUFFICES ASSUME NEW n \in 1..N, NEW S \in SUBSET Ids, NEW r \in V, Enumerates(r, S), Alphabet[n] \notin S
               PROVE  Enumerates(Append(r, Alphabet[n]), S \cup {Alphabet[n]})
    <3> HIDE DEF V, N
    <3> QED BY <1>2
  <2> DEFINE x == Alphabet[n]
             k == Len(r) + 1
             new == InsertAt(r, k, x)
  <2>1. r \in Seq(S) /\ Len(r) \in Nat /\ k \in 1..(Len(r) + 1) /\ x \notin S
    BY DEF Enumerates
  <2>2. Enumerates(new, S \cup {x})
    <3> HIDE DEF k, x
    <3> QED BY <2>1, InsertLists
  <2>3. new = Append(r, x)
    <3> DEFINE T == S \cup {x}
    <3>1. /\ r \in Seq(T) /\ x \in T
      BY <2>1
    <3>2. /\ Len(new) = Len(r) + 1 /\ new \in Seq(T)
          /\ \A i \in 1..(Len(r) + 1) : new[i] = IF i < k THEN r[i] ELSE IF i = k THEN x ELSE r[i - 1]
      <4> HIDE DEF T, k, x
      <4> QED BY <2>1, <3>1, InsertedElements
    <3> HIDE DEF T, x, new
    <3>3. Append(r, x) \in Seq(T) /\ Len(Append(r, x)) = Len(r) + 1
      BY <3>1
    <3>4. \A i \in 1..(Len(r) + 1) : new[i] = Append(r, x)[i]
      BY <2>1, <3>1, <3>2
    <3> QED BY <3>2, <3>3, <3>4, SeqEqual
  <2> QED BY <2>2, <2>3
<1> HIDE DEF listed
<1> QED BY <1>1, <1>9, <1>11, <1>12, BuiltRowLists

LEMMA PlacedIsARow ==
    ASSUME NEW g, NEW row \in Seq(Ids), NEW id \in Ids, NEW keys, NEW at
    PROVE  Placed(g, row, id, keys, at) \in Seq(Ids)
<1> DEFINE before == {i \in DOMAIN row :
                        \E says \in {[n \in DOMAIN keys |-> KeyOrder(g, keys[n], row[i], id, at)]} :
                            Precedes(says, row[i], id)}
<1>1. Placed(g, row, id, keys, at) = InsertAt(row, 1 + Cardinality(before), id)
  BY DEF Placed
<1>2. Len(row) \in Nat /\ before \in SUBSET (1..Len(row))
  OBVIOUS
<1> HIDE DEF before
<1>3. 1 + Cardinality(before) \in 1..(Len(row) + 1)
  BY <1>2, CountedPositions
<1> QED BY <1>1, <1>3, InsertedElements

LEMMA SortedLists ==
    ASSUME NEW g, NEW ids, NEW keys, NEW at
    PROVE  Enumerates(Sorted(g, ids, keys, at), ids \cap Ids)
<1> DEFINE N == Len(Alphabet)
           V == Seq(Ids)
           Put == [n \in 1..N |-> [r \in V |-> Placed(g, r, Alphabet[n], keys, at)]]
           G == [n \in 1..N |-> [r \in V |-> IF Alphabet[n] \in ids THEN Put[n][r] ELSE r]]
           Body(f, n) == IF n = 0 THEN << >>
                         ELSE IF Alphabet[n] \in ids THEN Placed(g, f[n - 1], Alphabet[n], keys, at) ELSE f[n - 1]
           Is(f) == f = [n \in 0..N |-> Body(f, n)]
           sorted == CHOOSE f : Is(f)
<1>0. N \in Nat /\ \A n \in 1..N : Alphabet[n] \in Ids
  BY AlphabetAssumption
<1>1. Put \in [1..N -> [V -> V]]
  BY <1>0, PlacedIsARow
<1>2. \A n \in 1..N : \A r \in V : Put[n][r] = Placed(g, r, Alphabet[n], keys, at)
  OBVIOUS
<1> HIDE DEF Put
<1>3. G \in [1..N -> [V -> V]] /\ << >> \in V
  <2>1. \A n \in 1..N : \A r \in V : Put[n][r] \in V
    BY <1>1
  <2>2. << >> \in V
    OBVIOUS
  <2> HIDE DEF V, N
  <2> QED BY <2>1, <2>2
<1>4. \A n \in 1..N : \A r \in V : G[n][r] = IF Alphabet[n] \in ids THEN Put[n][r] ELSE r
  OBVIOUS
<1> HIDE DEF G
<1>5. PICK f \in [0..N -> V] : \A n \in 0..N : f[n] = IF n = 0 THEN << >> ELSE G[n][f[n - 1]]
  <2> DEFINE v == << >>
  <2>1. Steps(N, V, v, G)
    BY <1>0, <1>3 DEF Steps
  <2> HIDE DEF V, N, v
  <2>2. \E f \in [0..N -> V] : Stepped(f, N, v, G)
    BY <2>1, Counting
  <2> QED BY <2>2 DEF v, Stepped
<1>6. \A n \in 0..N : n # 0 => n \in 1..N /\ n - 1 \in 0..N
  BY <1>0
<1>7. Is(f)
  <2>1. \A n \in 0..N : f[n] = Body(f, n)
    <3> TAKE n \in 0..N
    <3>1. CASE n = 0
      <4>1. f[n] = << >>
        BY <1>5, <3>1, Zenon
      <4>2. Body(f, n) = << >>
        BY <3>1, Zenon
      <4> QED BY <4>1, <4>2
    <3>2. CASE n # 0
      <4>1. n \in 1..N /\ f[n - 1] \in V
        BY <1>6, <3>2
      <4> HIDE DEF V, N
      <4>2. G[n][f[n - 1]] = IF Alphabet[n] \in ids THEN Put[n][f[n - 1]] ELSE f[n - 1]
        BY <1>4, <4>1
      <4>3. Put[n][f[n - 1]] = Placed(g, f[n - 1], Alphabet[n], keys, at)
        BY <1>2, <4>1
      <4>4. f[n] = G[n][f[n - 1]]
        BY <1>5, <3>2
      <4> QED BY <3>2, <4>2, <4>3, <4>4
    <3> QED BY <3>1, <3>2
  <2> HIDE DEF Body
  <2> QED BY <2>1
<1>8. Is(sorted)
  <2> HIDE DEF Is
  <2> QED BY <1>7
<1>9. Sorted(g, ids, keys, at) = sorted[N]
  BY DEF Sorted
<1> HIDE DEF sorted
<1>10. \A n \in 0..N : sorted[n] \in V
  <2> DEFINE S == {n \in Nat : n <= N => sorted[n] \in V}
  <2>0. \A n \in 0..N : sorted[n] = Body(sorted, n)
    <3> HIDE DEF Body
    <3> QED BY <1>8
  <2>1. 0 \in S
    <3>1. 0 \in 0..N
      BY <1>0
    <3>2. sorted[0] = << >>
      BY <2>0, <3>1
    <3> QED BY <3>2
  <2>2. ASSUME NEW n \in S PROVE n + 1 \in S
    <3> SUFFICES ASSUME n + 1 <= N PROVE sorted[n + 1] \in V
      OBVIOUS
    <3>1. n \in Nat /\ n + 1 \in 0..N /\ n + 1 \in 1..N /\ n + 1 # 0 /\ (n + 1) - 1 = n /\ sorted[n] \in V
      BY <1>0
    <3>2. sorted[n + 1] = IF Alphabet[n + 1] \in ids THEN Placed(g, sorted[n], Alphabet[n + 1], keys, at) ELSE sorted[n]
      BY <2>0, <3>1
    <3> QED BY <1>0, <3>1, <3>2, PlacedIsARow
  <2>3. S = Nat
    <3>1. S \in SUBSET Nat
      OBVIOUS
    <3> HIDE DEF S
    <3> QED BY <2>1, <2>2, <3>1, Induction
  <2> QED BY <1>0, <2>3
<1>11. \A n \in 0..N : sorted[n] = IF n = 0 THEN << >>
                       ELSE IF Alphabet[n] \in ids THEN Put[n][sorted[n - 1]] ELSE sorted[n - 1]
  <2> TAKE n \in 0..N
  <2>1. sorted[n] = Body(sorted, n)
    <3> HIDE DEF Body
    <3> QED BY <1>8
  <2>2. CASE n = 0
    BY <2>1, <2>2
  <2>3. CASE n # 0
    <3>1. n \in 1..N /\ sorted[n - 1] \in V
      BY <1>6, <1>10, <2>3
    <3>2. Put[n][sorted[n - 1]] = Placed(g, sorted[n - 1], Alphabet[n], keys, at)
      <4> HIDE DEF V, N
      <4> QED BY <1>2, <3>1
    <3> QED BY <2>1, <2>3, <3>2
  <2> QED BY <2>2, <2>3
<1>12. \A n \in 1..N : \A S \in SUBSET Ids : \A r \in V :
          Enumerates(r, S) /\ Alphabet[n] \notin S => Enumerates(Put[n][r], S \cup {Alphabet[n]})
  <2> SUFFICES ASSUME NEW n \in 1..N, NEW S \in SUBSET Ids, NEW r \in V, Enumerates(r, S), Alphabet[n] \notin S
               PROVE  Enumerates(Placed(g, r, Alphabet[n], keys, at), S \cup {Alphabet[n]})
    <3> HIDE DEF V, N
    <3> QED BY <1>2
  <2> QED BY PlacedLists
<1> HIDE DEF sorted
<1> QED BY <1>1, <1>9, <1>11, <1>12, BuiltRowLists

\* A pattern as it is parsed: an atom more than it has hops.
IsPattern(p) ==
    /\ Len(p.hops) \in Nat
    /\ DOMAIN p.atoms = 1..(Len(p.hops) + 1)
    /\ \A i \in 1..Len(p.hops) : p.hops[i].dir \in {-1, 0, 1}

\* The orders a finite set may be listed in.
LEMMA OrdersList ==
    ASSUME NEW S, IsFiniteSet(S)
    PROVE  /\ \A row \in SetToSeqs(S) : Enumerates(row, S)
           /\ \A row : Enumerates(row, S) => row \in SetToSeqs(S)
<1> DEFINE n == Cardinality(S)
<1>1. n \in Nat /\ IsFiniteSet(1..n) /\ Cardinality(1..n) = n
  BY FS_CardinalityType, FS_Interval
<1>2. ASSUME NEW row \in SetToSeqs(S) PROVE Enumerates(row, S)
  <2>1. row \in [1..n -> S] /\ \A i, j \in 1..n : i # j => row[i] # row[j]
    BY <1>2 DEF SetToSeqs
  <2> HIDE DEF n
  <2>2. row \in Injection(1..n, S)
    BY <2>1 DEF Injection, IsInjective
  <2>3. row \in Surjection(1..n, S)
    BY <1>1, <2>2, FS_Injection DEF n
  <2>4. \A y \in S : \E i \in 1..n : row[i] = y
    BY <2>3 DEF Surjection
  <2>5. ToSet(row) = S
    BY <2>1, <2>4 DEF ToSet
  <2>6. row \in Seq(S)
    BY <1>1, <2>1, SeqDef
  <2> QED BY <2>1, <2>5, <2>6 DEF Enumerates, IsInjective
<1>3. ASSUME NEW row, Enumerates(row, S) PROVE row \in SetToSeqs(S)
  <2> DEFINE m == Len(row)
  <2>1. m \in Nat /\ row \in [1..m -> S] /\ \A y \in S : \E i \in 1..m : row[i] = y
    BY <1>3 DEF Enumerates, ToSet
  <2>2. \A i, j \in 1..m : i # j => row[i] # row[j]
    BY <1>3, <2>1 DEF Enumerates, IsInjective
  <2> HIDE DEF m
  <2>3. row \in Bijection(1..m, S)
    BY <2>1, <2>2 DEF Bijection, Injection, Surjection, IsInjective
  <2>4. ExistsBijection(1..m, S)
    BY <2>3 DEF ExistsBijection
  <2>5. Cardinality(S) = m
    BY <2>1, <2>4, FS_CountingElements
  <2> QED BY <2>1, <2>2, <2>5 DEF SetToSeqs
<1> QED BY <1>2, <1>3

-----------------------------------------------------------------------------
(* Queries and their parts. *)

\* Where a query is first listed; a call inside of names weighs less the more there are.
Index(q) == CHOOSE n \in DOMAIN Syntax : Syntax[n] = q /\ \A m \in DOMAIN Syntax : Syntax[m] = q => n <= m
Weight(q, inside) == Cardinality(Named \ inside) * (Len(Syntax) + 1) + Index(q)
Heaviest == Cardinality(Named) * (Len(Syntax) + 1) + Len(Syntax) + 1

LEMMA IndexIsFirst ==
    ASSUME NEW q \in Forms
    PROVE  /\ Index(q) \in 1..Len(Syntax) /\ Syntax[Index(q)] = q
           /\ \A m \in DOMAIN Syntax : Syntax[m] = q => Index(q) <= m
<1> DEFINE T == {n \in DOMAIN Syntax : Syntax[n] = q}
<1>1. Len(Syntax) \in Nat /\ DOMAIN Syntax = 1..Len(Syntax)
  BY SyntaxAssumption
<1>2. T # {} /\ T \in SUBSET Nat
  BY <1>1 DEF Forms, ToSet
<1>3. \E n \in T : \A m \in T : n <= m
  <2> HIDE DEF T
  <2> QED BY <1>2, Smallest
<1>4. \E n \in DOMAIN Syntax : Syntax[n] = q /\ \A m \in DOMAIN Syntax : Syntax[m] = q => n <= m
  BY <1>3
<1> HIDE DEF T
<1>5. /\ Index(q) \in DOMAIN Syntax /\ Syntax[Index(q)] = q
      /\ \A m \in DOMAIN Syntax : Syntax[m] = q => Index(q) <= m
  BY <1>4 DEF Index
<1> QED BY <1>1, <1>5

LEMMA PartsAreEarlier ==
    ASSUME NEW q \in Forms, NEW x \in Parts(q)
    PROVE  x \in Forms /\ Index(x) < Index(q)
<1>1. Index(q) \in 1..Len(Syntax) /\ Syntax[Index(q)] = q /\ Len(Syntax) \in Nat /\ DOMAIN Syntax = 1..Len(Syntax)
  BY IndexIsFirst, SyntaxAssumption
<1>2. Parts(q) \subseteq {Syntax[m] : m \in 1..(Index(q) - 1)}
  BY <1>1, SyntaxAssumption
<1>3. PICK m \in 1..(Index(q) - 1) : x = Syntax[m]
  BY <1>2
<1>4. m \in DOMAIN Syntax /\ m < Index(q) /\ m \in Nat
  BY <1>1
<1>5. x \in Forms
  BY <1>3, <1>4 DEF Forms, ToSet
<1>6. Index(x) <= m /\ Index(x) \in Nat
  BY <1>3, <1>4, <1>5, IndexIsFirst
<1> QED BY <1>1, <1>4, <1>5, <1>6

LEMMA Times == \A a, b, m \in Nat : a <= b => a * m <= b * m
<1> SUFFICES ASSUME NEW a \in Nat, NEW b \in Nat, NEW m \in Nat, a <= b PROVE a * m <= b * m
  OBVIOUS
<1> DEFINE d == b - a
<1>1. d \in Nat /\ b = a + d
  OBVIOUS
<1> HIDE DEF d
<1>2. (a + d) * m = a * m + d * m
  BY <1>1
<1>3. d * m \in Nat /\ a * m \in Nat
  BY <1>1
<1> QED BY <1>1, <1>2, <1>3

LEMMA Weights ==
    ASSUME NEW q \in Forms, NEW inside \in SUBSET Named
    PROVE  /\ Weight(q, inside) \in Nat /\ Weight(q, inside) < Heaviest /\ Heaviest \in Nat
           /\ \A x \in Parts(q) : x \in Forms /\ Weight(x, inside) < Weight(q, inside)
           /\ \A name \in Named \ inside :
                 Library[name] \in Forms /\ Weight(Library[name], inside \cup {name}) < Weight(q, inside)
<1> DEFINE L == Len(Syntax)
           rest == Named \ inside
           c == Cardinality(rest)
           all == Cardinality(Named)
<1>1. L \in Nat /\ IsFiniteSet(Named) /\ \A name \in Named : Library[name] \in Forms
  BY SyntaxAssumption
<1>2. IsFiniteSet(rest) /\ c \in Nat /\ all \in Nat /\ c <= all
  <2>1. rest \in SUBSET Named
    OBVIOUS
  <2> HIDE DEF rest
  <2>2. IsFiniteSet(rest) /\ Cardinality(rest) <= Cardinality(Named)
    BY <1>1, <2>1, FS_Subset
  <2> QED BY <1>1, <2>2, FS_CardinalityType
<1>3. \A x \in Forms : Index(x) \in 1..L
  BY IndexIsFirst
<1>4. \A m, i \in Nat : i <= L /\ m <= all => m * (L + 1) + i \in Nat /\ m * (L + 1) + i < all * (L + 1) + L + 1
  <2> SUFFICES ASSUME NEW m \in Nat, NEW i \in Nat, i <= L, m <= all
               PROVE  m * (L + 1) + i \in Nat /\ m * (L + 1) + i < all * (L + 1) + L + 1
    OBVIOUS
  <2> HIDE DEF L, all
  <2>1. L + 1 \in Nat /\ m * (L + 1) <= all * (L + 1)
    BY <1>1, <1>2, Times
  <2>2. m * (L + 1) \in Nat /\ all * (L + 1) \in Nat
    BY <1>1, <1>2
  <2> QED BY <1>1, <2>1, <2>2
<1>5. /\ Weight(q, inside) = c * (L + 1) + Index(q)
      /\ Heaviest = all * (L + 1) + L + 1
      /\ c * (L + 1) \in Nat /\ all * (L + 1) \in Nat
  BY <1>1, <1>2 DEF Weight, Heaviest
<1>6. ASSUME NEW x \in Parts(q) PROVE x \in Forms /\ Weight(x, inside) < Weight(q, inside)
  <2>1. x \in Forms /\ Index(x) < Index(q) /\ Index(x) \in Nat /\ Index(q) \in Nat
    BY <1>1, <1>3, PartsAreEarlier
  <2>2. Weight(x, inside) = c * (L + 1) + Index(x)
    BY DEF Weight
  <2> HIDE DEF c, L, all
  <2> QED BY <1>5, <2>1, <2>2
<1>7. ASSUME NEW name \in rest
      PROVE  Library[name] \in Forms /\ Weight(Library[name], inside \cup {name}) < Weight(q, inside)
  <2> DEFINE x == Library[name]
             less == Named \ (inside \cup {name})
  <2>1. x \in Forms
    BY <1>1
  <2>2. less = rest \ {name}
    OBVIOUS
  <2> HIDE DEF less, rest, x
  <2>3. Cardinality(less) = c - 1
    BY <1>2, <1>7, <2>2, FS_RemoveElement
  <2>4. Weight(x, inside \cup {name}) = Cardinality(less) * (L + 1) + Index(x)
    BY DEF Weight, less
  <2>5. c - 1 \in Nat
    <3>1. c # 0
      BY <1>2, <1>7, FS_EmptySet
    <3> QED BY <1>2, <3>1
  <2>6. (c - 1) * (L + 1) + (L + 1) = c * (L + 1)
    <3>1. \A a, b \in Nat : a * b + b = (a + 1) * b
      OBVIOUS
    <3> DEFINE a == c - 1
    <3>2. a \in Nat /\ a + 1 = c /\ L + 1 \in Nat
      BY <1>1, <1>2, <2>5
    <3> HIDE DEF a, c, L
    <3>3. a * (L + 1) + (L + 1) = (a + 1) * (L + 1)
      BY <3>1, <3>2
    <3> QED BY <3>2, <3>3 DEF a
  <2>7. Index(x) \in 1..L /\ Index(q) \in 1..L /\ (c - 1) * (L + 1) \in Nat
    BY <1>1, <1>3, <2>1, <2>5
  <2> HIDE DEF c, L, all
  <2> QED BY <1>1, <1>5, <2>1, <2>3, <2>4, <2>6, <2>7 DEF x
<1>8. Weight(q, inside) \in Nat /\ Weight(q, inside) < Heaviest /\ Heaviest \in Nat
  <2>1. Index(q) \in Nat /\ Index(q) <= L
    BY <1>1, <1>3
  <2> HIDE DEF c, L, all
  <2> QED BY <1>1, <1>2, <1>4, <1>5, <2>1
<1> QED BY <1>6, <1>7, <1>8

\* What is asked of a query, inside of some names, at an inherited date.
Asked == Forms \X (SUBSET Named) \X Scopes

Weighed == [c \in Asked |-> Weight(c[1], c[2])]

LEMMA AskedAreWeighed ==
    Weighed \in [Asked -> Nat] /\ Heaviest \in Nat /\ \A c \in Asked : Weighed[c] < Heaviest
<1>1. \A c \in Asked : c[1] \in Forms /\ c[2] \in SUBSET Named
  BY DEF Asked
<1>2. \A c \in Asked : Weight(c[1], c[2]) \in Nat /\ Weight(c[1], c[2]) < Heaviest
  BY <1>1, Weights
<1>3. Heaviest \in Nat
  <2>1. IsFiniteSet(Named) /\ Len(Syntax) \in Nat
    BY SyntaxAssumption
  <2>2. Cardinality(Named) \in Nat
    BY <2>1, FS_CardinalityType
  <2> QED BY <2>1, <2>2 DEF Heaviest
<1> QED BY <1>2, <1>3 DEF Weighed

LEMMA OwnIsAScope ==
    ASSUME NEW q \in Forms, q.op \in {"pattern", "scoped"}, NEW scope \in Scopes
    PROVE  Own(q, scope) \in Scopes
<1>1. PICK n \in DOMAIN Syntax : q = Syntax[n]
  BY DEF Forms, ToSet
<1>2. q.at \in Scopes
  BY <1>1, SyntaxAssumption
<1> QED BY <1>2 DEF Own

LEMMA FormsAreQueries ==
    ASSUME NEW q \in Forms
    PROVE  /\ q.op \in {"pattern", "scoped", "ref", "not", "inter", "union"}
           /\ q.op \in {"pattern", "scoped"} => q.at \in Scopes
           /\ q.op = "pattern" => IsPattern(q)
           /\ q.op = "inter" => q.terms # {}
<1>1. PICK n \in DOMAIN Syntax : q = Syntax[n]
  BY DEF Forms, ToSet
<1>2. /\ q.op \in {"pattern", "scoped", "ref", "not", "inter", "union"}
      /\ q.op \in {"pattern", "scoped"} => q.at \in Scopes
      /\ q.op = "pattern" => /\ q.hops \in Seq([type : STRING, dir : {-1, 0, 1}, star : BOOLEAN])
                             /\ DOMAIN q.atoms = 1..(Len(q.hops) + 1)
      /\ q.op = "inter" => q.terms # {}
  BY <1>1, SyntaxAssumption
<1>3. q.op = "pattern" => IsPattern(q)
  <2> SUFFICES ASSUME q.op = "pattern" PROVE IsPattern(q)
    OBVIOUS
  <2> DEFINE hops == q.hops
             H == [type : STRING, dir : {-1, 0, 1}, star : BOOLEAN]
  <2>1. hops \in Seq(H)
    BY <1>2
  <2>2. \A h \in H : h.dir \in {-1, 0, 1}
    OBVIOUS
  <2> HIDE DEF hops, H
  <2>3. Len(hops) \in Nat /\ \A i \in 1..Len(hops) : hops[i] \in H
    BY <2>1
  <2>4. \A i \in 1..Len(hops) : hops[i].dir \in {-1, 0, 1}
    BY <2>2, <2>3
  <2> QED BY <1>2, <2>3, <2>4 DEF IsPattern, hops
<1> QED BY <1>2, <1>3

-----------------------------------------------------------------------------
(* The evaluator of queries. *)

\* The answers to the parts of a set operation, and the rows they come to.
PartAnswers(of, q, inside, scope) ==
    {CHOOSE a \in of[<<x, inside, scope>>] : TRUE : x \in Parts(q)}
Rows(terms) == {ToSet(a.ids) : a \in terms}
AllAnswered(terms) == \A a \in terms : a.ok
NotAnswers(g, terms) ==
    IF ~ AllAnswered(terms) THEN {Refused}
    ELSE {Answer(s) : s \in SetToSeqs(DOMAIN g.nodes \ (UNION Rows(terms)))}
InterRows(g, terms) ==
    IF Rows(terms) = {} THEN {} ELSE {id \in DOMAIN g.nodes : \A r \in Rows(terms) : id \in r}
InterAnswers(g, terms) == IF ~ AllAnswered(terms) THEN {Refused} ELSE {Answer(InOrder(InterRows(g, terms)))}
UnionAnswers(terms) == IF ~ AllAnswered(terms) THEN {Refused} ELSE {Answer(InOrder(UNION Rows(terms)))}

LEMMA PatternIs ==
    ASSUME NEW g, NEW now, NEW of, NEW q, NEW inside, NEW scope, q.op = "pattern"
    PROVE  AnswersOf(g, now, of, q, inside, scope)
              = {PatternAnswer(g, q, Own(q, scope), AsOf(Own(q, scope), now), now)}
BY DEF AnswersOf

LEMMA ScopedIs ==
    ASSUME NEW g, NEW now, NEW of, NEW q, NEW inside, NEW scope, q.op = "scoped"
    PROVE  AnswersOf(g, now, of, q, inside, scope)
              = {IF a.ok /\ q.sort # << >>
                 THEN Answer(Sorted(g, ToSet(a.ids), q.sort, AsOf(Own(q, scope), now))) ELSE a :
                    a \in of[<<q.x, inside, Own(q, scope)>>]}
BY DEF AnswersOf

LEMMA RefIs ==
    ASSUME NEW g, NEW now, NEW of, NEW q, NEW inside, NEW scope, q.op = "ref"
    PROVE  AnswersOf(g, now, of, q, inside, scope)
              = IF q.name \in Named \ inside
                THEN of[<<Library[q.name], inside \cup {q.name}, scope>>] ELSE {Refused}
<1>1. AnswersOf(g, now, of, q, inside, scope)
         = IF q.name \in inside \/ q.name \notin Named THEN {Refused}
           ELSE of[<<Library[q.name], inside \cup {q.name}, scope>>]
  BY DEF AnswersOf
<1> QED BY <1>1

LEMMA NotIs ==
    ASSUME NEW g, NEW now, NEW of, NEW q, NEW inside, NEW scope, q.op = "not"
    PROVE  AnswersOf(g, now, of, q, inside, scope) = NotAnswers(g, PartAnswers(of, q, inside, scope))
<1> DEFINE result(x) == CHOOSE a \in of[<<x, inside, scope>>] : TRUE
           terms == {result(x) : x \in Parts(q)}
           rows == {ToSet(a.ids) : a \in terms}
<1>1. AnswersOf(g, now, of, q, inside, scope)
         = IF \E a \in terms : ~ a.ok THEN {Refused}
           ELSE {Answer(s) : s \in SetToSeqs(DOMAIN g.nodes \ (UNION rows))}
  BY DEF AnswersOf
<1>2. terms = PartAnswers(of, q, inside, scope)
  BY DEF PartAnswers
<1> HIDE DEF terms
<1>3. rows = Rows(terms) /\ ((\E a \in terms : ~ a.ok) <=> ~ AllAnswered(terms))
  BY DEF Rows, AllAnswered
<1> HIDE DEF rows
<1> QED BY <1>1, <1>2, <1>3 DEF NotAnswers

LEMMA InterIs ==
    ASSUME NEW g, NEW now, NEW of, NEW q, NEW inside, NEW scope, q.op = "inter"
    PROVE  AnswersOf(g, now, of, q, inside, scope) = InterAnswers(g, PartAnswers(of, q, inside, scope))
<1> DEFINE result(x) == CHOOSE a \in of[<<x, inside, scope>>] : TRUE
           terms == {result(x) : x \in Parts(q)}
           rows == {ToSet(a.ids) : a \in terms}
<1>1. AnswersOf(g, now, of, q, inside, scope)
         = IF \E a \in terms : ~ a.ok THEN {Refused}
           ELSE {Answer(InOrder(IF rows = {} THEN {}
                             ELSE {id \in DOMAIN g.nodes : \A r \in rows : id \in r}))}
  BY DEF AnswersOf
<1>2. terms = PartAnswers(of, q, inside, scope)
  BY DEF PartAnswers
<1> HIDE DEF terms
<1>3. rows = Rows(terms) /\ ((\E a \in terms : ~ a.ok) <=> ~ AllAnswered(terms))
  BY DEF Rows, AllAnswered
<1> HIDE DEF rows
<1> QED BY <1>1, <1>2, <1>3 DEF InterAnswers, InterRows

LEMMA UnionIs ==
    ASSUME NEW g, NEW now, NEW of, NEW q, NEW inside, NEW scope, q.op = "union"
    PROVE  AnswersOf(g, now, of, q, inside, scope) = UnionAnswers(PartAnswers(of, q, inside, scope))
<1> DEFINE result(x) == CHOOSE a \in of[<<x, inside, scope>>] : TRUE
           terms == {result(x) : x \in Parts(q)}
           rows == {ToSet(a.ids) : a \in terms}
<1>1. AnswersOf(g, now, of, q, inside, scope)
         = IF \E a \in terms : ~ a.ok THEN {Refused}
           ELSE {Answer(InOrder(UNION rows))}
  BY DEF AnswersOf
<1>2. terms = PartAnswers(of, q, inside, scope)
  BY DEF PartAnswers
<1> HIDE DEF terms
<1>3. rows = Rows(terms) /\ ((\E a \in terms : ~ a.ok) <=> ~ AllAnswered(terms))
  BY DEF Rows, AllAnswered
<1> HIDE DEF rows
<1> QED BY <1>1, <1>2, <1>3 DEF UnionAnswers

\* Two functions say the same of the calls that a query makes.
AgreeOnParts(f, h, q, inside, scope) ==
    /\ \A x \in Parts(q) :
          /\ f[<<x, inside, scope>>] = h[<<x, inside, scope>>]
          /\ q.op = "scoped" => f[<<x, inside, Own(q, scope)>>] = h[<<x, inside, Own(q, scope)>>]
    /\ q.op = "ref" /\ q.name \in Named \ inside =>
          f[<<Library[q.name], inside \cup {q.name}, scope>>] = h[<<Library[q.name], inside \cup {q.name}, scope>>]

LEMMA AnswersDependOnParts ==
    ASSUME NEW g, NEW now, NEW f, NEW h, NEW q \in Forms, NEW inside, NEW scope,
           AgreeOnParts(f, h, q, inside, scope)
    PROVE  AnswersOf(g, now, f, q, inside, scope) = AnswersOf(g, now, h, q, inside, scope)
<1>1. PartAnswers(f, q, inside, scope) = PartAnswers(h, q, inside, scope)
  BY DEF PartAnswers, AgreeOnParts
<1>2. CASE q.op = "pattern"
  BY <1>2, PatternIs
<1>3. CASE q.op = "scoped"
  <2>1. q.x \in Parts(q)
    BY <1>3 DEF Parts
  <2>2. f[<<q.x, inside, Own(q, scope)>>] = h[<<q.x, inside, Own(q, scope)>>]
    BY <1>3, <2>1 DEF AgreeOnParts
  <2> DEFINE Sort(a) == IF a.ok /\ q.sort # << >>
                        THEN Answer(Sorted(g, ToSet(a.ids), q.sort, AsOf(Own(q, scope), now))) ELSE a
  <2>3. AnswersOf(g, now, f, q, inside, scope) = {Sort(a) : a \in f[<<q.x, inside, Own(q, scope)>>]}
    BY <1>3, ScopedIs
  <2>4. AnswersOf(g, now, h, q, inside, scope) = {Sort(a) : a \in h[<<q.x, inside, Own(q, scope)>>]}
    BY <1>3, ScopedIs
  <2> HIDE DEF Sort
  <2> QED BY <2>2, <2>3, <2>4
<1>4. CASE q.op = "ref"
  BY <1>4, RefIs DEF AgreeOnParts
<1>5. CASE q.op = "not"
  BY <1>1, <1>5, NotIs
<1>6. CASE q.op = "inter"
  BY <1>1, <1>6, InterIs
<1>7. CASE q.op = "union"
  BY <1>1, <1>7, UnionIs
<1> QED BY <1>2, <1>3, <1>4, <1>5, <1>6, <1>7, FormsAreQueries

\* All rows there may be in an order.
AnswerSets == SUBSET [ok : BOOLEAN, ids : Seq(Ids)]

LEMMA AnswersAreAnswers ==
    ASSUME NEW g, DOMAIN g.nodes \subseteq Ids, NEW now, NEW of, NEW q \in Forms, NEW inside, NEW scope,
           q.op = "scoped" => of[<<q.x, inside, Own(q, scope)>>] \in AnswerSets,
           q.op = "ref" /\ q.name \in Named \ inside =>
              of[<<Library[q.name], inside \cup {q.name}, scope>>] \in AnswerSets
    PROVE  AnswersOf(g, now, of, q, inside, scope) \in AnswerSets
<1> DEFINE answers == AnswersOf(g, now, of, q, inside, scope)
           own == Own(q, scope)
           W == [ok : BOOLEAN, ids : Seq(Ids)]
           terms == PartAnswers(of, q, inside, scope)
<1>1. /\ \A ids \in Seq(Ids) : Answer(ids) \in W
      /\ Refused \in W
  BY DEF Answer, Refused
<1>2. \A ids : InOrder(ids) \in Seq(Ids)
  <2> SUFFICES ASSUME NEW ids PROVE InOrder(ids) \in Seq(Ids)
    OBVIOUS
  <2> DEFINE S == ids \cap Ids
  <2>1. InOrder(ids) \in Seq(S) /\ S \subseteq Ids
    BY InOrderLists DEF Enumerates
  <2> HIDE DEF S
  <2> QED BY <2>1
<1>3. \A ids, keys, at : Sorted(g, ids, keys, at) \in Seq(Ids)
  <2> SUFFICES ASSUME NEW ids, NEW keys, NEW at PROVE Sorted(g, ids, keys, at) \in Seq(Ids)
    OBVIOUS
  <2> DEFINE S == ids \cap Ids
  <2>1. Sorted(g, ids, keys, at) \in Seq(S) /\ S \subseteq Ids
    BY SortedLists DEF Enumerates
  <2> HIDE DEF S
  <2> QED BY <2>1
<1>4. CASE q.op = "pattern"
  <2>1. PatternAnswer(g, q, own, AsOf(own, now), now) \in W
    <3> HIDE DEF W
    <3> QED BY <1>1, <1>3 DEF PatternAnswer
  <2>2. answers = {PatternAnswer(g, q, own, AsOf(own, now), now)}
    BY <1>4, PatternIs
  <2> HIDE DEF answers, W
  <2> QED BY <2>1, <2>2 DEF AnswerSets, answers, W
<1>5. CASE q.op = "scoped"
  <2> DEFINE calls == of[<<q.x, inside, own>>]
             Sort(a) == IF a.ok /\ q.sort # << >>
                        THEN Answer(Sorted(g, ToSet(a.ids), q.sort, AsOf(own, now))) ELSE a
  <2>1. answers = {Sort(a) : a \in calls}
    BY <1>5, ScopedIs
  <2>2. calls \in SUBSET W
    BY <1>5 DEF Parts, AnswerSets
  <2>3. \A a \in calls : Sort(a) \in W
    <3> HIDE DEF W, calls
    <3> QED BY <1>1, <1>3, <2>2
  <2> HIDE DEF Sort, calls, W, answers
  <2> QED BY <2>1, <2>3 DEF AnswerSets, answers, W
<1>6. CASE q.op = "ref"
  <2>1. answers = {Refused} \/ answers \in AnswerSets
    BY <1>6, RefIs
  <2> QED BY <1>1, <2>1 DEF AnswerSets
<1>7. CASE q.op = "not"
  <2> DEFINE rest == DOMAIN g.nodes \ (UNION Rows(terms))
  <2>1. answers = {Refused} \/ answers = {Answer(s) : s \in SetToSeqs(rest)}
    <3>1. answers = NotAnswers(g, terms)
      BY <1>7, NotIs
    <3> HIDE DEF answers, terms
    <3> QED BY <3>1 DEF NotAnswers
  <2>2. rest \in SUBSET Ids /\ IsFiniteSet(Ids)
    BY CorpusAssumption
  <2> HIDE DEF rest
  <2>3. \A s \in SetToSeqs(rest) : s \in Seq(Ids)
    <3>1. IsFiniteSet(rest)
      BY <2>2, FS_Subset
    <3>2. Cardinality(rest) \in Nat
      BY <3>1, FS_CardinalityType
    <3>3. \A s \in SetToSeqs(rest) : s \in [1..Cardinality(rest) -> rest]
      BY DEF SetToSeqs
    <3>4. \A s \in SetToSeqs(rest) : s \in Seq(rest)
      BY <3>2, <3>3, SeqDef
    <3> QED BY <2>2, <3>4
  <2> HIDE DEF answers, W
  <2> QED BY <1>1, <2>1, <2>3 DEF AnswerSets, answers, W
<1>8. CASE q.op = "inter"
  <2>1. \E ids : answers \in {{Refused}, {Answer(InOrder(ids))}}
    <3>1. answers = InterAnswers(g, terms)
      BY <1>8, InterIs
    <3> HIDE DEF answers, terms
    <3> QED BY <3>1 DEF InterAnswers
  <2> HIDE DEF answers, W
  <2> QED BY <1>1, <1>2, <2>1 DEF AnswerSets, answers, W
<1>9. CASE q.op = "union"
  <2>1. \E ids : answers \in {{Refused}, {Answer(InOrder(ids))}}
    <3>1. answers = UnionAnswers(terms)
      BY <1>9, UnionIs
    <3> HIDE DEF answers, terms
    <3> QED BY <3>1 DEF UnionAnswers
  <2> HIDE DEF answers, W
  <2> QED BY <1>1, <1>2, <2>1 DEF AnswerSets, answers, W
<1> QED BY <1>4, <1>5, <1>6, <1>7, <1>8, <1>9, FormsAreQueries

\* A query asks for what weighs less than it does.
LEMMA CallsAreLighter ==
    ASSUME NEW c \in Asked
    PROVE  LET q == c[1]
               inside == c[2]
               scope == c[3]
           IN  /\ q \in Forms /\ inside \in SUBSET Named /\ scope \in Scopes
               /\ \A x \in Parts(q) :
                     /\ <<x, inside, scope>> \in Asked /\ Weighed[<<x, inside, scope>>] < Weighed[c]
                     /\ q.op = "scoped" => /\ <<x, inside, Own(q, scope)>> \in Asked
                                           /\ Weighed[<<x, inside, Own(q, scope)>>] < Weighed[c]
               /\ q.op = "ref" /\ q.name \in Named \ inside =>
                     /\ <<Library[q.name], inside \cup {q.name}, scope>> \in Asked
                     /\ Weighed[<<Library[q.name], inside \cup {q.name}, scope>>] < Weighed[c]
<1> DEFINE q == c[1]
           inside == c[2]
           scope == c[3]
<1>1. /\ q \in Forms /\ inside \in SUBSET Named /\ scope \in Scopes
      /\ Weighed[c] = Weight(q, inside)
  BY DEF Asked, Weighed
<1>2. \A y \in Forms, s \in SUBSET Named, w \in Scopes :
         <<y, s, w>> \in Asked /\ Weighed[<<y, s, w>>] = Weight(y, s)
  <2> SUFFICES ASSUME NEW y \in Forms, NEW s \in SUBSET Named, NEW w \in Scopes
               PROVE  <<y, s, w>> \in Asked /\ Weighed[<<y, s, w>>] = Weight(y, s)
    OBVIOUS
  <2> DEFINE b == <<y, s, w>>
  <2>1. b \in Asked /\ b[1] = y /\ b[2] = s
    BY DEF Asked
  <2> HIDE DEF b
  <2> QED BY <2>1 DEF b, Weighed
<1> HIDE DEF q, inside, scope
<1>3. \A x \in Parts(q) : x \in Forms /\ Weight(x, inside) < Weight(q, inside)
  BY <1>1, Weights
<1>4. \A name \in Named \ inside :
         Library[name] \in Forms /\ Weight(Library[name], inside \cup {name}) < Weight(q, inside)
  BY <1>1, Weights
<1>5. q.op = "scoped" => Own(q, scope) \in Scopes
  BY <1>1, OwnIsAScope
<1>6. /\ \A x \in Parts(q) :
            /\ <<x, inside, scope>> \in Asked /\ Weighed[<<x, inside, scope>>] < Weighed[c]
            /\ q.op = "scoped" => /\ <<x, inside, Own(q, scope)>> \in Asked
                                  /\ Weighed[<<x, inside, Own(q, scope)>>] < Weighed[c]
      /\ q.op = "ref" /\ q.name \in Named \ inside =>
            /\ <<Library[q.name], inside \cup {q.name}, scope>> \in Asked
            /\ Weighed[<<Library[q.name], inside \cup {q.name}, scope>>] < Weighed[c]
  BY <1>1, <1>2, <1>3, <1>4, <1>5
<1> QED BY <1>1, <1>6 DEF q, inside, scope

\* The equation of Evaluations holds everywhere.
LEMMA EvaluationsUnfold ==
    ASSUME NEW g, DOMAIN g.nodes \subseteq Ids, NEW now
    PROVE  \A q \in Forms, inside \in SUBSET Named, scope \in Scopes :
              Evaluations(g, now)[<<q, inside, scope>>] = AnswersOf(g, now, Evaluations(g, now), q, inside, scope)
<1> DEFINE V == AnswerSets
           Body(f, c) == AnswersOf(g, now, f, c[1], c[2], c[3])
           F == [c \in Asked |-> [f \in [Asked -> V] |-> Body(f, c)]]
<1>2. ASSUME NEW c \in Asked, NEW f \in [Asked -> V] PROVE F[c][f] = Body(f, c) /\ Body(f, c) \in V
  <2>1. F[c][f] = Body(f, c)
    OBVIOUS
  <2> DEFINE q == c[1]
             inside == c[2]
             scope == c[3]
  <2>2. /\ q \in Forms
        /\ q.op = "scoped" => f[<<q.x, inside, Own(q, scope)>>] \in V
        /\ q.op = "ref" /\ q.name \in Named \ inside =>
              f[<<Library[q.name], inside \cup {q.name}, scope>>] \in V
    <3>1. q.op = "scoped" => q.x \in Parts(q)
      BY DEF Parts
    <3> QED BY <3>1, CallsAreLighter
  <2> HIDE DEF q, inside, scope, F
  <2>3. AnswersOf(g, now, f, q, inside, scope) \in V
    BY <2>2, AnswersAreAnswers
  <2> QED BY <2>1, <2>3 DEF q, inside, scope
<1>3. ASSUME NEW c \in Asked, NEW f \in [Asked -> V], NEW h \in [Asked -> V],
             \A b \in Asked : Weighed[b] < Weighed[c] => f[b] = h[b]
      PROVE  F[c][f] = F[c][h]
  <2> DEFINE q == c[1]
             inside == c[2]
             scope == c[3]
  <2>1. AgreeOnParts(f, h, q, inside, scope)
    BY <1>3, CallsAreLighter DEF AgreeOnParts
  <2>2. q \in Forms
    BY CallsAreLighter
  <2> HIDE DEF q, inside, scope
  <2>3. AnswersOf(g, now, f, q, inside, scope) = AnswersOf(g, now, h, q, inside, scope)
    BY <2>1, <2>2, AnswersDependOnParts
  <2>4. F[c][f] = Body(f, c) /\ F[c][h] = Body(h, c)
    <3> HIDE DEF F, Body
    <3> QED BY <1>2
  <2> HIDE DEF F
  <2> QED BY <2>3, <2>4 DEF q, inside, scope
<1>4. Weighed \in [Asked -> Nat] /\ Heaviest \in Nat /\ \A c \in Asked : Weighed[c] < Heaviest
  BY AskedAreWeighed
<1>5. PICK f \in [Asked -> V] : \A c \in Asked : f[c] = F[c][f]
  <2> DEFINE v == {}
  <2>1. v \in V
    BY DEF AnswerSets
  <2>2. \A c \in Asked : \A f \in [Asked -> V] : F[c][f] \in V
    <3> HIDE DEF V, F, Body
    <3> QED BY <1>2
  <2>3. \A c \in Asked : \A f, h \in [Asked -> V] :
           (\A b \in Asked : Weighed[b] < Weighed[c] => f[b] = h[b]) => F[c][f] = F[c][h]
    <3> HIDE DEF V, F, Body
    <3> QED BY <1>3
  <2> HIDE DEF F, V, v
  <2>4. Recursive(Asked, V, Weighed, Heaviest, F)
    BY <1>4, <2>2, <2>3 DEF Recursive
  <2> QED BY <1>4, <2>1, <2>4, Recursion
<1> DEFINE Is(h) == h = [c \in Asked |-> Body(h, c)]
           of == CHOOSE h : Is(h)
<1>6. Is(f)
  <2>1. \A c \in Asked : f[c] = Body(f, c)
    <3> HIDE DEF V, F, Body
    <3> QED BY <1>2, <1>5
  <2> HIDE DEF Body
  <2> QED BY <2>1
<1>7. Is(of)
  <2> HIDE DEF Is
  <2> QED BY <1>6
<1>8. Evaluations(g, now) = of
  BY DEF Evaluations, Asked
<1> HIDE DEF of
<1>9. \A c \in Asked : of[c] = Body(of, c)
  <2> HIDE DEF Body
  <2> QED BY <1>7
<1>10. SUFFICES ASSUME NEW q \in Forms, NEW inside \in SUBSET Named, NEW scope \in Scopes
                PROVE  of[<<q, inside, scope>>] = AnswersOf(g, now, of, q, inside, scope)
  BY <1>8
<1> DEFINE c == <<q, inside, scope>>
<1>11. c \in Asked /\ c[1] = q /\ c[2] = inside /\ c[3] = scope
  BY DEF Asked
<1> HIDE DEF c
<1> QED BY <1>9, <1>11 DEF c

-----------------------------------------------------------------------------
(* Rows of a graph. *)

\* Nodes of a graph, each once; and answers, of which there is one, all of such rows.
IsRow(g, row) == row \in Seq(DOMAIN g.nodes) /\ IsInjective(row)
HaveRows(g, answers) == answers # {} /\ \A a \in answers : IsRow(g, a.ids)

LEMMA ListsAreRows ==
    ASSUME NEW g, NEW S \in SUBSET DOMAIN g.nodes, NEW row, Enumerates(row, S)
    PROVE  HaveRows(g, {Answer(row)})
<1>1. row \in Seq(S) /\ IsInjective(row)
  BY DEF Enumerates
<1>2. row \in Seq(DOMAIN g.nodes)
  BY <1>1
<1> QED BY <1>1, <1>2 DEF HaveRows, IsRow, Answer

LEMMA RefusedIsARow == ASSUME NEW g PROVE IsRow(g, Refused.ids) /\ HaveRows(g, {Refused})
<1>1. Refused.ids = << >>
  BY DEF Refused
<1>2. << >> \in Seq(DOMAIN g.nodes) /\ IsInjective(<< >>)
  BY DEF IsInjective
<1> QED BY <1>1, <1>2 DEF HaveRows, IsRow

LEMMA AnswersHaveRows ==
    ASSUME NEW g, DOMAIN g.nodes \subseteq Ids, NEW now, NEW of, NEW q \in Forms, NEW inside, NEW scope,
           \A x \in Parts(q) : HaveRows(g, of[<<x, inside, scope>>]),
           q.op = "scoped" => HaveRows(g, of[<<q.x, inside, Own(q, scope)>>]),
           q.op = "ref" /\ q.name \in Named \ inside =>
              HaveRows(g, of[<<Library[q.name], inside \cup {q.name}, scope>>])
    PROVE  HaveRows(g, AnswersOf(g, now, of, q, inside, scope))
<1> DEFINE answers == AnswersOf(g, now, of, q, inside, scope)
           own == Own(q, scope)
           terms == PartAnswers(of, q, inside, scope)
<1>1. \A ids, keys, at : ids \subseteq DOMAIN g.nodes => HaveRows(g, {Answer(Sorted(g, ids, keys, at))})
  <2> SUFFICES ASSUME NEW ids, NEW keys, NEW at, ids \subseteq DOMAIN g.nodes
               PROVE  HaveRows(g, {Answer(Sorted(g, ids, keys, at))})
    OBVIOUS
  <2>1. ids \cap Ids = ids
    OBVIOUS
  <2>2. Enumerates(Sorted(g, ids, keys, at), ids)
    BY <2>1, SortedLists
  <2> QED BY <2>2, ListsAreRows
<1>2. \A ids : ids \subseteq DOMAIN g.nodes => HaveRows(g, {Answer(InOrder(ids))})
  <2> SUFFICES ASSUME NEW ids, ids \subseteq DOMAIN g.nodes PROVE HaveRows(g, {Answer(InOrder(ids))})
    OBVIOUS
  <2>1. ids \cap Ids = ids
    OBVIOUS
  <2>2. Enumerates(InOrder(ids), ids)
    BY <2>1, InOrderLists
  <2> QED BY <2>2, ListsAreRows
<1>3. HaveRows(g, {Refused})
  BY RefusedIsARow
<1>4. CASE q.op = "pattern"
  <2> DEFINE at == AsOf(own, now)
             row == Sorted(g, Bound(g, q, own, at, now), q.sort, at)
  <2>1. answers = {PatternAnswer(g, q, own, at, now)}
    BY <1>4, PatternIs
  <2>2. PatternAnswer(g, q, own, at, now) = Refused \/ PatternAnswer(g, q, own, at, now) = Answer(row)
    BY DEF PatternAnswer
  <2>3. Bound(g, q, own, at, now) \subseteq DOMAIN g.nodes
    BY DEF Bound
  <2>4. HaveRows(g, {Answer(row)})
    <3> HIDE DEF at, own
    <3> QED BY <1>1, <2>3
  <2> HIDE DEF answers, at, own, row
  <2>5. answers = {Refused} \/ answers = {Answer(row)}
    BY <2>1, <2>2
  <2>6. HaveRows(g, answers)
    BY <1>3, <2>4, <2>5
  <2> QED BY <2>6 DEF answers
<1>5. CASE q.op = "scoped"
  <2> DEFINE calls == of[<<q.x, inside, own>>]
             Sort(a) == IF a.ok /\ q.sort # << >>
                        THEN Answer(Sorted(g, ToSet(a.ids), q.sort, AsOf(own, now))) ELSE a
  <2>1. answers = {Sort(a) : a \in calls}
    BY <1>5, ScopedIs
  <2>2. HaveRows(g, calls)
    BY <1>5
  <2>3. ASSUME NEW a \in calls PROVE IsRow(g, Sort(a).ids)
    <3>1. IsRow(g, a.ids)
      BY <2>2 DEF HaveRows
    <3>2. ToSet(a.ids) \subseteq DOMAIN g.nodes
      BY <3>1 DEF IsRow, ToSet
    <3>3. HaveRows(g, {Answer(Sorted(g, ToSet(a.ids), q.sort, AsOf(own, now)))})
      <4> HIDE DEF own
      <4> QED BY <1>1, <3>2
    <3>4. IsRow(g, Answer(Sorted(g, ToSet(a.ids), q.sort, AsOf(own, now))).ids)
      BY <3>3 DEF HaveRows
    <3>5. Sort(a) = Answer(Sorted(g, ToSet(a.ids), q.sort, AsOf(own, now))) \/ Sort(a) = a
      OBVIOUS
    <3> HIDE DEF Sort
    <3> QED BY <3>1, <3>4, <3>5
  <2>4. calls # {}
    BY <2>2 DEF HaveRows
  <2> HIDE DEF Sort, calls, answers
  <2>5. HaveRows(g, answers)
    BY <2>1, <2>3, <2>4 DEF HaveRows
  <2> QED BY <2>5 DEF answers
<1>6. CASE q.op = "ref"
  <2>1. answers = IF q.name \in Named \ inside
                  THEN of[<<Library[q.name], inside \cup {q.name}, scope>>] ELSE {Refused}
    BY <1>6, RefIs
  <2> HIDE DEF answers
  <2>2. HaveRows(g, answers)
    BY <1>3, <1>6, <2>1
  <2> QED BY <2>2 DEF answers
<1>7. CASE q.op = "not"
  <2> DEFINE rest == DOMAIN g.nodes \ (UNION Rows(terms))
             orders == {Answer(s) : s \in SetToSeqs(rest)}
  <2>1. answers = {Refused} \/ answers = orders
    <3>1. answers = NotAnswers(g, terms)
      BY <1>7, NotIs
    <3> HIDE DEF answers, terms
    <3> QED BY <3>1 DEF NotAnswers
  <2>2. rest \in SUBSET DOMAIN g.nodes
    OBVIOUS
  <2>3. IsFiniteSet(rest) /\ rest \cap Ids = rest
    <3>1. rest \in SUBSET Ids
      OBVIOUS
    <3> HIDE DEF rest
    <3> QED BY <3>1, CorpusAssumption, FS_Subset
  <2> HIDE DEF rest
  <2>4. Enumerates(InOrder(rest), rest)
    BY <2>3, InOrderLists
  <2>5. SetToSeqs(rest) # {}
    BY <2>3, <2>4, OrdersList
  <2>6. \A s \in SetToSeqs(rest) : IsRow(g, s)
    <3> SUFFICES ASSUME NEW s \in SetToSeqs(rest) PROVE IsRow(g, s)
      OBVIOUS
    <3>1. s \in Seq(rest) /\ IsInjective(s)
      BY <2>3, OrdersList DEF Enumerates
    <3> QED BY <2>2, <3>1 DEF IsRow
  <2>7. HaveRows(g, orders)
    <3>1. \A s : Answer(s).ids = s
      BY DEF Answer
    <3>2. orders # {} /\ \A a \in orders : \E s \in SetToSeqs(rest) : a = Answer(s)
      BY <2>5
    <3> HIDE DEF orders
    <3> QED BY <2>6, <3>1, <3>2 DEF HaveRows
  <2> HIDE DEF orders, answers
  <2>8. HaveRows(g, answers)
    BY <1>3, <2>1, <2>7
  <2> QED BY <2>8 DEF answers
<1>8. CASE q.op = "inter"
  <2>1. answers = {Refused} \/ answers = {Answer(InOrder(InterRows(g, terms)))}
    <3>1. answers = InterAnswers(g, terms)
      BY <1>8, InterIs
    <3> HIDE DEF answers, terms
    <3> QED BY <3>1 DEF InterAnswers
  <2>2. InterRows(g, terms) \subseteq DOMAIN g.nodes
    <3> HIDE DEF terms
    <3> QED BY DEF InterRows
  <2> HIDE DEF answers, terms
  <2>3. HaveRows(g, answers)
    BY <1>2, <1>3, <2>1, <2>2
  <2> QED BY <2>3 DEF answers
<1>9. CASE q.op = "union"
  <2>1. answers = {Refused} \/ answers = {Answer(InOrder(UNION Rows(terms)))}
    <3>1. answers = UnionAnswers(terms)
      BY <1>9, UnionIs
    <3> HIDE DEF answers, terms
    <3> QED BY <3>1 DEF UnionAnswers
  <2>2. \A a \in terms : IsRow(g, a.ids)
    <3> DEFINE result(x) == CHOOSE a \in of[<<x, inside, scope>>] : TRUE
    <3>1. terms = {result(x) : x \in Parts(q)}
      BY DEF PartAnswers
    <3>2. ASSUME NEW x \in Parts(q) PROVE IsRow(g, result(x).ids)
      <4>1. HaveRows(g, of[<<x, inside, scope>>])
        OBVIOUS
      <4>2. result(x) \in of[<<x, inside, scope>>]
        BY <4>1 DEF HaveRows
      <4> HIDE DEF result
      <4> QED BY <4>1, <4>2 DEF HaveRows
    <3> HIDE DEF terms, result
    <3> QED BY <3>1, <3>2
  <2> HIDE DEF answers, terms
  <2>3. \A a \in terms : ToSet(a.ids) \subseteq DOMAIN g.nodes
    BY <2>2 DEF IsRow, ToSet
  <2>4. UNION Rows(terms) \subseteq DOMAIN g.nodes
    BY <2>3 DEF Rows
  <2>5. HaveRows(g, answers)
    BY <1>2, <1>3, <2>1, <2>4
  <2> QED BY <2>5 DEF answers
<1> QED BY <1>4, <1>5, <1>6, <1>7, <1>8, <1>9, FormsAreQueries

\* Whatever is asked, there is an answer, and its rows are nodes, each once.
LEMMA EveryAnswerHasRows ==
    ASSUME NEW g, DOMAIN g.nodes \subseteq Ids, NEW now
    PROVE  \A q \in Forms, inside \in SUBSET Named, scope \in Scopes :
              HaveRows(g, Evaluations(g, now)[<<q, inside, scope>>])
<1> DEFINE of == Evaluations(g, now)
           S == {n \in Nat : \A q \in Forms, inside \in SUBSET Named, scope \in Scopes :
                    Weight(q, inside) < n => HaveRows(g, of[<<q, inside, scope>>])}
<1>1. 0 \in S
  BY Weights
<1>0. \A q \in Forms, inside \in SUBSET Named, scope \in Scopes :
         of[<<q, inside, scope>>] = AnswersOf(g, now, of, q, inside, scope)
  BY EvaluationsUnfold
<1> HIDE DEF of
<1>2. ASSUME NEW n \in S PROVE n + 1 \in S
  <2> SUFFICES ASSUME NEW q \in Forms, NEW inside \in SUBSET Named, NEW scope \in Scopes, Weight(q, inside) < n + 1
               PROVE  HaveRows(g, of[<<q, inside, scope>>])
    BY DEF S
  <2>1. /\ Weight(q, inside) \in Nat
        /\ \A x \in Parts(q) : x \in Forms /\ Weight(x, inside) < Weight(q, inside)
        /\ \A name \in Named \ inside :
              Library[name] \in Forms /\ Weight(Library[name], inside \cup {name}) < Weight(q, inside)
    BY Weights
  <2>2. \A x \in Forms, some \in SUBSET Named, v \in Scopes :
           Weight(x, some) < Weight(q, inside) => HaveRows(g, of[<<x, some, v>>])
    <3> SUFFICES ASSUME NEW x \in Forms, NEW some \in SUBSET Named, NEW v \in Scopes,
                        Weight(x, some) < Weight(q, inside)
                 PROVE  HaveRows(g, of[<<x, some, v>>])
      OBVIOUS
    <3>1. Weight(x, some) \in Nat
      BY Weights
    <3>2. n \in Nat
      OBVIOUS
    <3>3. \A a, b \in Nat : a < b /\ b < n + 1 => a < n
      BY <3>2
    <3>4. Weight(x, some) < n
      BY <2>1, <3>1, <3>3
    <3> QED BY <3>4 DEF S
  <2> HIDE DEF S
  <2>3. \A x \in Parts(q), v \in Scopes : HaveRows(g, of[<<x, inside, v>>])
    BY <2>1, <2>2
  <2>4. q.op = "scoped" => HaveRows(g, of[<<q.x, inside, Own(q, scope)>>])
    <3> SUFFICES ASSUME q.op = "scoped" PROVE HaveRows(g, of[<<q.x, inside, Own(q, scope)>>])
      OBVIOUS
    <3>1. q.x \in Parts(q)
      BY DEF Parts
    <3>2. Own(q, scope) \in Scopes
      BY OwnIsAScope
    <3> QED BY <2>3, <3>1, <3>2
  <2>5. q.op = "ref" /\ q.name \in Named \ inside =>
           HaveRows(g, of[<<Library[q.name], inside \cup {q.name}, scope>>])
    <3> SUFFICES ASSUME q.name \in Named \ inside
                 PROVE  HaveRows(g, of[<<Library[q.name], inside \cup {q.name}, scope>>])
      OBVIOUS
    <3> DEFINE more == inside \cup {q.name}
    <3>1. more \in SUBSET Named
      OBVIOUS
    <3>2. Library[q.name] \in Forms /\ Weight(Library[q.name], more) < Weight(q, inside)
      BY <2>1
    <3> HIDE DEF more
    <3>3. HaveRows(g, of[<<Library[q.name], more, scope>>])
      BY <2>2, <3>1, <3>2
    <3> QED BY <3>3 DEF more
  <2>6. \A x \in Parts(q) : HaveRows(g, of[<<x, inside, scope>>])
    BY <2>3
  <2>7. HaveRows(g, AnswersOf(g, now, of, q, inside, scope))
    BY <2>4, <2>5, <2>6, AnswersHaveRows
  <2> QED BY <1>0, <2>7
<1>3. S = Nat
  <2>1. S \in SUBSET Nat
    OBVIOUS
  <2> HIDE DEF S
  <2> QED BY <1>1, <1>2, <2>1, Induction
<1> SUFFICES ASSUME NEW q \in Forms, NEW inside \in SUBSET Named, NEW scope \in Scopes
             PROVE  HaveRows(g, of[<<q, inside, scope>>])
  BY DEF of
<1>4. Heaviest \in S /\ Weight(q, inside) < Heaviest
  BY <1>3, Weights
<1> QED BY <1>4

-----------------------------------------------------------------------------
(* Pins. *)

IsList(s) == s \in Seq(ToSet(s))
LinesOf(pin) == ToSet(pin.nodes) \cup ToSet(pin.cites)

\* What a pin is like whatever it was taken of: lines with hashes, no id twice, sources
\* among what is cited, and every source among the rows cited.
WellPinned(pin) ==
    /\ IsList(pin.nodes) /\ IsList(pin.cites)
    /\ pin.unresolved \in Seq(Ids) /\ pin.unresolved = InOrder(ToSet(pin.unresolved))
    /\ \A line \in LinesOf(pin) : line = [id |-> line.id, hash |-> line.hash] /\ line.hash # << >> /\ line.id \in Ids
    /\ \A i, j \in DOMAIN pin.nodes : pin.nodes[i].id = pin.nodes[j].id => i = j
    /\ \A i, j \in DOMAIN pin.cites : pin.cites[i].id = pin.cites[j].id => i = j
    /\ \A i \in DOMAIN pin.cites : pin.cites[i].hash[1].kind = "source"
    /\ \A i \in DOMAIN pin.nodes : pin.nodes[i].hash[1].kind = "source" =>
          \E j \in DOMAIN pin.cites : pin.cites[j].id = pin.nodes[i].id

\* All that an answer commits to, as it can be read off its pin.
TheLine(pin, id) == CHOOSE line \in LinesOf(pin) : line.id = id
SaidBy(pin) ==
    [order |-> [i \in DOMAIN pin.nodes |-> pin.nodes[i].id],
     facts |-> [id \in IdsOf(pin.nodes) \cup IdsOf(pin.cites) |-> TheLine(pin, id).hash[1]],
     relations |-> UNION {line.hash[2] : line \in LinesOf(pin)},
     holes |-> ToSet(pin.unresolved)]

LEMMA ListOfLines ==
    ASSUME NEW S, NEW ids \in Seq(S), NEW f, DOMAIN f = DOMAIN ids, f = [i \in DOMAIN f |-> f[i]]
    PROVE  f \in Seq(ToSet(f))
<1>1. Len(ids) \in Nat /\ DOMAIN ids = 1..Len(ids)
  OBVIOUS
<1>2. f \in [1..Len(ids) -> ToSet(f)]
  BY <1>1 DEF ToSet
<1> QED BY <1>1, <1>2, SeqDef

\* The lines of some ids.
Lines(g, S) == {[id |-> x, hash |-> SemHash(g, x)] : x \in S}

\* A list of lines, of these ids.
ArePinned(g, ids, v) ==
    /\ IsList(v)
    /\ DOMAIN v = DOMAIN ids
    /\ \A i \in DOMAIN ids : v[i].id = ids[i] /\ v[i].hash = SemHash(g, ids[i])
    /\ \A i, j \in DOMAIN ids : v[i].id = v[j].id => i = j
    /\ IdsOf(v) = ToSet(ids)
    /\ ToSet(v) = Lines(g, ToSet(ids))

LEMMA PinnedLines ==
    ASSUME NEW g, NEW S, NEW ids \in Seq(S), IsInjective(ids)
    PROVE  ArePinned(g, ids, Pinned(g, ids))
<1> DEFINE L(x) == [id |-> x, hash |-> SemHash(g, x)]
           s == [i \in DOMAIN ids |-> L(ids[i])]
<1>1. Pinned(g, ids) = s
  BY DEF Pinned
<1>2. \A x : L(x).id = x /\ L(x).hash = SemHash(g, x)
  OBVIOUS
<1> HIDE DEF L
<1>3. s \in Seq(ToSet(s)) /\ DOMAIN s = DOMAIN ids
  <2>1. DOMAIN s = DOMAIN ids /\ s = [i \in DOMAIN s |-> s[i]]
    OBVIOUS
  <2> HIDE DEF s
  <2> QED BY <2>1, ListOfLines
<1>4. \A i \in DOMAIN ids : s[i] = L(ids[i])
  OBVIOUS
<1> HIDE DEF s
<1>5. \A i \in DOMAIN ids : s[i].id = ids[i] /\ s[i].hash = SemHash(g, ids[i])
  BY <1>2, <1>4
<1>6. \A i, j \in DOMAIN ids : ids[i] = ids[j] => i = j
  BY DEF IsInjective
<1>7. IdsOf(s) = ToSet(ids)
  BY <1>3, <1>5 DEF IdsOf, ToSet
<1>8. ToSet(s) = {L(x) : x \in ToSet(ids)}
  BY <1>3, <1>4 DEF ToSet
<1>9. ToSet(s) = Lines(g, ToSet(ids))
  BY <1>8 DEF L, Lines
<1>10. \A i, j \in DOMAIN ids : s[i].id = s[j].id => i = j
  BY <1>5, <1>6
<1> QED BY <1>1, <1>3, <1>5, <1>7, <1>9, <1>10 DEF IsList, ArePinned

\* A pin is well made, and says what the answer it was taken of commits to.
LEMMA PinsAreWellMade ==
    ASSUME NEW g, DOMAIN g.nodes \subseteq Ids, NEW ids, IsRow(g, ids), NEW now
    PROVE  WellPinned(PinOf(g, ids, now))
<1> DEFINE rows == ToSet(ids)
           sources == CitedSources(g, rows)
           cited == InOrder(sources)
           holes == TaintedSet(g, rows, now)
           open == InOrder(holes)
           pin == PinOf(g, ids, now)
<1>1. ids \in Seq(DOMAIN g.nodes) /\ IsInjective(ids)
  BY DEF IsRow
<1>2. sources \in SUBSET DOMAIN g.nodes /\ \A s \in sources : g.nodes[s].kind = "source"
  BY DEF CitedSources
<1>3. holes \in SUBSET DOMAIN g.nodes
  BY DEF TaintedSet, Taint, IsHole
<1>4. pin.nodes = Pinned(g, ids) /\ pin.cites = Pinned(g, cited) /\ pin.unresolved = open
  BY DEF PinOf
<1>5. \A s \in rows : s \in DOMAIN g.nodes /\ (g.nodes[s].kind = "source" => s \in sources)
  BY <1>1 DEF CitedSources, ToSet
<1> HIDE DEF sources, holes
<1>6. Enumerates(cited, sources) /\ Enumerates(open, holes)
  <2>1. sources \cap Ids = sources /\ holes \cap Ids = holes
    BY <1>2, <1>3
  <2> QED BY <2>1, InOrderLists
<1> HIDE DEF cited, open, pin
<1>7. cited \in Seq(sources) /\ IsInjective(cited) /\ ToSet(cited) = sources
  BY <1>6 DEF Enumerates
<1>8. open \in Seq(Ids) /\ open = InOrder(ToSet(open))
  <2>1. open \in Seq(holes) /\ holes \subseteq Ids /\ ToSet(open) = holes
    BY <1>3, <1>6 DEF Enumerates
  <2> QED BY <2>1 DEF open
<1>9. \A x : SemHash(g, x) # << >> /\ SemHash(g, x)[1] = g.nodes[x]
  BY DEF SemHash
<1>10. /\ IsList(pin.nodes) /\ DOMAIN pin.nodes = DOMAIN ids
       /\ \A i \in DOMAIN ids : pin.nodes[i].id = ids[i] /\ pin.nodes[i].hash = SemHash(g, ids[i])
       /\ \A i, j \in DOMAIN ids : pin.nodes[i].id = pin.nodes[j].id => i = j
       /\ ToSet(pin.nodes) = Lines(g, ToSet(ids))
  <2>1. ArePinned(g, ids, Pinned(g, ids))
    BY <1>1, PinnedLines
  <2>2. ArePinned(g, ids, pin.nodes)
    BY <1>4, <2>1
  <2> QED BY <2>2 DEF ArePinned
<1>11. /\ IsList(pin.cites) /\ DOMAIN pin.cites = DOMAIN cited
       /\ \A i \in DOMAIN cited : pin.cites[i].id = cited[i] /\ pin.cites[i].hash = SemHash(g, cited[i])
       /\ \A i, j \in DOMAIN cited : pin.cites[i].id = pin.cites[j].id => i = j
       /\ ToSet(pin.cites) = Lines(g, ToSet(cited))
  <2>1. ArePinned(g, cited, Pinned(g, cited))
    BY <1>7, PinnedLines
  <2>2. ArePinned(g, cited, pin.cites)
    BY <1>4, <2>1
  <2> QED BY <2>2 DEF ArePinned
<1>12. \A line \in LinesOf(pin) : line = [id |-> line.id, hash |-> line.hash] /\ line.hash # << >> /\ line.id \in Ids
  <2>1. \A x \in ToSet(ids) \cup ToSet(cited) : x \in Ids
    BY <1>2, <1>5, <1>7
  <2> QED BY <1>9, <1>10, <1>11, <2>1 DEF LinesOf, Lines
<1>13. \A i \in DOMAIN pin.cites : pin.cites[i].hash[1].kind = "source"
  BY <1>2, <1>7, <1>9, <1>11
<1>14. ASSUME NEW i \in DOMAIN pin.nodes, pin.nodes[i].hash[1].kind = "source"
       PROVE  \E j \in DOMAIN pin.cites : pin.cites[j].id = pin.nodes[i].id
  <2>1. ids[i] \in rows /\ g.nodes[ids[i]].kind = "source"
    BY <1>9, <1>10, <1>14 DEF ToSet
  <2>2. ids[i] \in ToSet(cited)
    BY <1>5, <1>7, <2>1
  <2>3. PICK j \in DOMAIN cited : cited[j] = ids[i]
    BY <2>2 DEF ToSet
  <2> QED BY <1>10, <1>11, <2>3
<1> QED BY <1>4, <1>8, <1>10, <1>11, <1>12, <1>13, <1>14 DEF WellPinned, pin

\* All that an answer commits to, of a pin of it.
LEMMA PinsSayWhatIsCommitted ==
    ASSUME NEW w, DOMAIN w.graph.nodes \subseteq Ids, NEW ids, IsRow(w.graph, ids)
    PROVE  Commitments(w, PinOf(w.graph, ids, w.today)) = SaidBy(PinOf(w.graph, ids, w.today))
<1> DEFINE g == w.graph
           now == w.today
           rows == ToSet(ids)
           sources == CitedSources(g, rows)
           cited == InOrder(sources)
           holes == TaintedSet(g, rows, now)
           pin == PinOf(g, ids, now)
           all == rows \cup sources
<1>1. ids \in Seq(DOMAIN g.nodes) /\ IsInjective(ids)
  BY DEF IsRow
<1>2. sources \in SUBSET DOMAIN g.nodes
  BY DEF CitedSources
<1>3. holes \in SUBSET DOMAIN g.nodes
  BY DEF TaintedSet, Taint, IsHole
<1>4. pin.nodes = Pinned(g, ids) /\ pin.cites = Pinned(g, cited) /\ pin.unresolved = InOrder(holes)
  BY DEF PinOf
<1>5. holes = UNION {Taint(g, id, now) : id \in rows}
  BY DEF TaintedSet
<1> HIDE DEF holes
<1>6. Enumerates(cited, sources) /\ ToSet(pin.unresolved) = holes
  <2>1. sources \cap Ids = sources /\ holes \cap Ids = holes
    BY <1>2, <1>3
  <2>2. Enumerates(cited, sources)
    <3> HIDE DEF sources
    <3> QED BY <2>1, InOrderLists
  <2>3. Enumerates(InOrder(holes), holes)
    BY <2>1, InOrderLists
  <2> HIDE DEF pin, sources, cited
  <2> QED BY <1>4, <2>2, <2>3 DEF Enumerates
<1>7. {pin.nodes[i].id : i \in DOMAIN pin.nodes} = rows
  <2>1. IdsOf(Pinned(g, ids)) = rows
    BY <1>1, PinnedLines DEF ArePinned
  <2> HIDE DEF rows
  <2> QED BY <1>4, <2>1 DEF IdsOf
<1>8. Commitments(w, pin) =
        [order |-> [i \in DOMAIN pin.nodes |-> pin.nodes[i].id],
         facts |-> [id \in all |-> g.nodes[id]],
         relations |-> {e \in g.incident : {e.src, e.dst} \cap all # {}},
         holes |-> UNION {Taint(g, id, now) : id \in rows}]
  <2> HIDE DEF pin, rows
  <2> QED BY <1>7 DEF Commitments
<1> HIDE DEF pin, cited, sources
<1>9. /\ IdsOf(pin.nodes) = rows
      /\ ToSet(pin.nodes) = Lines(g, rows)
  BY <1>1, <1>4, PinnedLines DEF ArePinned
<1>10. /\ IdsOf(pin.cites) = sources
       /\ ToSet(pin.cites) = Lines(g, sources)
  <2>1. cited \in Seq(sources) /\ IsInjective(cited) /\ ToSet(cited) = sources
    BY <1>6 DEF Enumerates
  <2> QED BY <1>4, <2>1, PinnedLines DEF ArePinned
<1> HIDE DEF rows, g
<1>11. LinesOf(pin) = Lines(g, all)
  BY <1>9, <1>10 DEF LinesOf, Lines
<1>12. \A x : SemHash(g, x)[1] = g.nodes[x] /\ SemHash(g, x)[2] = {e \in g.incident : x \in {e.src, e.dst}}
  BY DEF SemHash
<1>13. ASSUME NEW id \in all PROVE TheLine(pin, id).hash[1] = g.nodes[id]
  <2>1. TheLine(pin, id) \in LinesOf(pin) /\ TheLine(pin, id).id = id
    <3> DEFINE line == [id |-> id, hash |-> SemHash(g, id)]
    <3>0. line \in LinesOf(pin) /\ line.id = id
      BY <1>11, <1>13 DEF Lines
    <3> HIDE DEF line
    <3>1. \E it \in LinesOf(pin) : it.id = id
      BY <3>0
    <3> QED BY <3>1 DEF TheLine
  <2>2. TheLine(pin, id).hash = SemHash(g, id)
    BY <1>11, <2>1 DEF Lines
  <2> QED BY <1>12, <2>2
<1>14. UNION {line.hash[2] : line \in LinesOf(pin)} = {e \in g.incident : {e.src, e.dst} \cap all # {}}
  <2>1. ASSUME NEW e \in UNION {line.hash[2] : line \in LinesOf(pin)}
        PROVE  e \in {e2 \in g.incident : {e2.src, e2.dst} \cap all # {}}
    <3>1. PICK x \in all : e \in SemHash(g, x)[2]
      BY <1>11, <2>1 DEF Lines
    <3>2. e \in {e2 \in g.incident : x \in {e2.src, e2.dst}}
      BY <1>12, <3>1
    <3> HIDE DEF all
    <3> QED BY <3>1, <3>2
  <2>2. ASSUME NEW e \in g.incident, {e.src, e.dst} \cap all # {}
        PROVE  e \in UNION {line.hash[2] : line \in LinesOf(pin)}
    <3>1. PICK x \in all : x \in {e.src, e.dst}
      BY <2>2
    <3>2. e \in {e2 \in g.incident : x \in {e2.src, e2.dst}}
      BY <3>1
    <3>3. e \in SemHash(g, x)[2]
      BY <1>12, <3>2
    <3> DEFINE line == [id |-> x, hash |-> SemHash(g, x)]
    <3>4. line \in LinesOf(pin) /\ line.hash = SemHash(g, x)
      BY <1>11 DEF Lines
    <3> HIDE DEF line
    <3> QED BY <3>3, <3>4
  <2> QED BY <2>1, <2>2
<1>15. [id \in IdsOf(pin.nodes) \cup IdsOf(pin.cites) |-> TheLine(pin, id).hash[1]] = [id \in all |-> g.nodes[id]]
  BY <1>9, <1>10, <1>13
<1>16. Commitments(w, pin) = SaidBy(pin)
  BY <1>5, <1>6, <1>8, <1>14, <1>15 DEF SaidBy
<1> QED BY <1>16 DEF pin, g

\* Three lists, one after the other.
LEMMA ThreeLists ==
    ASSUME NEW S, NEW s \in Seq(S), NEW t \in Seq(S), NEW u \in Seq(S)
    PROVE  /\ Len(s) \in Nat /\ Len(t) \in Nat /\ Len(u) \in Nat
           /\ DOMAIN s = 1..Len(s) /\ DOMAIN t = 1..Len(t) /\ DOMAIN u = 1..Len(u)
           /\ Len(s \o t \o u) = Len(s) + Len(t) + Len(u)
           /\ \A i \in DOMAIN s : (s \o t \o u)[i] = s[i]
           /\ \A i \in DOMAIN t : (s \o t \o u)[Len(s) + i] = t[i]
           /\ \A i \in DOMAIN u : (s \o t \o u)[Len(s) + Len(t) + i] = u[i]
<1> DEFINE v == s \o t
<1>1. /\ v \in Seq(S) /\ Len(v) = Len(s) + Len(t)
      /\ \A i \in DOMAIN s : v[i] = s[i]
      /\ \A i \in DOMAIN t : v[Len(s) + i] = t[i]
  OBVIOUS
<1> HIDE DEF v
<1>2. /\ Len(v \o u) = Len(v) + Len(u)
      /\ \A i \in DOMAIN v : (v \o u)[i] = v[i]
      /\ \A i \in DOMAIN u : (v \o u)[Len(v) + i] = u[i]
  <2>0. \A x, y \in Seq(S) : Len(x \o y) = Len(x) + Len(y)
    OBVIOUS
  <2>1. Len(v \o u) = Len(v) + Len(u)
    BY <1>1, <2>0
  <2>2. \A i \in DOMAIN v : (v \o u)[i] = v[i]
    BY <1>1
  <2>3. \A i \in DOMAIN u : (v \o u)[Len(v) + i] = u[i]
    BY <1>1
  <2> QED BY <2>1, <2>2, <2>3
<1>3. Len(s) \in Nat /\ Len(t) \in Nat /\ Len(u) \in Nat
      /\ DOMAIN s = 1..Len(s) /\ DOMAIN t = 1..Len(t) /\ DOMAIN u = 1..Len(u)
  OBVIOUS
<1>4. \A i \in DOMAIN s : i \in DOMAIN v
  BY <1>1, <1>3
<1>5. \A i \in DOMAIN t : Len(s) + i \in DOMAIN v
  BY <1>1, <1>3
<1>6. /\ \A i \in DOMAIN s : (v \o u)[i] = s[i]
      /\ \A i \in DOMAIN t : (v \o u)[Len(s) + i] = t[i]
      /\ \A i \in DOMAIN u : (v \o u)[Len(s) + Len(t) + i] = u[i]
  BY <1>1, <1>2, <1>4, <1>5
<1> QED BY <1>1, <1>2, <1>3, <1>6 DEF v

\* The lines that are hashed, by their places.
Length(pin) == Len(pin.nodes) + Len(pin.unresolved) + Len(pin.cites)
IsHashed(pin, h) ==
    /\ Len(pin.nodes) \in Nat /\ Len(pin.unresolved) \in Nat /\ Len(pin.cites) \in Nat
    /\ DOMAIN pin.nodes = 1..Len(pin.nodes)
    /\ DOMAIN pin.unresolved = 1..Len(pin.unresolved)
    /\ DOMAIN pin.cites = 1..Len(pin.cites)
    /\ Len(h) = Length(pin)
    /\ \A i \in 1..Len(pin.nodes) : h[i] = pin.nodes[i] /\ h[i].hash # << >>
    /\ \A i \in 1..Len(pin.unresolved) :
          /\ h[Len(pin.nodes) + i].hash = << >>
          /\ h[Len(pin.nodes) + i].id = pin.unresolved[i]
    /\ \A i \in 1..Len(pin.cites) :
          /\ h[Len(pin.nodes) + Len(pin.unresolved) + i] = pin.cites[i]
          /\ h[Len(pin.nodes) + Len(pin.unresolved) + i].hash # << >>

LEMMA HashesAreOfLines ==
    ASSUME NEW pin, WellPinned(pin)
    PROVE  IsHashed(pin, SetHash(pin))
<1> DEFINE s == pin.nodes
           ids == pin.unresolved
           t == Bare(ids)
           u == pin.cites
           S == ToSet(s) \cup ToSet(t) \cup ToSet(u)
<1>1. s \in Seq(ToSet(s)) /\ u \in Seq(ToSet(u)) /\ ids \in Seq(Ids)
  BY DEF WellPinned, IsList
<1>2. /\ DOMAIN t = DOMAIN ids
      /\ \A i \in DOMAIN ids : t[i].id = ids[i] /\ t[i].hash = << >>
      /\ t = [i \in DOMAIN t |-> t[i]]
  BY DEF Bare
<1>3. \A line \in ToSet(s) \cup ToSet(u) : line.hash # << >>
  BY DEF WellPinned, LinesOf
<1> HIDE DEF s, u, ids, t
<1>4. t \in Seq(ToSet(t)) /\ Len(ids) \in Nat /\ DOMAIN ids = 1..Len(ids)
  BY <1>1, <1>2, ListOfLines
<1>5. ToSet(s) \subseteq S /\ ToSet(t) \subseteq S /\ ToSet(u) \subseteq S
  OBVIOUS
<1> HIDE DEF S
<1>6. s \in Seq(S) /\ t \in Seq(S) /\ u \in Seq(S)
  BY <1>1, <1>4, <1>5
<1> DEFINE h == s \o t \o u
<1>7. /\ Len(s) \in Nat /\ Len(t) \in Nat /\ Len(u) \in Nat
      /\ DOMAIN s = 1..Len(s) /\ DOMAIN t = 1..Len(t) /\ DOMAIN u = 1..Len(u)
      /\ Len(h) = Len(s) + Len(t) + Len(u)
      /\ \A i \in DOMAIN s : h[i] = s[i]
      /\ \A i \in DOMAIN t : h[Len(s) + i] = t[i]
      /\ \A i \in DOMAIN u : h[Len(s) + Len(t) + i] = u[i]
  BY <1>6, ThreeLists
<1>8. Len(t) = Len(ids)
  BY <1>2, <1>4, <1>7
<1>9. SetHash(pin) = h
  BY DEF SetHash, s, t, u, ids
<1>10. \A i \in DOMAIN s : s[i] \in ToSet(s)
  BY DEF ToSet
<1>11. \A i \in DOMAIN u : u[i] \in ToSet(u)
  BY DEF ToSet
<1> HIDE DEF h
<1>12. /\ \A i \in 1..Len(s) : h[i] = s[i] /\ h[i].hash # << >>
       /\ \A i \in 1..Len(ids) : h[Len(s) + i].hash = << >> /\ h[Len(s) + i].id = ids[i]
       /\ \A i \in 1..Len(u) : h[Len(s) + Len(ids) + i] = u[i] /\ h[Len(s) + Len(ids) + i].hash # << >>
  BY <1>2, <1>3, <1>4, <1>7, <1>8, <1>10, <1>11
<1> QED BY <1>4, <1>7, <1>8, <1>9, <1>12 DEF IsHashed, Length, s, ids, u

\* Where one pin ends its rows the other does: past that there is an open question, or a
\* source that the other has among its rows and would have to cite once more.
LEMMA NoMoreRows ==
    ASSUME NEW p, NEW q, NEW h, WellPinned(p), WellPinned(q), IsHashed(p, h), IsHashed(q, h)
    PROVE  ~ Len(p.nodes) < Len(q.nodes)
<1> SUFFICES ASSUME Len(p.nodes) < Len(q.nodes) PROVE FALSE
  OBVIOUS
<1> DEFINE a == Len(p.nodes)
           b == Len(p.unresolved)
           c == Len(p.cites)
           m == Len(q.nodes)
           n == Len(q.unresolved)
           o == Len(q.cites)
<1>1. a \in Nat /\ b \in Nat /\ c \in Nat /\ m \in Nat /\ n \in Nat /\ o \in Nat
  BY DEF IsHashed
<1>2. a + b + c = m + n + o /\ a < m
  BY DEF IsHashed, Length
<1>3. h[a + 1] = q.nodes[a + 1] /\ h[a + 1].hash # << >> /\ a + 1 \in DOMAIN q.nodes
  <2>1. a + 1 \in 1..m
    BY <1>1, <1>2
  <2> HIDE DEF a
  <2> QED BY <2>1 DEF IsHashed
<1>4. b = 0
  <2> SUFFICES ASSUME b # 0 PROVE FALSE
    OBVIOUS
  <2>1. 1 \in 1..b
    BY <1>1
  <2>2. h[a + 1].hash = << >>
    BY <2>1 DEF IsHashed
  <2> QED BY <1>3, <2>2
<1>5. \A i \in 1..c : h[a + i] = p.cites[i]
  <2>1. \A i \in 1..c : h[a + b + i] = p.cites[i]
    BY DEF IsHashed
  <2>2. \A i \in 1..c : a + b + i = a + i
    <3> HIDE DEF a, b, c
    <3> QED BY <1>1, <1>4
  <2> QED BY <2>1, <2>2
<1>6. 1 \in 1..c /\ c \in Nat
  <2> HIDE DEF a, b, c, m, n, o
  <2> QED BY <1>1, <1>2, <1>4
<1>7. q.nodes[a + 1] = p.cites[1] /\ 1 \in DOMAIN p.cites
  BY <1>3, <1>5, <1>6 DEF IsHashed
<1>8. q.nodes[a + 1].hash[1].kind = "source"
  BY <1>7 DEF WellPinned
<1>9. PICK j \in DOMAIN q.cites : q.cites[j].id = q.nodes[a + 1].id
  BY <1>3, <1>8 DEF WellPinned
<1>10. h[m + n + j] = q.cites[j] /\ j \in 1..o
  BY <1>9 DEF IsHashed
<1> DEFINE i == m + n + j - a
<1>11. i \in 1..c /\ i # 1 /\ a + i = m + n + j
  <2> HIDE DEF a, b, c, m, n, o
  <2> QED BY <1>1, <1>2, <1>4, <1>10
<1> HIDE DEF a, b, c, m, n, o, i
<1>12. p.cites[i].id = p.cites[1].id
  BY <1>5, <1>7, <1>9, <1>10, <1>11
<1>13. i \in DOMAIN p.cites
  BY <1>11 DEF IsHashed, c
<1> QED BY <1>7, <1>11, <1>12, <1>13 DEF WellPinned

LEMMA NoMoreQuestions ==
    ASSUME NEW p, NEW q, NEW h, IsHashed(p, h), IsHashed(q, h), Len(p.nodes) = Len(q.nodes)
    PROVE  ~ Len(p.unresolved) < Len(q.unresolved)
<1> SUFFICES ASSUME Len(p.unresolved) < Len(q.unresolved) PROVE FALSE
  OBVIOUS
<1> DEFINE a == Len(p.nodes)
           b == Len(p.unresolved)
           c == Len(p.cites)
           n == Len(q.unresolved)
           o == Len(q.cites)
<1>1. a \in Nat /\ b \in Nat /\ c \in Nat /\ n \in Nat /\ o \in Nat
  BY DEF IsHashed
<1>2. a + b + c = a + n + o /\ b < n
  BY DEF IsHashed, Length
<1>3. b + 1 \in 1..n /\ 1 \in 1..c /\ a + (b + 1) = a + b + 1
  <2> HIDE DEF a, b, c, n, o
  <2> QED BY <1>1, <1>2
<1>4. h[a + (b + 1)].hash = << >>
  <2>1. \A i \in 1..n : h[a + i].hash = << >>
    BY DEF IsHashed
  <2> HIDE DEF a, b, n
  <2> QED BY <1>3, <2>1
<1>5. h[a + b + 1].hash # << >>
  BY <1>3 DEF IsHashed
<1> HIDE DEF a, b
<1> QED BY <1>3, <1>4, <1>5

LEMMA SameElements ==
    ASSUME NEW S, NEW T, NEW s \in Seq(S), NEW t \in Seq(T), Len(s) = Len(t),
           \A i \in 1..Len(s) : s[i] = t[i]
    PROVE  s = t
<1>1. s \in Seq(S \cup T) /\ t \in Seq(S \cup T)
  OBVIOUS
<1> QED BY <1>1

\* Equal hashes are of equal pins.
SamePin(p, q) == p.nodes = q.nodes /\ p.unresolved = q.unresolved /\ p.cites = q.cites

LEMMA HashesTellPinsApart ==
    ASSUME NEW p, NEW q, WellPinned(p), WellPinned(q), SetHash(p) = SetHash(q)
    PROVE  SamePin(p, q)
<1> DEFINE h == SetHash(p)
<1>1. IsHashed(p, h) /\ IsHashed(q, h)
  BY HashesAreOfLines
<1> HIDE DEF h
<1>2. /\ Len(p.nodes) \in Nat /\ Len(q.nodes) \in Nat
      /\ Len(p.unresolved) \in Nat /\ Len(q.unresolved) \in Nat
      /\ Len(p.cites) \in Nat /\ Len(q.cites) \in Nat
      /\ Len(p.nodes) + Len(p.unresolved) + Len(p.cites) = Len(q.nodes) + Len(q.unresolved) + Len(q.cites)
  BY <1>1 DEF IsHashed, Length
<1>3. ~ Len(p.nodes) < Len(q.nodes) /\ ~ Len(q.nodes) < Len(p.nodes)
  BY <1>1, NoMoreRows
<1>4. Len(p.nodes) = Len(q.nodes)
  BY <1>2, <1>3
<1>5. ~ Len(p.unresolved) < Len(q.unresolved) /\ ~ Len(q.unresolved) < Len(p.unresolved)
  BY <1>1, <1>4, NoMoreQuestions
<1>6. Len(p.unresolved) = Len(q.unresolved) /\ Len(p.cites) = Len(q.cites)
  <2>1. \A a, b, c, a2, b2, c2 \in Nat :
           a + b + c = a2 + b2 + c2 /\ a = a2 /\ ~ b < b2 /\ ~ b2 < b => b = b2 /\ c = c2
    OBVIOUS
  <2> DEFINE a == Len(p.nodes)
             b == Len(p.unresolved)
             c == Len(p.cites)
             a2 == Len(q.nodes)
             b2 == Len(q.unresolved)
             c2 == Len(q.cites)
  <2>2. /\ a \in Nat /\ b \in Nat /\ c \in Nat /\ a2 \in Nat /\ b2 \in Nat /\ c2 \in Nat
        /\ a + b + c = a2 + b2 + c2 /\ a = a2 /\ ~ b < b2 /\ ~ b2 < b
    BY <1>2, <1>4, <1>5
  <2> HIDE DEF a, b, c, a2, b2, c2
  <2>3. b = b2 /\ c = c2
    BY <2>1, <2>2
  <2> QED BY <2>3 DEF b, b2, c, c2
<1>7. /\ \A i \in 1..Len(p.nodes) : p.nodes[i] = q.nodes[i]
      /\ \A i \in 1..Len(p.unresolved) : p.unresolved[i] = q.unresolved[i]
      /\ \A i \in 1..Len(p.cites) : p.cites[i] = q.cites[i]
  <2>1. /\ \A i \in 1..Len(p.nodes) : h[i] = p.nodes[i]
        /\ \A i \in 1..Len(q.nodes) : h[i] = q.nodes[i]
    BY <1>1 DEF IsHashed
  <2>2. /\ \A i \in 1..Len(p.unresolved) : h[Len(p.nodes) + i].id = p.unresolved[i]
        /\ \A i \in 1..Len(q.unresolved) : h[Len(q.nodes) + i].id = q.unresolved[i]
    BY <1>1 DEF IsHashed
  <2>3. /\ \A i \in 1..Len(p.cites) : h[Len(p.nodes) + Len(p.unresolved) + i] = p.cites[i]
        /\ \A i \in 1..Len(q.cites) : h[Len(q.nodes) + Len(q.unresolved) + i] = q.cites[i]
    BY <1>1 DEF IsHashed
  <2>4. \A i \in 1..Len(p.nodes) : p.nodes[i] = q.nodes[i]
    BY <1>4, <2>1
  <2>5. \A i \in 1..Len(p.unresolved) : p.unresolved[i] = q.unresolved[i]
    BY <1>4, <1>6, <2>2
  <2>6. \A i \in 1..Len(p.cites) : p.cites[i] = q.cites[i]
    BY <1>4, <1>6, <2>3
  <2> QED BY <2>4, <2>5, <2>6
<1>8. /\ p.nodes \in Seq(ToSet(p.nodes)) /\ q.nodes \in Seq(ToSet(q.nodes))
      /\ p.unresolved \in Seq(Ids) /\ q.unresolved \in Seq(Ids)
      /\ p.cites \in Seq(ToSet(p.cites)) /\ q.cites \in Seq(ToSet(q.cites))
  BY DEF WellPinned, IsList
<1>9. p.nodes = q.nodes
  BY <1>4, <1>7, <1>8, SameElements
<1>10. p.unresolved = q.unresolved
  <2> DEFINE v == p.unresolved
             w == q.unresolved
  <2>1. v \in Seq(Ids) /\ w \in Seq(Ids) /\ Len(v) = Len(w) /\ \A i \in 1..Len(v) : v[i] = w[i]
    BY <1>6, <1>7, <1>8
  <2> HIDE DEF v, w
  <2>2. v = w
    BY <2>1
  <2> QED BY <2>2 DEF v, w
<1>11. p.cites = q.cites
  BY <1>6, <1>7, <1>8, SameElements
<1> QED BY <1>9, <1>10, <1>11 DEF SamePin

LEMMA SamePinsSayTheSame ==
    ASSUME NEW p, NEW q, SamePin(p, q)
    PROVE  /\ SaidBy(p) = SaidBy(q)
           /\ NothingSaid(DiffPins(p, q))
<1>1. LinesOf(p) = LinesOf(q)
  BY DEF LinesOf, SamePin
<1>2. \A id : TheLine(p, id) = TheLine(q, id)
  BY <1>1 DEF TheLine
<1>3. SaidBy(p) = SaidBy(q)
  BY <1>1, <1>2 DEF SaidBy, SamePin
<1> QED BY <1>3 DEF SamePin, DiffPins, NothingSaid

LEMMA TheOnlyLine ==
    ASSUME NEW s, \A i, j \in DOMAIN s : s[i].id = s[j].id => i = j, NEW i \in DOMAIN s
    PROVE  HashIn(s, s[i].id) = i
<1> DEFINE k == HashIn(s, s[i].id)
<1>1. k \in DOMAIN s /\ s[k].id = s[i].id
  BY DEF HashIn
<1> HIDE DEF k
<1>2. k = i
  BY <1>1
<1> QED BY <1>2 DEF k

\* Rows of the same ids are as many.
LEMMA SameIdsAreAsMany ==
    ASSUME NEW p, NEW q, WellPinned(p), WellPinned(q), IdsOf(p.nodes) = IdsOf(q.nodes)
    PROVE  Len(p.nodes) = Len(q.nodes)
<1> DEFINE S == IdsOf(p.nodes)
<1>1. ASSUME NEW x, WellPinned(x), IdsOf(x.nodes) = S
      PROVE  Len(x.nodes) = Cardinality(S)
  <2> DEFINE row == [i \in DOMAIN x.nodes |-> x.nodes[i].id]
  <2>1. x.nodes \in Seq(ToSet(x.nodes))
    BY <1>1 DEF WellPinned, IsList
  <2>2. Len(x.nodes) \in Nat /\ DOMAIN x.nodes = 1..Len(x.nodes)
    BY <2>1
  <2>3. S = {x.nodes[i].id : i \in DOMAIN x.nodes}
    BY <1>1 DEF IdsOf
  <2> HIDE DEF S
  <2>4. \A i \in DOMAIN x.nodes : x.nodes[i].id \in S
    BY <2>3
  <2>5. row \in [1..Len(x.nodes) -> S] /\ DOMAIN row = 1..Len(x.nodes)
    BY <2>2, <2>4
  <2>6. \A i, j \in DOMAIN x.nodes : x.nodes[i].id = x.nodes[j].id => i = j
    BY <1>1 DEF WellPinned
  <2>7. IsInjective(row) /\ ToSet(row) = S
    BY <2>3, <2>6 DEF IsInjective, ToSet
  <2> HIDE DEF row
  <2>8. row \in Seq(S)
    BY <2>2, <2>5, SeqDef
  <2>9. Enumerates(row, S)
    BY <2>7, <2>8 DEF Enumerates
  <2>10. S \subseteq Ids
    <3>1. \A i \in DOMAIN x.nodes : x.nodes[i] \in LinesOf(x)
      BY DEF LinesOf, ToSet
    <3>2. \A line \in LinesOf(x) : line.id \in Ids
      BY <1>1 DEF WellPinned
    <3> QED BY <2>3, <3>1, <3>2
  <2>11. IsFiniteSet(S)
    BY <2>10, CorpusAssumption, FS_Subset
  <2>12. row \in SetToSeqs(S)
    BY <2>9, <2>11, OrdersList
  <2>13. row \in [1..Cardinality(S) -> S]
    BY <2>12 DEF SetToSeqs
  <2>14. Cardinality(S) \in Nat
    BY <2>11, FS_CardinalityType
  <2>15. 1..Cardinality(S) = 1..Len(x.nodes)
    BY <2>5, <2>13
  <2> DEFINE a == Cardinality(S)
             b == Len(x.nodes)
  <2>16. a \in Nat /\ b \in Nat /\ 1..a = 1..b
    BY <2>2, <2>14, <2>15
  <2> HIDE DEF a, b
  <2>17. a = b
    <3>1. a <= b
      <4>1. a = 0 \/ a \in 1..a
        BY <2>16
      <4> QED BY <2>16, <4>1
    <3>2. b <= a
      <4>1. b = 0 \/ b \in 1..b
        BY <2>16
      <4> QED BY <2>16, <4>1
    <3> QED BY <2>16, <3>1, <3>2
  <2> QED BY <2>17 DEF a, b
<1>2. Len(p.nodes) = Cardinality(S)
  BY <1>1
<1>3. Len(q.nodes) = Cardinality(S)
  BY <1>1
<1> QED BY <1>2, <1>3

\* Where nothing is said to have moved but what is cited, nothing has.
LEMMA NothingSaidIsNothingMoved ==
    ASSUME NEW p, NEW q, WellPinned(p), WellPinned(q), NothingSaid(DiffPins(p, q)), p.cites = q.cites
    PROVE  SetHash(p) = SetHash(q)
<1> DEFINE was == IdsOf(p.nodes)
           is == IdsOf(q.nodes)
           d == DiffPins(p, q)
<1>1. /\ d.added = {} /\ d.removed = {} /\ d.changed = {} /\ d.resolved = {} /\ d.holes = {}
      /\ ~ d.reordered
  BY DEF NothingSaid
<1>2. /\ d.added = is \ was /\ d.removed = was \ is
      /\ d.changed = {id \in was \cap is : p.nodes[HashIn(p.nodes, id)].hash # q.nodes[HashIn(q.nodes, id)].hash}
      /\ d.resolved = ToSet(p.unresolved) \ ToSet(q.unresolved)
      /\ d.holes = ToSet(q.unresolved) \ ToSet(p.unresolved)
      /\ d.reordered = (was = is /\ \E i \in DOMAIN p.nodes : p.nodes[i].id # q.nodes[i].id)
  BY DEF DiffPins
<1> HIDE DEF was, is, d
<1>3. was = is
  BY <1>1, <1>2
<1>4. ToSet(p.unresolved) = ToSet(q.unresolved)
  BY <1>1, <1>2
<1>5. p.unresolved = q.unresolved
  BY <1>4 DEF WellPinned
<1>6. \A i \in DOMAIN p.nodes : p.nodes[i].id = q.nodes[i].id
  BY <1>1, <1>2, <1>3
<1>7. \A id \in was : p.nodes[HashIn(p.nodes, id)].hash = q.nodes[HashIn(q.nodes, id)].hash
  BY <1>1, <1>2, <1>3
<1>8. Len(p.nodes) = Len(q.nodes)
  BY <1>3, SameIdsAreAsMany DEF was, is
<1>9. p.nodes \in Seq(ToSet(p.nodes)) /\ q.nodes \in Seq(ToSet(q.nodes))
  BY DEF WellPinned, IsList
<1>10. DOMAIN p.nodes = 1..Len(p.nodes) /\ DOMAIN q.nodes = 1..Len(p.nodes)
  BY <1>8, <1>9
<1>11. ASSUME NEW i \in DOMAIN p.nodes PROVE p.nodes[i] = q.nodes[i]
  <2>1. i \in DOMAIN q.nodes
    BY <1>10
  <2>2. HashIn(p.nodes, p.nodes[i].id) = i
    BY TheOnlyLine DEF WellPinned
  <2>3. HashIn(q.nodes, q.nodes[i].id) = i
    BY <2>1, TheOnlyLine DEF WellPinned
  <2>4. p.nodes[i].id \in was
    BY DEF was, IdsOf
  <2>5. p.nodes[i].hash = q.nodes[i].hash
    BY <1>6, <1>7, <2>2, <2>3, <2>4
  <2>6. p.nodes[i] \in LinesOf(p) /\ q.nodes[i] \in LinesOf(q)
    BY <2>1 DEF LinesOf, ToSet
  <2>7. /\ p.nodes[i] = [id |-> p.nodes[i].id, hash |-> p.nodes[i].hash]
        /\ q.nodes[i] = [id |-> q.nodes[i].id, hash |-> q.nodes[i].hash]
    BY <2>6 DEF WellPinned
  <2>8. p.nodes[i].id = q.nodes[i].id
    BY <1>6
  <2> QED BY <2>5, <2>7, <2>8
<1>12. p.nodes = q.nodes
  <2> DEFINE v == p.nodes
             w == q.nodes
  <2>1. v \in Seq(ToSet(v)) /\ w \in Seq(ToSet(w)) /\ Len(v) = Len(w) /\ \A i \in 1..Len(v) : v[i] = w[i]
    BY <1>8, <1>9, <1>10, <1>11
  <2> HIDE DEF v, w
  <2>2. v = w
    BY <2>1, SameElements
  <2> QED BY <2>2 DEF v, w
<1> QED BY <1>5, <1>12 DEF SetHash

-----------------------------------------------------------------------------
(* Standing questions. *)

\* An entry of the file, as it is written: what it has on record was accepted, under the
\* text that is on record.
IsBacked(name, st, given) ==
    /\ DOMAIN st = {"query", "query_hash", "pin", "ladder"}
    /\ st.query \in DOMAIN Texts
    /\ st.pin # None =>
          /\ WellPinned(st.pin)
          /\ st.query_hash # None
          /\ [name |-> name, query |-> st.query_hash, saw |-> SaidBy(st.pin)] \in given

Backed(set, given) == \A name \in DOMAIN set : IsBacked(name, set[name], given)

\* Of the file, of what is to be written, and of what was loaded.
StandingInv ==
    /\ IInv
    /\ Backed(file, accepted)
    /\ DOMAIN pc = Procs /\ DOMAIN loaded = Procs /\ DOMAIN edited = Procs
    /\ \A p \in Procs : Backed(edited[p], accepted)
    /\ \A p \in Procs : pc[p] = "loaded" => DOMAIN loaded[p].graph.nodes \subseteq Ids

LEMMA BackedStays ==
    ASSUME NEW set, NEW given, NEW more, Backed(set, given), given \subseteq more
    PROVE  Backed(set, more)
BY DEF Backed, IsBacked

LEMMA NothingIsBacked == ASSUME NEW given PROVE Backed(<< >>, given)
BY DEF Backed

LEMMA WithBacked ==
    ASSUME NEW set, NEW given, Backed(set, given), NEW name, NEW st, IsBacked(name, st, given)
    PROVE  Backed(With(set, name, st), given)
<1> DEFINE more == With(set, name, st)
<1>1. DOMAIN more = DOMAIN set \cup {name}
  BY DEF With
<1>2. \A n \in DOMAIN more : more[n] = IF n = name THEN st ELSE set[n]
  BY DEF With
<1> HIDE DEF more
<1>3. ASSUME NEW n \in DOMAIN more PROVE IsBacked(n, more[n], given)
  <2>1. CASE n = name
    <3>1. more[n] = st
      BY <1>2, <2>1
    <3> QED BY <2>1, <3>1
  <2>2. CASE n # name
    <3>1. more[n] = set[n] /\ n \in DOMAIN set
      BY <1>1, <1>2, <2>2
    <3> QED BY <3>1 DEF Backed
  <2> QED BY <2>1, <2>2
<1>4. Backed(more, given)
  BY <1>3 DEF Backed
<1> QED BY <1>4 DEF more

LEMMA RegisteredIsBacked ==
    ASSUME NEW set, NEW given, Backed(set, given), NEW name, NEW text \in DOMAIN Texts
    PROVE  Backed(Registered(set, name, text), given)
<1> DEFINE hash == IF name \in DOMAIN set THEN set[name].query_hash ELSE None
           st == Question(set, name, text, hash)
<1>1. IsBacked(name, st, given)
  <2>1. CASE name \in DOMAIN set
    <3> DEFINE old == set[name]
    <3>1. IsBacked(name, old, given)
      BY <2>1 DEF Backed
    <3>2. hash = old.query_hash
      BY <2>1
    <3>3. st = [old EXCEPT !.query = text, !.query_hash = hash, !.ladder = BuiltIn]
      BY <2>1 DEF Question
    <3> HIDE DEF old, hash, st
    <3>4. DOMAIN old = {"query", "query_hash", "pin", "ladder"}
      BY <3>1 DEF IsBacked
    <3>5. DOMAIN st = DOMAIN old /\ st.query = text /\ st.query_hash = hash /\ st.pin = old.pin
      BY <3>3, <3>4
    <3> QED BY <3>1, <3>2, <3>4, <3>5 DEF IsBacked
  <2>2. CASE name \notin DOMAIN set
    <3>1. st = [query |-> text, query_hash |-> None, pin |-> None, ladder |-> BuiltIn]
      BY <2>2 DEF Question
    <3> HIDE DEF st
    <3>2. DOMAIN st = {"query", "query_hash", "pin", "ladder"} /\ st.query = text /\ st.pin = None
      BY <3>1
    <3> QED BY <3>2 DEF IsBacked
  <2> QED BY <2>1, <2>2
<1>2. Registered(set, name, text) = With(set, name, st)
  BY DEF Registered
<1> HIDE DEF st
<1> QED BY <1>1, <1>2, WithBacked

\* What is answered has a pin that is well made and says what is committed to.
LEMMA AskedIsPinned ==
    ASSUME NEW st, st.query \in DOMAIN Texts, NEW w, DOMAIN w.graph.nodes \subseteq Ids, NEW a \in Ask(st, w)
    PROVE  /\ WellPinned(a.pin)
           /\ Commitments(w, a.pin) = SaidBy(a.pin)
           /\ a.drift = Drift(st, a.pin, w)
<1> DEFINE q == Texts[st.query]
           all == Resolutions(w.graph, q, w.today)
<1>1. q \in Forms
  BY StandingAssumption
<1>2. PICK r \in all : r.ok /\ a = [rows |-> r.pin.nodes, pin |-> r.pin, drift |-> Drift(st, r.pin, w)]
  BY DEF Ask
<1> HIDE DEF q
<1>3. PICK answer \in Answers(w.graph, q, w.today) :
         r = IF answer.ok THEN [ok |-> TRUE, pin |-> PinOf(w.graph, answer.ids, w.today)] ELSE [ok |-> FALSE]
  BY <1>2 DEF Resolutions
<1>4. r.pin = PinOf(w.graph, answer.ids, w.today)
  <2>1. CASE answer.ok
    BY <1>3, <2>1
  <2>2. CASE ~ answer.ok
    <3>1. r = [ok |-> FALSE]
      BY <1>3, <2>2
    <3> QED BY <1>2, <3>1
  <2> QED BY <2>1, <2>2
<1>5. IsRow(w.graph, answer.ids)
  <2> DEFINE inside == {}
  <2>1. inside \in SUBSET Named /\ NoScope \in Scopes
    <3>1. NoDate \in Nat
      BY DEF NoDate
    <3> QED BY <3>1 DEF NoScope, Scopes
  <2>2. Answers(w.graph, q, w.today) = Evaluations(w.graph, w.today)[<<q, inside, NoScope>>]
    BY DEF Answers
  <2> HIDE DEF inside
  <2>3. HaveRows(w.graph, Evaluations(w.graph, w.today)[<<q, inside, NoScope>>])
    BY <1>1, <2>1, EveryAnswerHasRows
  <2> QED BY <2>2, <2>3 DEF HaveRows
<1>6. WellPinned(PinOf(w.graph, answer.ids, w.today))
  BY <1>5, PinsAreWellMade
<1>7. Commitments(w, PinOf(w.graph, answer.ids, w.today)) = SaidBy(PinOf(w.graph, answer.ids, w.today))
  BY <1>5, PinsSayWhatIsCommitted
<1> QED BY <1>2, <1>4, <1>6, <1>7

\* What a comparison with the record says.
LEMMA DriftSays ==
    ASSUME NEW st, st.pin # None, NEW pin, NEW w
    PROVE  /\ "results-changed" \in Drift(st, pin, w) <=> SetHash(st.pin) # SetHash(pin)
           /\ "query-changed" \in Drift(st, pin, w) <=> st.query_hash # None /\ st.query_hash # st.query
BY DEF Drift

\* What commands leave alone, and what the world does.
Unmoved == UNCHANGED <<vars, file, commands, accepted>>

LEMMA StandingInit == InitStanding => StandingInv
<1> SUFFICES ASSUME InitStanding PROVE StandingInv
  OBVIOUS
<1>1. IInv
  BY InitEstablishes DEF InitStanding
<1>2. /\ file = << >> /\ pc = [p \in Procs |-> "idle"] /\ loaded = [p \in Procs |-> None]
      /\ edited = [p \in Procs |-> << >>]
  BY DEF InitStanding, Init2
<1>3. Backed(file, accepted)
  BY <1>2, NothingIsBacked
<1>4. \A p \in Procs : Backed(edited[p], accepted) /\ pc[p] # "loaded"
  BY <1>2, NothingIsBacked
<1> QED BY <1>1, <1>2, <1>3, <1>4 DEF StandingInv

LEMMA IInvStays == ASSUME IInv, UNCHANGED vars PROVE IInv'
BY NextPreserves

\* An edit writes what is backed.
LEMMA EditKeeps ==
    ASSUME StandingInv, NEW p \in Procs, NEW set, Edit(p, set), Backed(set, accepted'),
           accepted \subseteq accepted'
    PROVE  StandingInv'
<1>1. UNCHANGED vars /\ UNCHANGED file
  BY DEF Edit, world
<1>2. /\ pc' = [pc EXCEPT ![p] = "writing"] /\ edited' = [edited EXCEPT ![p] = set]
      /\ loaded' = [loaded EXCEPT ![p] = None]
  BY DEF Edit, Goto
<1>3. IInv'
  BY <1>1, IInvStays DEF StandingInv
<1>4. Backed(file, accepted)' /\ \A r \in Procs : Backed(edited[r], accepted')
  BY <1>1, BackedStays DEF StandingInv
<1>5. \A r \in Procs : Backed(edited'[r], accepted')
  BY <1>2, <1>4 DEF StandingInv
<1>6. \A r \in Procs : pc'[r] = "loaded" => r # p /\ pc[r] = "loaded" /\ loaded'[r] = loaded[r]
  BY <1>2 DEF StandingInv
<1>7. DOMAIN pc' = Procs /\ DOMAIN loaded' = Procs /\ DOMAIN edited' = Procs
  BY <1>2 DEF StandingInv
<1> QED BY <1>3, <1>4, <1>5, <1>6, <1>7 DEF StandingInv

LEMMA StandingNext == StandingInv /\ [NextStanding]_allVars => StandingInv'
<1> SUFFICES ASSUME StandingInv, [NextStanding]_allVars PROVE StandingInv'
  OBVIOUS
<1>0. IInv /\ Backed(file, accepted) /\ DOMAIN graph.nodes \subseteq Ids
  <2>1. IInv
    BY DEF StandingInv
  <2>2. Whole(graph)
    BY <2>1, GraphIsWhole
  <2> QED BY <2>1, <2>2 DEF StandingInv, Whole
<1>1. ASSUME IInv', UNCHANGED <<file, commands, accepted>> PROVE StandingInv'
  BY <1>1 DEF StandingInv, commands
<1>2. CASE UNCHANGED allVars
  <2>1. UNCHANGED vars /\ UNCHANGED <<file, commands, accepted>>
    BY <1>2 DEF allVars, standingVars, world
  <2> QED BY <1>0, <1>1, <2>1, IInvStays
<1>3. CASE Corpus
  <2>1. Next
    <3>1. CASE \E n \in DOMAIN draft : Relate(n)
      BY <3>1 DEF Next
    <3>2. CASE \E id \in DOMAIN nodes, r \in Restatements : AssertAgain(id, r[2])
      BY <3>2 DEF Next
    <3> QED BY <1>3, <3>1, <3>2 DEF Corpus
  <2>2. UNCHANGED <<file, commands, accepted>>
    BY <1>3 DEF Corpus, standingVars, world
  <2> QED BY <1>0, <1>1, <2>1, <2>2, NextPreserves
<1>4. ASSUME Unmoved PROVE StandingInv'
  <2>1. UNCHANGED vars /\ UNCHANGED <<file, commands, accepted>>
    BY <1>4 DEF Unmoved
  <2> QED BY <1>0, <1>1, <2>1, IInvStays
<1>5. CASE NextDay
  BY <1>4, <1>5 DEF NextDay, Elsewhere, Unmoved
<1>6. CASE EditLadder
  BY <1>4, <1>6 DEF EditLadder, Elsewhere, Unmoved
<1>7. CASE \E s \in DOMAIN nodes : nodes[s].kind = "source" /\ MoveDocument(s)
  BY <1>4, <1>7 DEF MoveDocument, Elsewhere, Unmoved
<1>8. ASSUME NEW p \in Procs, Load(p) PROVE StandingInv'
  <2>1. /\ UNCHANGED vars /\ UNCHANGED file /\ UNCHANGED edited /\ UNCHANGED accepted
        /\ pc' = [pc EXCEPT ![p] = "loaded"] /\ loaded' = [loaded EXCEPT ![p] = World]
    BY <1>8 DEF Load, Goto, world
  <2>2. IInv'
    BY <1>0, <2>1, IInvStays
  <2>3. World.graph = graph
    BY DEF World
  <2> DEFINE w == World
  <2>4. w.graph = graph
    BY <2>3
  <2> HIDE DEF w
  <2>5. \A r \in Procs : pc'[r] = "loaded" => DOMAIN loaded'[r].graph.nodes \subseteq Ids
    <3> SUFFICES ASSUME NEW r \in Procs, pc'[r] = "loaded" PROVE DOMAIN loaded'[r].graph.nodes \subseteq Ids
      OBVIOUS
    <3>1. CASE r = p
      <4>1. loaded'[r] = w
        BY <2>1, <3>1 DEF StandingInv, w
      <4> QED BY <1>0, <2>4, <4>1
    <3>2. CASE r # p
      <4>1. loaded'[r] = loaded[r] /\ pc[r] = "loaded"
        BY <2>1, <3>2 DEF StandingInv
      <4> QED BY <4>1 DEF StandingInv
    <3> QED BY <3>1, <3>2
  <2>6. DOMAIN pc' = Procs /\ DOMAIN loaded' = Procs /\ DOMAIN edited' = Procs
    BY <2>1 DEF StandingInv
  <2> QED BY <2>1, <2>2, <2>5, <2>6 DEF StandingInv
<1>9. ASSUME NEW p \in Procs, Empty(p) PROVE StandingInv'
  <2>1. /\ UNCHANGED vars /\ UNCHANGED edited /\ UNCHANGED accepted /\ UNCHANGED loaded
        /\ file' = << >> /\ pc' = [pc EXCEPT ![p] = IF edited[p] = << >> THEN "idle" ELSE "torn"]
    BY <1>9 DEF Empty, Goto
  <2>2. IInv'
    BY <1>0, <2>1, IInvStays
  <2>3. Backed(file, accepted)'
    BY <2>1, NothingIsBacked
  <2>4. \A r \in Procs : pc'[r] = "loaded" => pc[r] = "loaded"
    BY <2>1 DEF StandingInv
  <2>5. DOMAIN pc' = Procs
    BY <2>1 DEF StandingInv
  <2> QED BY <2>1, <2>2, <2>3, <2>4, <2>5 DEF StandingInv
<1>10. ASSUME NEW p \in Procs, Fill(p) PROVE StandingInv'
  <2>1. /\ UNCHANGED vars /\ UNCHANGED accepted /\ UNCHANGED loaded /\ file' = edited[p]
        /\ pc' = [pc EXCEPT ![p] = "idle"] /\ edited' = [edited EXCEPT ![p] = << >>]
    BY <1>10 DEF Fill, Goto
  <2>2. IInv'
    BY <1>0, <2>1, IInvStays
  <2>3. Backed(file, accepted)'
    BY <2>1 DEF StandingInv
  <2>4. \A r \in Procs : Backed(edited'[r], accepted')
    BY <2>1, NothingIsBacked DEF StandingInv
  <2>5. \A r \in Procs : pc'[r] = "loaded" => pc[r] = "loaded"
    BY <2>1 DEF StandingInv
  <2>6. DOMAIN pc' = Procs /\ DOMAIN edited' = Procs
    BY <2>1 DEF StandingInv
  <2> QED BY <2>1, <2>2, <2>3, <2>4, <2>5, <2>6 DEF StandingInv
<1>11. ASSUME NEW p \in Procs, Die(p) PROVE StandingInv'
  <2>1. /\ UNCHANGED vars /\ UNCHANGED accepted /\ UNCHANGED file
        /\ loaded' = [loaded EXCEPT ![p] = None]
        /\ pc' = [pc EXCEPT ![p] = "idle"] /\ edited' = [edited EXCEPT ![p] = << >>]
    BY <1>11 DEF Die, world
  <2>2. IInv'
    BY <1>0, <2>1, IInvStays
  <2>3. Backed(file, accepted)'
    BY <1>0, <2>1
  <2>4. \A r \in Procs : Backed(edited'[r], accepted')
    BY <2>1, NothingIsBacked DEF StandingInv
  <2>5. \A r \in Procs : pc'[r] = "loaded" => pc[r] = "loaded" /\ loaded'[r] = loaded[r]
    BY <2>1 DEF StandingInv
  <2>6. DOMAIN pc' = Procs /\ DOMAIN edited' = Procs /\ DOMAIN loaded' = Procs
    BY <2>1 DEF StandingInv
  <2> QED BY <2>1, <2>2, <2>3, <2>4, <2>5, <2>6 DEF StandingInv
<1>12. ASSUME NEW p \in Procs, NEW name, NEW text \in DOMAIN Texts, Register(p, name, text) PROVE StandingInv'
  <2>1. Edit(p, Registered(file, name, text)) /\ accepted' = accepted
    BY <1>12 DEF Register
  <2>2. Backed(Registered(file, name, text), accepted)
    BY <1>0, RegisteredIsBacked
  <2> QED BY <2>1, <2>2, EditKeeps
<1>13. ASSUME NEW p \in Procs, NEW name, Unregister(p, name) PROVE StandingInv'
  <2> DEFINE set == [n \in DOMAIN file \ {name} |-> file[n]]
  <2>1. Edit(p, set) /\ accepted' = accepted
    BY <1>13 DEF Unregister
  <2>2. Backed(set, accepted)
    BY <1>0 DEF Backed
  <2> HIDE DEF set
  <2> QED BY <2>1, <2>2, EditKeeps
<1>14. ASSUME NEW p \in Procs, NEW name, Acknowledge(p, name) PROVE StandingInv'
  <2> DEFINE w == loaded[p]
  <2>1. PICK a \in Ask(file[name], w) :
           /\ Edit(p, Acknowledged(file, name, a, w))
           /\ accepted' = accepted \cup
                 {[name |-> name, query |-> file[name].query, saw |-> Commitments(w, a.pin)]}
    BY <1>14 DEF Acknowledge
  <2>2. name \in DOMAIN file /\ pc[p] = "loaded"
    BY <1>14 DEF Acknowledge
  <2>3. DOMAIN w.graph.nodes \subseteq Ids /\ file[name].query \in DOMAIN Texts
    BY <1>0, <2>2 DEF StandingInv, Backed, IsBacked
  <2> HIDE DEF w
  <2>4. WellPinned(a.pin) /\ Commitments(w, a.pin) = SaidBy(a.pin)
    BY <2>1, <2>3, AskedIsPinned
  <2>5. accepted \subseteq accepted'
        /\ [name |-> name, query |-> file[name].query, saw |-> SaidBy(a.pin)] \in accepted'
    BY <2>1, <2>4
  <2> DEFINE st == [query |-> file[name].query, query_hash |-> file[name].query,
                    pin |-> a.pin, ladder |-> w.ladder]
  <2>6. IsBacked(name, st, accepted')
    <3>1. /\ DOMAIN st = {"query", "query_hash", "pin", "ladder"}
          /\ st.query = file[name].query /\ st.query_hash = file[name].query /\ st.pin = a.pin
      OBVIOUS
    <3>2. file[name].query # None
      BY <2>3, StandingAssumption
    <3> HIDE DEF st
    <3> QED BY <2>3, <2>4, <2>5, <3>1, <3>2 DEF IsBacked
  <2>7. Backed(file, accepted')
    BY <1>0, <2>5, BackedStays
  <2>8. Acknowledged(file, name, a, w) = With(file, name, st)
    BY DEF Acknowledged
  <2> HIDE DEF st
  <2>9. Backed(Acknowledged(file, name, a, w), accepted')
    BY <2>6, <2>7, <2>8, WithBacked
  <2> QED BY <2>1, <2>5, <2>9, EditKeeps
<1> QED
  BY <1>2, <1>3, <1>5, <1>6, <1>7, <1>8, <1>9, <1>10, <1>11, <1>12, <1>13, <1>14 DEF NextStanding

\* Whoever edits standing.yaml, and whoever dies doing it, every pin on file is one that
\* was accepted under the text on record (Acknowledge, WriteStanding).
THEOREM StandingInvariance == StandingSpec => []StandingInv
BY StandingInit, StandingNext, PTL DEF StandingSpec

\* What is asked again, of what is on file.
LEMMA OnFile ==
    ASSUME StandingInv, NEW name \in DOMAIN file, NEW a \in Ask(file[name], World)
    PROVE  /\ IsBacked(name, file[name], accepted)
           /\ WellPinned(a.pin)
           /\ Commitments(World, a.pin) = SaidBy(a.pin)
           /\ a.drift = Drift(file[name], a.pin, World)
<1> DEFINE w == World
<1>1. w.graph = graph
  BY DEF World
<1>2. Whole(graph)
  BY GraphIsWhole DEF StandingInv
<1>3. DOMAIN w.graph.nodes \subseteq Ids
  BY <1>1, <1>2 DEF Whole
<1>4. IsBacked(name, file[name], accepted)
  BY DEF StandingInv, Backed
<1>5. file[name].query \in DOMAIN Texts
  BY <1>4 DEF IsBacked
<1> HIDE DEF w
<1>6. a \in Ask(file[name], w)
  BY DEF w
<1>7. WellPinned(a.pin) /\ Commitments(w, a.pin) = SaidBy(a.pin) /\ a.drift = Drift(file[name], a.pin, w)
  BY <1>3, <1>5, <1>6, AskedIsPinned
<1> QED BY <1>4, <1>7 DEF w

\* An answer that reports no drift is the one that was accepted: whoever edited the file
\* at the same time or died doing so (Ask, Acknowledge, WriteStanding).
THEOREM FreshIsAccepted == StandingSpec => []FreshWasAccepted
<1>1. StandingInv => FreshWasAccepted
  <2> SUFFICES ASSUME StandingInv, NEW name \in DOMAIN file, NEW a \in Ask(file[name], World), a.drift = {}
               PROVE  [name |-> name, query |-> file[name].query, saw |-> Commitments(World, a.pin)] \in accepted
    BY DEF FreshWasAccepted
  <2> DEFINE st == file[name]
             w == World
  <2>1. /\ IsBacked(name, st, accepted) /\ WellPinned(a.pin)
        /\ Commitments(w, a.pin) = SaidBy(a.pin) /\ a.drift = Drift(st, a.pin, w)
    BY OnFile
  <2> HIDE DEF st, w
  <2>2. st.pin # None
    <3> SUFFICES ASSUME st.pin = None PROVE FALSE
      OBVIOUS
    <3>1. Drift(st, a.pin, w) = {"never-asked"}
      BY DEF Drift
    <3> QED BY <2>1, <3>1
  <2>3. SetHash(st.pin) = SetHash(a.pin) /\ (st.query_hash = None \/ st.query_hash = st.query)
    BY <2>1, <2>2, DriftSays
  <2>4. /\ WellPinned(st.pin) /\ st.query_hash # None
        /\ [name |-> name, query |-> st.query_hash, saw |-> SaidBy(st.pin)] \in accepted
    BY <2>1, <2>2 DEF IsBacked
  <2>5. SaidBy(st.pin) = SaidBy(a.pin)
    <3>1. SamePin(st.pin, a.pin)
      BY <2>1, <2>3, <2>4, HashesTellPinsApart
    <3> QED BY <3>1, SamePinsSayTheSame
  <2>6. [name |-> name, query |-> st.query, saw |-> Commitments(w, a.pin)] \in accepted
    BY <2>1, <2>3, <2>4, <2>5
  <2> QED BY <2>6 DEF st, w
<1> QED BY <1>1, StandingInvariance, PTL

\* What a question says has moved and what it reports as drift go together, but for the
\* sources it cites (DiffPins, SetDelta.Empty).
THEOREM OnlySourcesMove == StandingSpec => []OnlySourcesMoveUnsaid
<1>1. StandingInv => OnlySourcesMoveUnsaid
  <2> SUFFICES ASSUME StandingInv, NEW name \in DOMAIN file, NEW a \in Ask(file[name], World),
                      file[name].pin # None
               PROVE  /\ ~ NothingSaid(DiffPins(file[name].pin, a.pin)) => "results-changed" \in a.drift
                      /\ "results-changed" \in a.drift /\ NothingSaid(DiffPins(file[name].pin, a.pin)) =>
                            file[name].pin.cites # a.pin.cites
    BY DEF OnlySourcesMoveUnsaid
  <2> DEFINE st == file[name]
             w == World
  <2>1. IsBacked(name, st, accepted) /\ WellPinned(a.pin) /\ a.drift = Drift(st, a.pin, w) /\ st.pin # None
    BY OnFile
  <2> HIDE DEF st, w
  <2>2. WellPinned(st.pin)
    BY <2>1 DEF IsBacked
  <2>3. "results-changed" \in a.drift <=> SetHash(st.pin) # SetHash(a.pin)
    BY <2>1, DriftSays
  <2>4. SetHash(st.pin) = SetHash(a.pin) => NothingSaid(DiffPins(st.pin, a.pin))
    BY <2>1, <2>2, HashesTellPinsApart, SamePinsSayTheSame
  <2>5. NothingSaid(DiffPins(st.pin, a.pin)) /\ st.pin.cites = a.pin.cites => SetHash(st.pin) = SetHash(a.pin)
    BY <2>1, <2>2, NothingSaidIsNothingMoved
  <2> QED BY <2>3, <2>4, <2>5 DEF st
<1> QED BY <1>1, StandingInvariance, PTL

-----------------------------------------------------------------------------
(* The ledgers: the corpus they stand beside stays whole. *)

LEMMA LedgersInit == InitLedgers => IInv
BY InitEstablishes DEF InitLedgers

LEMMA RewordedIsAFact ==
    ASSUME NEW n, IsFact(n), NEW text
    PROVE  IsFact([n EXCEPT !.says = text]) /\ [n EXCEPT !.says = text].kind = n.kind
BY DEF IsFact, Node

\* What a write does to the corpus.
Wrote == /\ IInv' /\ DOMAIN nodes' = DOMAIN nodes
         /\ \A id \in DOMAIN nodes : nodes'[id].kind = nodes[id].kind
         /\ draft' = draft /\ stated \subseteq stated'

LEMMA RewriteWrites == ASSUME IInv, Rewrite PROVE Wrote
<1>1. \A id \in DOMAIN nodes : IsFact(nodes[id])
  BY DEF IInv, LogInv
<1>2. CASE \E p \in DOMAIN draft : Relate(p)
  <2>1. PICK p \in DOMAIN draft : Relate(p)
    BY <1>2
  <2>2. IInv'
    BY <2>1, NextPreserves DEF Next
  <2> QED BY <2>1, <2>2 DEF Wrote, Relate
<1>3. ASSUME NEW id \in DOMAIN nodes, NEW fields, IsFact(fields), fields.kind = nodes[id].kind, Write(id, fields)
      PROVE  Wrote
  <2>1. IInv'
    BY <1>3, WritePreserves
  <2> QED BY <1>3, <2>1 DEF Wrote, Write
<1>4. ASSUME NEW id \in DOMAIN nodes PROVE {"status", "same_as", "kind"} \subseteq DOMAIN nodes[id]
  BY <1>1 DEF IsFact, Node
<1>5. ASSUME NEW id \in DOMAIN nodes, Withdraw(id) PROVE Wrote
  <2> DEFINE fields == [nodes[id] EXCEPT !.status = "withdrawn"]
  <2>1. IsFact(fields) /\ fields.kind = nodes[id].kind
    BY <1>1, <1>4 DEF IsFact, Node
  <2>2. Write(id, fields)
    BY <1>5 DEF Withdraw
  <2> HIDE DEF fields
  <2> QED BY <1>3, <2>1, <2>2
<1>6. ASSUME NEW id \in DOMAIN nodes, NEW into \in DOMAIN nodes, Retire(id, into) PROVE Wrote
  <2> DEFINE fields == [nodes[id] EXCEPT !.same_as = into]
  <2>0. into \in Ids
    BY DEF IInv, LogInv
  <2>1. IsFact(fields) /\ fields.kind = nodes[id].kind
    BY <1>1, <1>4, <2>0 DEF IsFact, Node
  <2>2. Write(id, fields)
    BY <1>6 DEF Retire
  <2> HIDE DEF fields
  <2> QED BY <1>3, <2>1, <2>2
<1>7. ASSUME NEW id \in DOMAIN nodes, NEW text, Write(id, [nodes[id] EXCEPT !.says = text]) PROVE Wrote
  <2> DEFINE fields == [nodes[id] EXCEPT !.says = text]
  <2>1. IsFact(fields) /\ fields.kind = nodes[id].kind
    BY <1>1, RewordedIsAFact
  <2>2. Write(id, fields)
    BY <1>7
  <2> HIDE DEF fields
  <2> QED BY <1>3, <2>1, <2>2
<1> QED BY <1>2, <1>5, <1>6, <1>7 DEF Rewrite

\* What no write does.
Still == UNCHANGED <<nodes, draft, stated, graph>>

LEMMA StillStays == ASSUME IInv, Still PROVE IInv'
BY DEF IInv, LogInv, GraphInv, Still

\* What a step does to the corpus and to the verdicts.
LedgersStep ==
    \/ Rewrite /\ Wrote /\ verdicts' = verdicts /\ ledger' = ledger /\ printed' = printed
    \/ /\ Still /\ verdicts' = verdicts
       /\ \/ ledger' = ledger /\ printed' = printed
          \/ \E reported \in {LoadFindings(graph)} : Scan(reported) \/ Accept(reported)
    \/ /\ Still /\ ledger' = ledger /\ printed' = printed
       /\ \E key \in Ruled, verdict \in {"confirmed", "unsupported"} :
             \/ \E by \in People \cup Machines \cup {Unsigned} : Attest(key, verdict, by)
             \/ \E by \in People \cup {Unsigned} : RuleAtWorkbench(key, verdict, by)
             \/ \E by \in Machines \cup {Unsigned} : Sync(key, by)

LEMMA LedgersNext == ASSUME IInv, [NextLedgers]_corpusAndLedgers PROVE LedgersStep
<1>1. CASE UNCHANGED corpusAndLedgers
  BY <1>1 DEF corpusAndLedgers, vars, ledgerVars, LedgersStep, Still
<1>2. CASE Rewrite
  <2>1. verdicts' = verdicts /\ ledger' = ledger /\ printed' = printed
    BY <1>2 DEF Rewrite, ledgerVars
  <2>2. Wrote
    BY <1>2, RewriteWrites
  <2> QED BY <1>2, <2>1, <2>2 DEF LedgersStep
<1>3. CASE \E reading \in Readings : Reread(reading)
  BY <1>3 DEF Reread, LedgersStep, Still
<1>4. ASSUME NEW a, Record(a) PROVE Still /\ ledger' = ledger /\ printed' = printed
  BY <1>4 DEF Record, vars, Still
<1>5. ASSUME NEW key \in Ruled, NEW verdict \in {"confirmed", "unsupported"},
             \/ \E by \in People \cup Machines \cup {Unsigned} : Attest(key, verdict, by)
             \/ \E by \in People \cup {Unsigned} : RuleAtWorkbench(key, verdict, by)
      PROVE  LedgersStep
  <2>1. Still /\ ledger' = ledger /\ printed' = printed
    BY <1>4, <1>5 DEF Attest, RuleAtWorkbench
  <2> QED BY <1>5, <2>1 DEF LedgersStep
<1>6. ASSUME NEW key \in Ruled, NEW by \in Machines \cup {Unsigned}, Sync(key, by) PROVE LedgersStep
  <2>1. Still /\ ledger' = ledger /\ printed' = printed
    BY <1>4, <1>6 DEF Sync
  <2> QED BY <1>6, <2>1 DEF LedgersStep
<1>7. ASSUME NEW reported \in {LoadFindings(graph)}, Scan(reported) \/ Accept(reported) PROVE LedgersStep
  <2>1. Still /\ verdicts' = verdicts
    BY <1>7 DEF Scan, Accept, vars, Still
  <2> QED BY <1>7, <2>1 DEF LedgersStep
<1> QED BY <1>1, <1>2, <1>3, <1>5, <1>6, <1>7 DEF NextLedgers

LEMMA LedgersKeep == IInv /\ [NextLedgers]_corpusAndLedgers => IInv'
<1> SUFFICES ASSUME IInv, [NextLedgers]_corpusAndLedgers PROVE IInv'
  OBVIOUS
<1>1. LedgersStep
  BY LedgersNext
<1> QED BY <1>1, StillStays DEF LedgersStep, Wrote

LEMMA LedgersInvariance == LedgersSpec => []IInv
BY LedgersInit, LedgersKeep, PTL DEF LedgersSpec

-----------------------------------------------------------------------------
(* A dispute is carried whole, or reported. *)

LEMMA EdgesOfTheGraph ==
    ASSUME IInv
    PROVE  graph.incident = {e \in graph.edges : e.src \in DOMAIN graph.nodes /\ e.dst \in DOMAIN graph.nodes}
<1> DEFINE es == Stated(draft, stated)
<1>1. Log(nodes, es) /\ graph = Build(nodes, es)
  BY LogOfTheGraph DEF IInv, GraphInv
<1> HIDE DEF es
<1> QED BY <1>1, BuildIsOfWhatIsLeft

LEMMA DisputeIsSplit ==
    ASSUME IInv, NEW rows, NEW id \in rows, NEW o \in Opponents(graph, id, NoDate),
           graph.nodes[id].status \notin Dead, o \notin Carried(graph, rows)
    PROVE  {id, o} \in {x.subjects : x \in SplitContradictions(graph, rows)}
<1> DEFINE g == graph
           at == Carried(g, rows)
           live(x) == Lookup(g, x) # None => g.nodes[Lookup(g, x)].status \notin Dead
           split == {e \in g.edges : /\ e.type \in {"contradicts", "supersedes"}
                                     /\ (e.src \in at) # (e.dst \in at)
                                     /\ live(e.src) /\ live(e.dst)
                                     /\ e.type = "supersedes" \/ e.one_way => e.dst \in at}
<1>1. PICK e \in g.incident :
         /\ e.type = "contradicts" /\ id \in {e.src, e.dst} /\ ~ (e.one_way /\ e.src = id)
         /\ o = Other(e, id) /\ o # id /\ Contests(g, id, o, NoDate)
  BY DEF Opponents
<1>2. e \in g.edges /\ e.src \in DOMAIN g.nodes /\ e.dst \in DOMAIN g.nodes
  BY <1>1, EdgesOfTheGraph
<1>3. {e.src, e.dst} = {id, o}
  BY <1>1 DEF Other
<1>4. id \in at
  BY DEF Carried
<1>5. g.nodes[o].status \in {"asserted", "proposed"}
  BY <1>1 DEF Contests, SupportedClaim
<1>6. \A x \in {e.src, e.dst} : live(x)
  <2>1. \A x \in {e.src, e.dst} : Lookup(g, x) = x /\ g.nodes[x].status \notin Dead
    BY <1>2, <1>3, <1>5 DEF Lookup, Dead
  <2> QED BY <2>1
<1>7. e.one_way => e.dst \in at
  BY <1>1, <1>4
<1>8. e \in split
  BY <1>1, <1>2, <1>3, <1>4, <1>6, <1>7
<1> DEFINE found(x) == Warning("split-contradiction", {x.src, x.dst}, <<"carried alone", {x.src, x.dst} \cap at>>)
<1>9. SplitContradictions(g, rows) = {found(x) : x \in split}
  BY DEF SplitContradictions
<1>10. found(e).subjects = {id, o}
  BY <1>3 DEF Warning, Finding
<1> HIDE DEF g, split, found
<1> QED BY <1>8, <1>9, <1>10 DEF g

\* Of a claim in a declared set that another contests, the other is carried in that set too,
\* or the pair is reported (CheckSplitContradiction).
THEOREM NoDisputeIsLeftOut == LedgersSpec => []DisputeIsCarried
<1>1. IInv => DisputeIsCarried
  BY DisputeIsSplit DEF DisputeIsCarried, DisputeIsCarriedIn, CarriedOrReported
<1> QED BY <1>1, LedgersInvariance, PTL

-----------------------------------------------------------------------------
(* A verdict stands over its words. *)

\* The last line on a key is one of the log.
LEMMA LastOnKey ==
    ASSUME NEW log, NEW n \in Nat, DOMAIN log = 1..n, NEW key \in DOMAIN ResolvedVerdicts(log)
    PROVE  \E i \in DOMAIN log : /\ <<log[i].fact, log[i].source>> = key
                                 /\ ResolvedVerdicts(log)[key] = log[i]
                                 /\ \A j \in DOMAIN log : <<log[j].fact, log[j].source>> = key => j <= i
<1> DEFINE on == {i \in DOMAIN log : <<log[i].fact, log[i].source>> = key}
           keys == {<<log[i].fact, log[i].source>> : i \in DOMAIN log}
<1>1. DOMAIN ResolvedVerdicts(log) = keys /\ ResolvedVerdicts(log)[key] = log[Max(on)]
  BY DEF ResolvedVerdicts
<1>2. on # {} /\ on \in SUBSET (1..n)
  BY <1>1
<1>3. \E i \in on : \A j \in on : i >= j
  <2> DEFINE T == {n - i : i \in on}
  <2>1. T \in SUBSET Nat /\ T # {}
    BY <1>2
  <2>2. PICK t \in T : \A x \in T : t <= x
    <3> HIDE DEF T, on
    <3> QED BY <2>1, Smallest
  <2>3. PICK i \in on : t = n - i
    BY <2>2
  <2>4. \A j \in on : t <= n - j /\ j \in Int
    BY <1>2, <2>2
  <2>5. i \in Int
    BY <1>2
  <2> HIDE DEF on, T
  <2> QED BY <2>3, <2>4, <2>5
<1>4. Max(on) \in on /\ \A j \in on : Max(on) >= j
  BY <1>3 DEF Max
<1> DEFINE i == Max(on)
<1>5. i \in DOMAIN log /\ <<log[i].fact, log[i].source>> = key /\ ResolvedVerdicts(log)[key] = log[i]
  BY <1>1, <1>4
<1>6. ASSUME NEW j \in DOMAIN log, <<log[j].fact, log[j].source>> = key PROVE j <= i
  <2>1. j \in on /\ i \in on
    BY <1>4, <1>6
  <2>2. j \in Int /\ i \in Int /\ i >= j
    BY <1>2, <1>4, <2>1
  <2> HIDE DEF i
  <2> QED BY <2>2
<1> HIDE DEF i, on
<1> QED BY <1>5, <1>6

\* A verdict with its words was given on a fact and a source that were ever said.
IsGrounds(ns, a) ==
    a.excerpt # 0 => a.fact \in DOMAIN ns /\ a.source \in DOMAIN ns /\ ns[a.source].kind = "source"

VerdictsInv ==
    /\ \E n \in Nat : DOMAIN verdicts = 1..n /\ verdicts = [i \in 1..n |-> verdicts[i]]
    /\ \A i \in DOMAIN verdicts : IsGrounds(nodes, verdicts[i])

\* What is found is of the graph, and of the kind it was said to be.
LEMMA FoundIsOfItsKind ==
    ASSUME IInv, NEW id, Lookup(graph, id) # None
    PROVE  /\ id \in DOMAIN nodes /\ Lookup(graph, id) \in DOMAIN graph.nodes
           /\ graph.nodes[Lookup(graph, id)].kind = nodes[id].kind
<1> DEFINE es == Stated(draft, stated)
           retired == Retired(nodes)
<1>1. Log(nodes, es) /\ graph = Build(nodes, es) /\ Chained(nodes)
  BY LogOfTheGraph, LogIsChained DEF IInv, GraphInv
<1> HIDE DEF es
<1>2. /\ graph.retired = retired /\ DOMAIN graph.nodes = DOMAIN nodes \ DOMAIN retired
      /\ \A x \in DOMAIN graph.nodes : graph.nodes[x].kind = nodes[x].kind
  BY <1>1, BuildIsOfWhatIsLeft
<1>3. DOMAIN retired \subseteq DOMAIN nodes
      /\ \A x \in DOMAIN retired : nodes[retired[x]].kind = nodes[x].kind
  BY <1>1, RetiredInto
<1> HIDE DEF retired
<1> QED BY <1>2, <1>3 DEF Lookup

\* A log that one line is added to.
LEMMA OneLonger ==
    ASSUME NEW log, NEW n \in Nat, DOMAIN log = 1..n, log = [i \in 1..n |-> log[i]], NEW a
    PROVE  LET longer == Append(log, a)
           IN  /\ DOMAIN longer = 1..(n + 1) /\ longer = [i \in 1..(n + 1) |-> longer[i]]
               /\ longer[n + 1] = a /\ Len(log) = n /\ Len(longer) = n + 1
               /\ \A i \in 1..n : longer[i] = log[i]
<1> DEFINE S == {log[i] : i \in 1..n} \cup {a}
           longer == Append(log, a)
<1>1. log \in Seq(S)
  <2>1. [i \in 1..n |-> log[i]] \in Seq(S)
    OBVIOUS
  <2> HIDE DEF S
  <2> QED BY <2>1
<1>2. a \in S
  OBVIOUS
<1> HIDE DEF S
<1>3. Len(log) = n
  BY <1>1
<1>4. /\ longer \in Seq(S) /\ Len(longer) = n + 1
      /\ longer[n + 1] = a /\ \A i \in 1..n : longer[i] = log[i]
  BY <1>1, <1>2, <1>3
<1>5. \A w \in Seq(S) : w = [i \in 1..Len(w) |-> w[i]] /\ DOMAIN w = 1..Len(w)
  OBVIOUS
<1> HIDE DEF longer
<1>6. longer = [i \in 1..(n + 1) |-> longer[i]] /\ DOMAIN longer = 1..(n + 1)
  BY <1>4, <1>5
<1> QED BY <1>3, <1>4, <1>6 DEF longer

LEMMA OneMoreLine ==
    ASSUME VerdictsInv, NEW a, verdicts' = Append(verdicts, a)
    PROVE  \E n \in Nat : /\ DOMAIN verdicts = 1..n /\ DOMAIN verdicts' = 1..(n + 1)
                          /\ verdicts' = [i \in 1..(n + 1) |-> verdicts'[i]]
                          /\ verdicts'[n + 1] = a /\ Len(verdicts) = n /\ Len(verdicts') = n + 1
                          /\ \A i \in 1..n : verdicts'[i] = verdicts[i]
<1>1. PICK n \in Nat : DOMAIN verdicts = 1..n /\ verdicts = [i \in 1..n |-> verdicts[i]]
  BY DEF VerdictsInv
<1> DEFINE log == verdicts
<1>2. DOMAIN log = 1..n /\ log = [i \in 1..n |-> log[i]] /\ verdicts' = Append(log, a)
  BY <1>1
<1> HIDE DEF log
<1> DEFINE longer == Append(log, a)
<1>3. /\ DOMAIN longer = 1..(n + 1) /\ longer = [i \in 1..(n + 1) |-> longer[i]]
      /\ longer[n + 1] = a /\ Len(log) = n /\ Len(longer) = n + 1
      /\ \A i \in 1..n : longer[i] = log[i]
  BY <1>2, OneLonger
<1>4. verdicts' = longer
  BY <1>2
<1> HIDE DEF longer
<1>5. log = verdicts
  BY DEF log
<1> QED BY <1>1, <1>3, <1>4, <1>5

LEMMA RecordIsGrounded ==
    ASSUME VerdictsInv, IInv, Still, NEW a, verdicts' = Append(verdicts, a), IsGrounds(nodes, a)
    PROVE  VerdictsInv'
<1>1. PICK n \in Nat : /\ DOMAIN verdicts = 1..n /\ DOMAIN verdicts' = 1..(n + 1)
                       /\ verdicts' = [i \in 1..(n + 1) |-> verdicts'[i]]
                       /\ verdicts'[n + 1] = a /\ \A i \in 1..n : verdicts'[i] = verdicts[i]
  BY OneMoreLine
<1>2. ASSUME NEW i \in 1..(n + 1) PROVE IsGrounds(nodes, verdicts'[i])
  <2>1. CASE i = n + 1
    BY <1>1, <2>1
  <2>2. CASE i \in 1..n
    BY <1>1, <2>2 DEF VerdictsInv
  <2>3. i = n + 1 \/ i \in 1..n
    OBVIOUS
  <2> QED BY <2>1, <2>2, <2>3
<1>3. nodes' = nodes
  BY DEF Still
<1>4. n + 1 \in Nat
  OBVIOUS
<1> QED BY <1>1, <1>2, <1>3, <1>4 DEF VerdictsInv

LEMMA VerdictsInit == InitLedgers => VerdictsInv
<1> SUFFICES ASSUME InitLedgers PROVE VerdictsInv
  OBVIOUS
<1>1. verdicts = << >>
  BY DEF InitLedgers
<1>2. DOMAIN verdicts = 1..0 /\ verdicts = [i \in 1..0 |-> verdicts[i]]
  BY <1>1
<1> QED BY <1>2 DEF VerdictsInv

LEMMA VerdictsNext == IInv /\ VerdictsInv /\ [NextLedgers]_corpusAndLedgers => VerdictsInv'
<1> SUFFICES ASSUME IInv, VerdictsInv, [NextLedgers]_corpusAndLedgers PROVE VerdictsInv'
  OBVIOUS
<1>1. LedgersStep
  BY LedgersNext
<1>2. CASE Wrote /\ verdicts' = verdicts
  <2>1. \A a : IsGrounds(nodes, a) => IsGrounds(nodes', a)
    BY <1>2 DEF Wrote, IsGrounds
  <2> QED BY <1>2, <2>1 DEF VerdictsInv
<1>3. CASE Still /\ verdicts' = verdicts
  BY <1>3 DEF VerdictsInv, Still
<1>4. ASSUME Still, NEW key, NEW verdict, NEW by, Attest(key, verdict, by) PROVE VerdictsInv'
  <2> DEFINE a == Verdict(key[1], key[2], verdict,
                          IF by = Unsigned THEN LastHumanSigner(verdicts) ELSE by,
                          graph.nodes[Lookup(graph, key[1])].says.quote)
  <2>1. verdicts' = Append(verdicts, a)
    BY <1>4 DEF Attest, Record
  <2>2. a.fact = key[1] /\ a.source = key[2]
    BY DEF Verdict
  <2>3. /\ Lookup(graph, key[1]) # None /\ Lookup(graph, key[2]) # None
        /\ graph.nodes[Lookup(graph, key[2])].kind = "source"
    BY <1>4 DEF Attest
  <2> HIDE DEF a
  <2>4. IsGrounds(nodes, a)
    BY <2>2, <2>3, FoundIsOfItsKind DEF IsGrounds
  <2> QED BY <1>4, <2>1, <2>4, RecordIsGrounded
<1>5. ASSUME NEW key, NEW verdict, NEW by PROVE IsGrounds(nodes, Verdict(key[1], key[2], verdict, by, 0))
  BY DEF IsGrounds, Verdict
<1>6. ASSUME Still, NEW key, NEW verdict, NEW by, RuleAtWorkbench(key, verdict, by) PROVE VerdictsInv'
  <2> DEFINE a == Verdict(key[1], key[2], verdict, by, 0)
  <2>1. verdicts' = Append(verdicts, a)
    BY <1>6 DEF RuleAtWorkbench, Record
  <2>2. IsGrounds(nodes, a)
    BY <1>5
  <2> HIDE DEF a
  <2> QED BY <1>6, <2>1, <2>2, RecordIsGrounded
<1>7. ASSUME Still, NEW key, NEW by, Sync(key, by) PROVE VerdictsInv'
  <2> DEFINE a == Verdict(key[1], key[2], "unsupported", by, 0)
  <2>1. verdicts' = Append(verdicts, a)
    BY <1>7 DEF Sync, Record
  <2>2. IsGrounds(nodes, a)
    BY <1>5
  <2> HIDE DEF a
  <2> QED BY <1>7, <2>1, <2>2, RecordIsGrounded
<1> QED BY <1>1, <1>2, <1>3, <1>4, <1>6, <1>7 DEF LedgersStep

LEMMA VerdictsInvariance == LedgersSpec => [](IInv /\ VerdictsInv)
BY LedgersInit, LedgersKeep, VerdictsInit, VerdictsNext, PTL DEF LedgersSpec

LEMMA UnreportedStands == ASSUME IInv, VerdictsInv PROVE VerdictStandsOverItsWords
<1> DEFINE g == graph
           state == [key \in DOMAIN Set |-> ExcerptState(g, texts, Set[key])]
           found(key) == Finding("attested-excerpt-moved", IF state[key] = "unreadable" THEN "warn" ELSE "error",
                                 {key[1], key[2]}, <<state[key], {key[1]}>>)
           elsewhere == {key \in DOMAIN Set : state[key] \notin {"unpinned", "intact"}}
           reported == {x.says[2] : x \in ExcerptFindings(g)}
<1>1. ExcerptFindings(g) = {found(key) : key \in elsewhere}
  BY DEF ExcerptFindings
<1>2. \A key : found(key).says[2] = {key[1]}
  BY DEF Finding
<1>3. ASSUME NEW key \in DOMAIN Set, {key[1]} \notin reported
      PROVE  ExcerptState(g, texts, Set[key]) \in {"unpinned", "intact"}
  <2>1. key \notin elsewhere
    <3> SUFFICES ASSUME key \in elsewhere PROVE FALSE
      OBVIOUS
    <3>1. found(key) \in ExcerptFindings(g)
      BY <1>1
    <3> HIDE DEF found, elsewhere
    <3> QED BY <1>2, <1>3, <3>1
  <2> QED BY <2>1
<1> HIDE DEF state, found, elsewhere
<1> SUFFICES ASSUME NEW key \in DOMAIN Set, Set[key].excerpt # 0, {key[1]} \notin reported
             PROVE  LET fact == Lookup(g, key[1])
                        source == Lookup(g, key[2])
                    IN  /\ g.nodes[fact].says.quote \in {0, Set[key].excerpt}
                        /\ g.nodes[source].says.doc # None =>
                              Set[key].excerpt \in texts[g.nodes[source].says.doc]
  BY DEF VerdictStandsOverItsWords
<1> DEFINE a == Set[key]
           fact == Lookup(g, key[1])
           source == Lookup(g, key[2])
<1>4. ExcerptState(g, texts, a) \in {"unpinned", "intact"}
  BY <1>3
<1>5. a.fact = key[1] /\ a.source = key[2] /\ IsGrounds(nodes, a)
  <2>1. PICK n \in Nat : DOMAIN verdicts = 1..n
    BY DEF VerdictsInv
  <2>2. key \in DOMAIN ResolvedVerdicts(verdicts) /\ a = ResolvedVerdicts(verdicts)[key]
    BY DEF Set
  <2> HIDE DEF a
  <2>3. PICK i \in DOMAIN verdicts : <<verdicts[i].fact, verdicts[i].source>> = key /\ a = verdicts[i]
    BY <2>1, <2>2, LastOnKey
  <2> QED BY <2>3 DEF VerdictsInv
<1>6. fact # None /\ source # None
  BY <1>5, EveryIdIsFound DEF IsGrounds, RetiredIsFound
<1>7. g.nodes[source].kind = "source"
  BY <1>5, <1>6, FoundIsOfItsKind DEF IsGrounds
<1>8. a.excerpt # 0
  OBVIOUS
<1>9. fact = Lookup(g, a.fact) /\ source = Lookup(g, a.source)
  BY <1>5
<1> HIDE DEF a, fact, source, g
<1>10. g.nodes[fact].says.quote \in {0, a.excerpt}
  BY <1>4, <1>6, <1>8, <1>9 DEF ExcerptState
<1>11. g.nodes[source].says.doc # None => a.excerpt \in texts[g.nodes[source].says.doc]
  BY <1>4, <1>6, <1>7, <1>8, <1>9, <1>10 DEF ExcerptState
<1> QED BY <1>10, <1>11 DEF a, fact, source

\* Of a verdict that was recorded with its words and that a scan does not report, the fact
\* quotes no others, whatever it was folded into, and the document is not read otherwise
\* (CheckAttestedExcerpts).
THEOREM UnreportedVerdictsStand == LedgersSpec => []VerdictStandsOverItsWords
BY VerdictsInvariance, UnreportedStands, PTL

-----------------------------------------------------------------------------
(* The list only shrinks by hand. *)

\* Every relation in the sequence is one that is stated, and every one stated is in it.
LEMMA StatedIsOfTheDraft ==
    ASSUME draft \in Seq(Relations), NEW which \in SUBSET (DOMAIN draft),
           NEW n \in DOMAIN Stated(draft, which)
    PROVE  \E p \in which : Stated(draft, which)[n] = draft[p]
<1> DEFINE total == Cardinality(which)
           position == [k \in 1..total |->
                        CHOOSE p \in which : Cardinality({q \in which : q < p}) = k - 1]
<1>1. Stated(draft, which) = [k \in DOMAIN position |-> draft[position[k]]] /\ DOMAIN position = 1..total
  BY DEF Stated
<1>2. n \in 1..total /\ Stated(draft, which)[n] = draft[position[n]]
  BY <1>1
<1>3. \E p \in which : Cardinality({q \in which : q < p}) = n - 1
  <2>1. Len(draft) \in Nat /\ DOMAIN draft = 1..Len(draft)
    OBVIOUS
  <2> HIDE DEF position
  <2> QED BY <1>2, <2>1, Nth
<1>4. position[n] \in which
  BY <1>2, <1>3
<1> QED BY <1>2, <1>4

LEMMA BelowTells ==
    ASSUME NEW T, T \in SUBSET Nat, IsFiniteSet(T), NEW p \in T, NEW r \in T, p < r
    PROVE  Cardinality({q \in T : q < p}) # Cardinality({q \in T : q < r})
<1> DEFINE lower == {q \in T : q < p}
           upper == {q \in T : q < r}
<1>1. lower \subseteq upper /\ p \in upper /\ p \notin lower /\ upper \subseteq T
  <2>1. \A q \in T : q \in Nat /\ p \in Nat /\ r \in Nat
    OBVIOUS
  <2>2. \A q \in T : q < p => q < r
    BY <2>1
  <2>3. ~ (p < p)
    BY <2>1
  <2> QED BY <2>2, <2>3
<1>2. IsFiniteSet(upper)
  <2> HIDE DEF upper
  <2> QED BY <1>1, FS_Subset
<1> HIDE DEF lower, upper
<1>3. Cardinality(lower) = Cardinality(upper) => lower = upper
  BY <1>1, <1>2, FS_Subset
<1> QED BY <1>1, <1>3 DEF lower, upper

LEMMA AllStatedAreThere ==
    ASSUME draft \in Seq(Relations), NEW which \in SUBSET (DOMAIN draft), NEW p \in which
    PROVE  \E n \in DOMAIN Stated(draft, which) : Stated(draft, which)[n] = draft[p]
<1> DEFINE total == Cardinality(which)
           below(r) == {q \in which : q < r}
           position == [k \in 1..total |-> CHOOSE r \in which : Cardinality(below(r)) = k - 1]
           n == Cardinality(below(p)) + 1
<1>1. which \in SUBSET Nat /\ IsFiniteSet(which)
  <2>1. Len(draft) \in Nat /\ DOMAIN draft = 1..Len(draft)
    OBVIOUS
  <2>2. IsFiniteSet(1..Len(draft))
    BY <2>1, FS_Interval
  <2>3. IsFiniteSet(which)
    BY <2>1, <2>2, FS_Subset
  <2> QED BY <2>1, <2>3
<1>2. n \in 1..total
  <2>1. below(p) \subseteq which /\ p \notin below(p)
    BY <1>1
  <2>2. IsFiniteSet(below(p)) /\ Cardinality(below(p)) \in Nat /\ total \in Nat
    <3>1. IsFiniteSet(below(p))
      <4> HIDE DEF below
      <4> QED BY <1>1, <2>1, FS_Subset
    <3> HIDE DEF below
    <3> QED BY <1>1, <3>1, FS_CardinalityType
  <2> DEFINE some == below(p)
  <2>3. some \subseteq which /\ some # which /\ Cardinality(some) \in Nat /\ total \in Nat
    BY <2>1, <2>2
  <2> HIDE DEF some, below
  <2>4. Cardinality(some) <= total /\ Cardinality(some) # total
    BY <1>1, <2>3, FS_Subset
  <2>5. n = Cardinality(some) + 1
    BY DEF some
  <2> HIDE DEF n, total
  <2> QED BY <2>3, <2>4, <2>5
<1>3. Cardinality(below(p)) = n - 1
  <2>1. Cardinality(below(p)) \in Nat
    <3>1. below(p) \subseteq which
      OBVIOUS
    <3> HIDE DEF below
    <3>2. IsFiniteSet(below(p))
      BY <1>1, <3>1, FS_Subset
    <3> QED BY <3>2, FS_CardinalityType
  <2> HIDE DEF below
  <2> QED BY <2>1
<1>4. \A r \in which : Cardinality(below(r)) = n - 1 => r = p
  <2> SUFFICES ASSUME NEW r \in which, Cardinality(below(r)) = n - 1, r # p PROVE FALSE
    OBVIOUS
  <2>1. r < p \/ p < r
    <3>1. r \in Nat /\ p \in Nat
      BY <1>1
    <3> HIDE DEF below, n
    <3> QED BY <3>1
  <2>2. Cardinality(below(r)) = Cardinality(below(p))
    BY <1>3
  <2> HIDE DEF n
  <2> QED BY <1>1, <2>1, <2>2, BelowTells
<1>5. position[n] = p
  <2>1. position[n] = CHOOSE r \in which : Cardinality(below(r)) = n - 1
    BY <1>2
  <2> HIDE DEF n, below, position
  <2> QED BY <1>3, <1>4, <2>1
<1>6. Stated(draft, which) = [k \in DOMAIN position |-> draft[position[k]]] /\ DOMAIN position = 1..total
  BY DEF Stated
<1> HIDE DEF n, total, position
<1> QED BY <1>2, <1>5, <1>6

-----------------------------------------------------------------------------
(* What cites what, of what is stated. *)

\* A graph that some facts and relations of the draft build.
LoadedFrom(ns, which, g) ==
    /\ draft \in Seq(Relations) /\ which \in SUBSET DOMAIN draft
    /\ Log(ns, Stated(draft, which))
    /\ g = Build(ns, Stated(draft, which)) /\ Builds(ns, g)

LEMMA FindsWhatIsLeft ==
    ASSUME NEW ns, NEW which, NEW g, LoadedFrom(ns, which, g)
    PROVE  /\ \A x \in DOMAIN ns : /\ Resolve(Retired(ns), x) = Lookup(g, x)
                                   /\ Lookup(g, x) \in DOMAIN g.nodes
           /\ \A x : Resolve(Retired(ns), x) \in DOMAIN g.nodes => x \in DOMAIN ns
           /\ \A x \in DOMAIN g.nodes : g.nodes[x].kind = ns[x].kind /\ g.nodes[x].status = ns[x].status
           /\ g.edges = KeptEdges(Retired(ns), Stated(draft, which))
           /\ \A e \in g.edges : e.src \in DOMAIN g.nodes /\ e.dst \in DOMAIN g.nodes
<1> DEFINE es == Stated(draft, which)
           retired == Retired(ns)
<1>1. Log(ns, es) /\ Chained(ns) /\ g = Build(ns, es) /\ Builds(ns, g)
  BY LogIsChained DEF LoadedFrom
<1> HIDE DEF es
<1>2. /\ g.retired = retired /\ DOMAIN g.nodes = DOMAIN ns \ DOMAIN retired
      /\ \A x \in DOMAIN g.nodes : g.nodes[x].kind = ns[x].kind /\ g.nodes[x].status = ns[x].status
      /\ g.edges = KeptEdges(retired, es)
  BY <1>1, BuildIsOfWhatIsLeft
<1>3. DOMAIN retired \subseteq DOMAIN ns
      /\ \A x \in DOMAIN retired : retired[x] \in DOMAIN ns \ DOMAIN retired
  BY <1>1, RetiredInto
<1>4. DanglingRelations(g) = {}
  BY <1>1 DEF Builds
<1>5. \A e \in g.edges : {e.src, e.dst} \subseteq DOMAIN g.nodes \cup {None}
  BY <1>4 DEF DanglingRelations
<1>6. \A i \in DOMAIN es : es[i].src \in Ids /\ es[i].dst \in Ids
  BY <1>1 DEF Log, Relations
<1>7. \A e \in g.edges : e.src # None /\ e.dst # None
  <2> SUFFICES ASSUME NEW e \in g.edges PROVE e.src # None /\ e.dst # None
    OBVIOUS
  <2>1. PICK i \in DOMAIN es : e = RewrittenEdge(retired, es[i])
    BY <1>2 DEF KeptEdges
  <2>2. es[i] \in Relations
    BY <1>1 DEF Log
  <2>3. e.src = Resolve(retired, es[i].src) /\ e.dst = Resolve(retired, es[i].dst)
    BY <2>1, <2>2 DEF RewrittenEdge, Relations
  <2>4. DOMAIN ns \subseteq Ids
    BY <1>1 DEF Log
  <2> HIDE DEF retired
  <2> QED BY <1>3, <1>6, <2>3, <2>4, NoneAssumption DEF Resolve
<1> HIDE DEF retired
<1> QED BY <1>2, <1>3, <1>5, <1>7 DEF Resolve, Lookup, es, retired

LEMMA CitedIsStated ==
    ASSUME NEW ns, NEW which, NEW g, LoadedFrom(ns, which, g), NEW e \in AllCitations(g)
    PROVE  \E p \in which : /\ draft[p].type = "attests"
                            /\ draft[p].src \in DOMAIN ns /\ draft[p].dst \in DOMAIN ns
                            /\ Lookup(g, draft[p].src) = e.src /\ Lookup(g, draft[p].dst) = e.dst
<1> DEFINE es == Stated(draft, which)
           retired == Retired(ns)
<1>1. /\ draft \in Seq(Relations) /\ which \in SUBSET DOMAIN draft
      /\ \A i \in DOMAIN es : es[i] \in Relations
  BY DEF LoadedFrom, Log
<1>2. /\ g.edges = KeptEdges(retired, es)
      /\ \A x \in DOMAIN ns : Resolve(retired, x) = Lookup(g, x)
      /\ \A x : Resolve(retired, x) \in DOMAIN g.nodes => x \in DOMAIN ns
      /\ \A y \in g.edges : y.src \in DOMAIN g.nodes /\ y.dst \in DOMAIN g.nodes
  BY FindsWhatIsLeft
<1>3. e \in g.edges /\ e.type = "attests"
  BY DEF AllCitations
<1>4. PICK i \in DOMAIN es : e = RewrittenEdge(retired, es[i])
  <2> HIDE DEF es, retired
  <2>1. e \in KeptEdges(retired, es)
    BY <1>2, <1>3
  <2> QED BY <2>1 DEF KeptEdges
<1>5. PICK p \in which : es[i] = draft[p]
  BY <1>1, StatedIsOfTheDraft
<1>6. draft[p] \in Relations
  BY <1>1, <1>5
<1> HIDE DEF es, retired
<1>7. /\ e.type = draft[p].type /\ e.src = Resolve(retired, draft[p].src)
      /\ e.dst = Resolve(retired, draft[p].dst)
  BY <1>4, <1>5, <1>6 DEF RewrittenEdge, Relations
<1> QED BY <1>2, <1>3, <1>7

LEMMA StatedIsCited ==
    ASSUME NEW ns, NEW which, NEW g, LoadedFrom(ns, which, g), NEW p \in which,
           draft[p].type = "attests", draft[p].src \in DOMAIN ns, draft[p].dst \in DOMAIN ns,
           Lookup(g, draft[p].src) # Lookup(g, draft[p].dst),
           ns[Lookup(g, draft[p].src)].kind = "source"
    PROVE  \E e \in AllCitations(g) :
              e.src = Lookup(g, draft[p].src) /\ e.dst = Lookup(g, draft[p].dst)
<1> DEFINE es == Stated(draft, which)
           retired == Retired(ns)
<1>1. /\ draft \in Seq(Relations) /\ which \in SUBSET DOMAIN draft
      /\ \A i \in DOMAIN es : es[i] \in Relations
      /\ \E m \in Nat : DOMAIN es = 1..m
  BY DEF LoadedFrom, Log
<1>2. /\ g.edges = KeptEdges(retired, es)
      /\ \A x \in DOMAIN ns : Resolve(retired, x) = Lookup(g, x) /\ Lookup(g, x) \in DOMAIN g.nodes
      /\ \A x \in DOMAIN g.nodes : g.nodes[x].kind = ns[x].kind
  BY FindsWhatIsLeft
<1>3. PICK i \in DOMAIN es : es[i] = draft[p]
  BY <1>1, AllStatedAreThere
<1>4. draft[p] \in Relations
  BY <1>1
<1> DEFINE now == RewrittenEdge(retired, es[i])
<1> HIDE DEF es, retired
<1>5. now.type = "attests" /\ now.src = Lookup(g, draft[p].src) /\ now.dst = Lookup(g, draft[p].dst)
  BY <1>2, <1>3, <1>4 DEF RewrittenEdge, Relations
<1>6. \E f \in KeptEdges(retired, es) :
         f.type = now.type /\ f.src = now.src /\ f.dst = now.dst /\ f.while = now.while
  <2>1. RewrittenEdge(retired, es[i]).src # RewrittenEdge(retired, es[i]).dst
    BY <1>5
  <2>2. PICK m \in Nat : DOMAIN es = 1..m
    BY <1>1
  <2> QED BY <1>1, <2>1, <2>2, KeptForIt
<1> HIDE DEF now
<1> QED BY <1>2, <1>5, <1>6 DEF AllCitations

LEMMA LogIsLoaded == ASSUME IInv PROVE LoadedFrom(nodes, stated, graph)
BY LogOfTheGraph DEF IInv, LogInv, GraphInv, LoadedFrom

\* Unchanged ends are found again.
LEMMA WriteKeepsOnTheList ==
    ASSUME IInv, Wrote, NEW key, key \in PendingHuman(graph, Set), key[1] # key[2],
           nodes'[key[1]].status # "withdrawn",
           \A id \in DOMAIN nodes : Lookup(graph, id) \in {key[1], key[2]} => Lookup(graph', id) = Lookup(graph, id)
    PROVE  key \in PendingHuman(graph', Set)
<1> DEFINE g == graph
           h == graph'
           ns == nodes'
<1>1. LoadedFrom(nodes, stated, g)
  BY LogIsLoaded
<1>2. LoadedFrom(ns, stated', h)
  <2>1. IInv' => LoadedFrom(nodes, stated, graph)'
    BY LogIsLoaded, PTL
  <2>2. IInv' /\ draft' = draft
    BY DEF Wrote
  <2>3. LoadedFrom(nodes, stated, graph)'
    BY <2>1, <2>2
  <2> QED BY <2>2, <2>3 DEF LoadedFrom
<1>3. /\ DOMAIN ns = DOMAIN nodes /\ stated \subseteq stated'
      /\ \A id \in DOMAIN nodes : ns[id].kind = nodes[id].kind
  BY DEF Wrote
<1>4. PICK e \in AllCitations(g) : key = <<e.dst, e.src>> /\ e.dst \in DOMAIN g.nodes
  BY DEF PendingHuman
<1>5. key \in DOMAIN Set => Set[key].by \notin People
  BY DEF PendingHuman
<1>6. PICK p \in stated : /\ draft[p].type = "attests"
                          /\ draft[p].src \in DOMAIN nodes /\ draft[p].dst \in DOMAIN nodes
                          /\ Lookup(g, draft[p].src) = e.src /\ Lookup(g, draft[p].dst) = e.dst
  BY <1>1, <1>4, CitedIsStated
<1>7. key[1] = e.dst /\ key[2] = e.src
  BY <1>4
<1>8. Lookup(h, draft[p].src) = e.src /\ Lookup(h, draft[p].dst) = e.dst
  BY <1>6, <1>7
<1>9. e.src \in DOMAIN g.nodes /\ g.nodes[e.src].kind = "source" /\ e.src # e.dst
  BY <1>7 DEF AllCitations
<1>10. nodes[e.src].kind = "source" /\ e.src \in DOMAIN nodes
  <2>1. \A x \in DOMAIN g.nodes : g.nodes[x].kind = nodes[x].kind
    BY <1>1, FindsWhatIsLeft
  <2>2. DOMAIN g.nodes \subseteq DOMAIN nodes
    <3>1. Log(nodes, Stated(draft, stated)) /\ g = Build(nodes, Stated(draft, stated))
      BY <1>1 DEF LoadedFrom
    <3> QED BY <3>1, BuildIsOfWhatIsLeft
  <2> QED BY <1>9, <2>1, <2>2
<1> HIDE DEF g, h, ns
<1>11. PICK f \in AllCitations(h) : f.src = e.src /\ f.dst = e.dst
  <2>1. /\ p \in stated' /\ draft[p].src \in DOMAIN ns /\ draft[p].dst \in DOMAIN ns
        /\ Lookup(h, draft[p].src) # Lookup(h, draft[p].dst)
        /\ ns[Lookup(h, draft[p].src)].kind = "source"
    BY <1>3, <1>6, <1>8, <1>9, <1>10
  <2> QED BY <1>2, <1>6, <1>8, <2>1, StatedIsCited
<1>12. e.dst \in DOMAIN h.nodes /\ h.nodes[e.dst].status = ns[e.dst].status
  <2>1. /\ \A x \in DOMAIN ns : Lookup(h, x) \in DOMAIN h.nodes
        /\ \A x \in DOMAIN h.nodes : h.nodes[x].status = ns[x].status
    BY <1>2, FindsWhatIsLeft
  <2> QED BY <1>3, <1>6, <1>8, <2>1
<1>13. ns[e.dst].status # "withdrawn"
  BY <1>7 DEF ns
<1>14. key = <<f.dst, f.src>> /\ f.dst \in DOMAIN h.nodes /\ h.nodes[f.dst].status # "withdrawn"
  BY <1>4, <1>11, <1>12, <1>13
<1>15. key \in PendingHuman(h, Set)
  BY <1>5, <1>11, <1>14 DEF PendingHuman
<1> QED BY <1>15 DEF h

\* A line more takes one citation off the list, and only if a person wrote it.
LEMMA LineKeepsOnTheList ==
    ASSUME VerdictsInv, NEW a, verdicts' = Append(verdicts, a), NEW key,
           key \in PendingHuman(graph, Set),
           ~ (Len(verdicts') > Len(verdicts) /\ <<a.fact, a.source>> = key /\ a.by \in People)
    PROVE  key \in PendingHuman(graph, Set') /\ verdicts'[Len(verdicts')] = a
<1>1. PICK n \in Nat : /\ DOMAIN verdicts = 1..n /\ DOMAIN verdicts' = 1..(n + 1)
                       /\ verdicts'[n + 1] = a /\ Len(verdicts) = n /\ Len(verdicts') = n + 1
                       /\ \A i \in 1..n : verdicts'[i] = verdicts[i]
  BY OneMoreLine
<1>2. ~ (<<a.fact, a.source>> = key /\ a.by \in People)
  BY <1>1
<1> DEFINE log == verdicts'
<1>3. Set' = ResolvedVerdicts(log)
  BY DEF Set
<1>4. ASSUME key \in DOMAIN ResolvedVerdicts(log) PROVE ResolvedVerdicts(log)[key].by \notin People
  <2>1. n + 1 \in Nat /\ DOMAIN log = 1..(n + 1)
    BY <1>1
  <2>2. log[n + 1] = a /\ \A i \in 1..n : log[i] = verdicts[i]
    BY <1>1
  <2> HIDE DEF log
  <2>3. PICK i \in DOMAIN log : /\ <<log[i].fact, log[i].source>> = key
                                /\ ResolvedVerdicts(log)[key] = log[i]
                                /\ \A j \in DOMAIN log : <<log[j].fact, log[j].source>> = key => j <= i
    BY <1>4, <2>1, LastOnKey
  <2>4. CASE i = n + 1
    BY <1>2, <2>2, <2>3, <2>4
  <2>5. CASE i \in 1..n
    <3>1. i \in DOMAIN verdicts /\ <<verdicts[i].fact, verdicts[i].source>> = key
      BY <1>1, <2>2, <2>3, <2>5
    <3>2. key \in DOMAIN ResolvedVerdicts(verdicts)
      BY <3>1 DEF ResolvedVerdicts
    <3>3. PICK j \in DOMAIN verdicts : /\ <<verdicts[j].fact, verdicts[j].source>> = key
                                       /\ ResolvedVerdicts(verdicts)[key] = verdicts[j]
                                       /\ \A k \in DOMAIN verdicts :
                                             <<verdicts[k].fact, verdicts[k].source>> = key => k <= j
      BY <1>1, <3>2, LastOnKey
    <3>4. i <= j
      BY <3>1, <3>3
    <3>5. j \in 1..n /\ j \in DOMAIN log /\ log[j] = verdicts[j]
      BY <1>1, <2>1, <2>2, <3>3
    <3>6. j <= i
      BY <2>3, <3>3, <3>5
    <3>7. i = j
      BY <2>5, <3>4, <3>5, <3>6
    <3>8. ResolvedVerdicts(log)[key] = ResolvedVerdicts(verdicts)[key]
      BY <2>3, <3>3, <3>5, <3>7
    <3>9. ResolvedVerdicts(verdicts)[key].by \notin People
      BY <3>2 DEF PendingHuman, Set
    <3> QED BY <3>8, <3>9
  <2>6. i = n + 1 \/ i \in 1..n
    BY <2>1
  <2> QED BY <2>4, <2>5, <2>6
<1> HIDE DEF log
<1>5. key \in DOMAIN Set' => Set'[key].by \notin People
  BY <1>3, <1>4
<1>6. key \in PendingHuman(graph, Set')
  BY <1>5 DEF PendingHuman
<1> QED BY <1>1, <1>6 DEF log

\* What takes a citation off the list.
LeavesByHand(key) ==
    \/ /\ Len(verdicts') > Len(verdicts)
       /\ LET a == verdicts'[Len(verdicts')]
          IN  <<a.fact, a.source>> = key /\ a.by \in People
    \/ nodes'[key[1]].status = "withdrawn"
    \/ \E id \in DOMAIN nodes : /\ Lookup(graph, id) \in {key[1], key[2]}
                                /\ Lookup(graph', id) # Lookup(graph, id)
    \/ key[1] = key[2]

LEMMA LeavingIsByHand ==
    ASSUME IInv, VerdictsInv, [NextLedgers]_corpusAndLedgers,
           NEW key \in PendingHuman(graph, Set) \ PendingHuman(graph', Set')
    PROVE  LeavesByHand(key)
<1> SUFFICES ASSUME ~ LeavesByHand(key) PROVE FALSE
  OBVIOUS
<1>1. LedgersStep
  BY LedgersNext
<1>2. CASE Wrote /\ verdicts' = verdicts
  <2>1. Set' = Set
    BY <1>2 DEF Set
  <2>2. key \in PendingHuman(graph', Set)
    BY <1>2, WriteKeepsOnTheList DEF LeavesByHand
  <2> QED BY <2>1, <2>2
<1>3. CASE Still /\ verdicts' = verdicts
  <2>1. Set' = Set /\ graph' = graph
    BY <1>3 DEF Set, Still
  <2> QED BY <2>1
<1>4. ASSUME Still, NEW a, verdicts' = Append(verdicts, a) PROVE FALSE
  <2>1. Len(verdicts') > Len(verdicts) => verdicts'[Len(verdicts')] = a
    <3>1. \E n \in Nat : verdicts'[n + 1] = a /\ Len(verdicts') = n + 1
      BY <1>4, OneMoreLine
    <3> QED BY <3>1
  <2>2. ~ (Len(verdicts') > Len(verdicts) /\ <<a.fact, a.source>> = key /\ a.by \in People)
    BY <2>1 DEF LeavesByHand
  <2>3. key \in PendingHuman(graph, Set')
    BY <1>4, <2>2, LineKeepsOnTheList
  <2> QED BY <1>4, <2>3 DEF Still
<1>5. ASSUME NEW verdict, NEW by, NEW k,
             Attest(k, verdict, by) \/ RuleAtWorkbench(k, verdict, by) \/ Sync(k, by)
      PROVE  \E a : verdicts' = Append(verdicts, a)
  BY <1>5 DEF Attest, RuleAtWorkbench, Sync, Record
<1> QED BY <1>1, <1>2, <1>3, <1>4, <1>5 DEF LedgersStep

\* A citation leaves the list when a person rules on it, or when its fact is withdrawn or
\* something it is stated of comes to be another (PendingHuman, merge).
THEOREM OnlyHandsShrinkTheList == LedgersSpec => QueueShrinksByHand
<1>1. IInv /\ VerdictsInv /\ [NextLedgers]_corpusAndLedgers =>
        [\A key \in PendingHuman(graph, Set) \ PendingHuman(graph', Set') : LeavesByHand(key)]_corpusAndLedgers
  BY LeavingIsByHand
<1>2. LedgersSpec =>
        [][\A key \in PendingHuman(graph, Set) \ PendingHuman(graph', Set') : LeavesByHand(key)]_corpusAndLedgers
  BY <1>1, VerdictsInvariance, PTL DEF LedgersSpec
<1> QED BY <1>2 DEF QueueShrinksByHand, LeavesByHand

-----------------------------------------------------------------------------
(* What is silenced was seen. *)

\* The facts and relations a key is made of are those of the situation.
KeyIsOf(key, s) ==
    /\ key[1] = s.check /\ key[2] = s.subjects
    /\ s.facts = [id \in DOMAIN key[3] |-> key[3][id][1]]
    /\ s.relations = UNION {key[3][id][2] : id \in DOMAIN key[3]}

LEMMA KeyTellsTheFacts ==
    ASSUME NEW g, NEW f, Whole(g)
    PROVE  KeyIsOf(FindingKey(g, f), Situation(g, f))
<1> DEFINE named == f.subjects \cap DOMAIN g.nodes
           hashes == [id \in named |-> SemHash(g, id)]
           key == FindingKey(g, f)
           s == Situation(g, f)
<1>1. key = <<f.check, f.subjects, hashes>>
  BY DEF FindingKey
<1>2. key[1] = s.check /\ key[2] = s.subjects /\ key[3] = hashes
  BY <1>1 DEF Situation
<1>3. DOMAIN hashes = named /\ \A id \in named :
         hashes[id][1] = g.nodes[id] /\ hashes[id][2] = {e \in g.incident : id \in {e.src, e.dst}}
  BY DEF SemHash
<1>4. s.facts = [id \in named |-> g.nodes[id]]
      /\ s.relations = {e \in g.incident : {e.src, e.dst} \cap f.subjects # {}}
  BY DEF Situation
<1>5. \A e \in g.incident : e.src \in DOMAIN g.nodes /\ e.dst \in DOMAIN g.nodes
  BY DEF Whole
<1>6. \A e \in g.incident : {e.src, e.dst} \cap f.subjects # {} <=> \E id \in named : id \in {e.src, e.dst}
  BY <1>5
<1> HIDE DEF hashes, key, s, named
<1>7. s.facts = [id \in DOMAIN key[3] |-> key[3][id][1]]
  BY <1>2, <1>3, <1>4
<1>8. s.relations = UNION {key[3][id][2] : id \in DOMAIN key[3]}
  <2>1. DOMAIN key[3] = named /\ \A id \in named : key[3][id][2] = {e \in g.incident : id \in {e.src, e.dst}}
    BY <1>2, <1>3
  <2> QED BY <1>4, <1>6, <2>1
<1> QED BY <1>2, <1>7, <1>8 DEF KeyIsOf, key, s

\* What a load says in a warning that has a name, as it can be read off the facts it
\* names and their relations.
WordsOf(s) ==
    CASE s.check \in {"split-contradiction", "alias-ambiguous"} -> << >>
      [] s.check = "near-duplicate" -> <<"may be one", {}>>
      [] s.check = "same-file-sources" ->
            <<"no anchor", {id \in s.subjects : s.facts[id].says.anchor = 0},
              {s.facts[id].says.form : id \in s.subjects} \ {""}>>
      [] s.check = "unsourced-fact" ->
            IF \E e \in s.relations : e.type = "attests" /\ {e.dst} = s.subjects
            THEN <<"ruled out", {}>>
            ELSE <<"name a source",
                   {e.src : e \in {e \in s.relations :
                       {e.dst} = s.subjects /\ e.type \in {"supports", "causes", "implies"}}}>>
      [] s.check = "inference-no-premises" ->
            <<"resting", {e.dst : e \in {e \in s.relations : e.type = "attests" /\ {e.src} = s.subjects}}>>
      [] s.check = "interested-no-speaker" -> <<"whose", {}>>
      [] s.check = "long-description" -> <<"long", {}>>
      [] OTHER -> <<"unused", {}>>

OfALoad == {"split-contradiction", "alias-ambiguous", "near-duplicate", "same-file-sources",
            "unsourced-fact", "inference-no-premises", "interested-no-speaker",
            "long-description", "unreferenced-source"}

\* A finding of a graph whose words are those.
Fits(g, f) ==
    /\ DOMAIN f = {"check", "severity", "subjects", "says"}
    /\ Keyed(f) => f.check \in OfALoad /\ Situation(g, f).words = WordsOf(Situation(g, f))

\* No relation names as a source what is none (checkSources).
OnlySourcesAttest(g) ==
    \A e \in g.edges : e.type = "attests" /\ e.src \in DOMAIN g.nodes => g.nodes[e.src].kind = "source"

LEMMA CleanAttests ==
    ASSUME NEW g, NEW set, Errors(GraphFindings(g, set)) = {}
    PROVE  OnlySourcesAttest(g)
<1> SUFFICES ASSUME NEW e \in g.edges, e.type = "attests", e.src \in DOMAIN g.nodes,
                    g.nodes[e.src].kind # "source"
             PROVE  FALSE
  BY DEF OnlySourcesAttest
<1> DEFINE f == Error(<<"not a source", {e.src}>>)
<1>1. f \in CheckSources(g)
  BY DEF CheckSources
<1>2. f.severity = "error"
  BY DEF Error, Finding
<1> HIDE DEF f
<1>3. f \in GraphFindings(g, set)
  BY <1>1 DEF GraphFindings
<1> QED BY <1>2, <1>3 DEF Errors

LEMMA ErrorsFit == ASSUME NEW g, NEW says PROVE Fits(g, Error(says)) /\ Fits(g, Notice(says))
BY DEF Fits, Keyed, Error, Notice, Finding

LEMMA NamedFits ==
    ASSUME NEW g, NEW check \in OfALoad, NEW severity, NEW subjects, NEW says,
           check \notin {"same-file-sources", "unsourced-fact", "inference-no-premises"},
           \/ check \in {"split-contradiction", "alias-ambiguous"}
           \/ check = "near-duplicate" /\ says = <<"may be one", {}>>
           \/ check = "interested-no-speaker" /\ says = <<"whose", {}>>
           \/ check = "long-description" /\ says = <<"long", {}>>
           \/ check = "unreferenced-source" /\ says = <<"unused", {}>>
    PROVE  Fits(g, Finding(check, severity, subjects, says))
<1> DEFINE f == Finding(check, severity, subjects, says)
           s == Situation(g, f)
<1>1. f.check = check /\ f.says = says /\ DOMAIN f = {"check", "severity", "subjects", "says"}
  BY DEF Finding
<1>2. s.check = check /\ s.words = IF check \in {"split-contradiction", "alias-ambiguous"} THEN << >> ELSE says
  BY <1>1 DEF Situation
<1> HIDE DEF f, s
<1>3. s.words = WordsOf(s)
  BY <1>2 DEF WordsOf, OfALoad
<1> QED BY <1>1, <1>3 DEF Fits, f, s

LEMMA SameFileFits ==
    ASSUME NEW g, NEW f \in CheckSameDocument(g)
    PROVE  Fits(g, f)
<1>1. PICK ids \in SameDocument(g) :
         f = Warning("same-file-sources", ids,
               <<"no anchor", {id \in ids : g.nodes[id].says.anchor = 0},
                 {g.nodes[id].says.form : id \in ids} \ {""}>>)
  BY DEF CheckSameDocument
<1>2. ids \subseteq DOMAIN g.nodes
  BY DEF SameDocument
<1> DEFINE s == Situation(g, f)
<1>3. DOMAIN f = {"check", "severity", "subjects", "says"} /\ f.check = "same-file-sources" /\ f.subjects = ids
      /\ f.says = <<"no anchor", {id \in ids : g.nodes[id].says.anchor = 0},
                    {g.nodes[id].says.form : id \in ids} \ {""}>>
  BY <1>1 DEF Warning, Finding
<1>4. s.check = "same-file-sources" /\ s.subjects = ids /\ s.words = f.says
      /\ s.facts = [id \in ids \cap DOMAIN g.nodes |-> g.nodes[id]]
  BY <1>3 DEF Situation
<1>5. \A id \in ids : s.facts[id] = g.nodes[id]
  BY <1>2, <1>4
<1> HIDE DEF s
<1>6. WordsOf(s) = <<"no anchor", {id \in ids : s.facts[id].says.anchor = 0},
                     {s.facts[id].says.form : id \in ids} \ {""}>>
  BY <1>4 DEF WordsOf
<1>7. {id \in ids : s.facts[id].says.anchor = 0} = {id \in ids : g.nodes[id].says.anchor = 0}
  BY <1>5
<1>8. {s.facts[id].says.form : id \in ids} = {g.nodes[id].says.form : id \in ids}
  BY <1>5
<1>9. s.words = WordsOf(s)
  BY <1>3, <1>4, <1>6, <1>7, <1>8
<1> QED BY <1>3, <1>9 DEF Fits, OfALoad, s

LEMMA UnsourcedFits ==
    ASSUME NEW g, Whole(g), g.incident \subseteq g.edges, OnlySourcesAttest(g), NEW set, NEW f \in CheckAttestation(g, set)
    PROVE  Fits(g, f)
<1> DEFINE into(id) == {e \in g.incident : e.dst = id /\ e.type \in {"supports", "causes", "implies"}}
           ruled(id) == \E e \in g.incident : e.type = "attests" /\ e.dst = id /\ g.nodes[e.src].kind = "source"
           words(id) == IF ruled(id) THEN <<"ruled out", {}>> ELSE <<"name a source", {e.src : e \in into(id)}>>
<1>1. PICK id \in DOMAIN g.nodes : f = Warning("unsourced-fact", {id}, words(id))
  BY DEF CheckAttestation, Of
<1> DEFINE s == Situation(g, f)
<1>2. DOMAIN f = {"check", "severity", "subjects", "says"} /\ f.check = "unsourced-fact" /\ f.subjects = {id} /\ f.says = words(id)
  BY <1>1 DEF Warning, Finding
<1>3. s.check = "unsourced-fact" /\ s.subjects = {id} /\ s.words = words(id)
      /\ s.relations = {e \in g.incident : {e.src, e.dst} \cap {id} # {}}
  BY <1>2 DEF Situation
<1> HIDE DEF s
<1> DEFINE ruledOf == \E e \in s.relations : e.type = "attests" /\ {e.dst} = s.subjects
           intoOf == {e \in s.relations : {e.dst} = s.subjects /\ e.type \in {"supports", "causes", "implies"}}
<1>4. WordsOf(s) = IF ruledOf THEN <<"ruled out", {}>> ELSE <<"name a source", {e.src : e \in intoOf}>>
  BY <1>3 DEF WordsOf
<1>5. \A e \in g.incident : e.src \in DOMAIN g.nodes
  BY DEF Whole
<1>6. ruledOf <=> ruled(id)
  BY <1>3, <1>5 DEF OnlySourcesAttest
<1>7. intoOf = into(id)
  <2>1. intoOf \subseteq into(id)
    BY <1>3
  <2>2. into(id) \subseteq intoOf
    BY <1>3
  <2> QED BY <2>1, <2>2
<1> HIDE DEF ruledOf, intoOf, into, ruled
<1>8. s.words = WordsOf(s)
  BY <1>3, <1>4, <1>6, <1>7
<1> QED BY <1>2, <1>8 DEF Fits, OfALoad, s

LEMMA InferencesFit ==
    ASSUME NEW g, NEW f \in CheckInference(g)
    PROVE  Fits(g, f)
<1> DEFINE from(id) == {e \in g.incident : e.type = "attests" /\ e.src = id}
           rests(id) == {e.dst : e \in from(id)}
<1>1. CASE \E says : f = Error(says)
  BY <1>1, ErrorsFit
<1>2. ASSUME NEW id, f = Warning("inference-no-premises", {id}, <<"resting", rests(id)>>)
      PROVE  Fits(g, f)
  <2> DEFINE s == Situation(g, f)
  <2>2. DOMAIN f = {"check", "severity", "subjects", "says"} /\ f.check = "inference-no-premises" /\ f.subjects = {id} /\ f.says = <<"resting", rests(id)>>
    BY <1>2 DEF Warning, Finding
  <2>3. s.check = "inference-no-premises" /\ s.subjects = {id} /\ s.words = <<"resting", rests(id)>>
        /\ s.relations = {e \in g.incident : {e.src, e.dst} \cap {id} # {}}
    BY <2>2 DEF Situation
  <2> HIDE DEF s
  <2> DEFINE fromOf == {e \in s.relations : e.type = "attests" /\ {e.src} = s.subjects}
  <2>4. WordsOf(s) = <<"resting", {e.dst : e \in fromOf}>>
    BY <2>3 DEF WordsOf
  <2>7. fromOf = from(id)
    <3>1. fromOf \subseteq from(id)
      BY <2>3
    <3>2. from(id) \subseteq fromOf
      BY <2>3
    <3> QED BY <3>1, <3>2
  <2> HIDE DEF fromOf
  <2>8. s.words = WordsOf(s)
    BY <2>3, <2>4, <2>7
  <2> QED BY <2>2, <2>8 DEF Fits, OfALoad, s
<1>3. \/ \E id : f = Warning("inference-no-premises", {id}, <<"resting", rests(id)>>)
      \/ \E says : f = Error(says)
  BY DEF CheckInference
<1> QED BY <1>1, <1>2, <1>3

LEMMA GraphFindingsFit ==
    ASSUME NEW g, Whole(g), g.incident \subseteq g.edges, OnlySourcesAttest(g), NEW set,
           NEW f \in GraphFindings(g, set)
    PROVE  Fits(g, f)
<1>1. \A says : Fits(g, Error(says)) /\ Fits(g, Notice(says))
  BY ErrorsFit
<1>2. CASE f \in CheckAliases(g)
  <2>1. \/ \E says : f = Error(says)
        \/ \E subjects, says : f = Warning("alias-ambiguous", subjects, says)
    BY <1>2 DEF CheckAliases
  <2> QED BY <1>1, <2>1, NamedFits DEF Warning, OfALoad
<1>3. CASE f \in CheckQuestions(g)
  <2>1. \E says : f = Notice(says)
    BY <1>3 DEF CheckQuestions
  <2> QED BY <1>1, <2>1
<1>4. CASE f \in CheckDuplicates(g)
  <2>1. \A pairs : \A x \in NearFindings(pairs) :
           \/ \E says : x = Notice(says)
           \/ \E subjects : x = Warning("near-duplicate", subjects, <<"may be one", {}>>)
    BY DEF NearFindings
  <2>2. \A comparison : \A x \in ComparisonFindings(g, comparison) :
           \/ \E says : x = Notice(says)
           \/ \E subjects : x = Warning("near-duplicate", subjects, <<"may be one", {}>>)
    BY <2>1 DEF ComparisonFindings
  <2>3. \/ \E says : f = Error(says)
        \/ \E says : f = Notice(says)
        \/ \E subjects : f = Warning("near-duplicate", subjects, <<"may be one", {}>>)
    BY <1>4, <2>2 DEF CheckDuplicates
  <2> QED BY <1>1, <2>3, NamedFits DEF Warning, OfALoad
<1>5. CASE f \in CheckSameDocument(g)
  BY <1>5, SameFileFits
<1>6. CASE f \in CheckAttestation(g, set)
  BY <1>6, UnsourcedFits
<1>7. CASE f \in CheckAttestVerdicts(set)
  BY <1>1, <1>7 DEF CheckAttestVerdicts
<1>8. CASE f \in CheckUnderdetermined(g)
  <2>1. \E says : f = Notice(says)
    BY <1>8 DEF CheckUnderdetermined
  <2> QED BY <1>1, <2>1
<1>9. CASE f \in CheckSupersession(g)
  BY <1>1, <1>9 DEF CheckSupersession
<1>10. CASE f \in CheckInference(g)
  BY <1>10, InferencesFit
<1>11. CASE f \in CheckSources(g)
  <2>1. \/ \E says : f = Error(says)
        \/ \E id : f = Warning("interested-no-speaker", {id}, <<"whose", {}>>)
        \/ \E id : f = Warning("long-description", {id}, <<"long", {}>>)
        \/ \E id : f = Warning("unreferenced-source", {id}, <<"unused", {}>>)
    BY <1>11 DEF CheckSources
  <2> QED BY <1>1, <2>1, NamedFits DEF Warning, OfALoad
<1>12. CASE f \in CheckBranches(g)
  <2> DEFINE options(id) == g.nodes[id].says.options \cap DOMAIN g.nodes
             asserted(id) == {o \in options(id) : g.nodes[o].status = "asserted"}
             asked == {id \in DOMAIN g.nodes : g.nodes[id].says.options # {}}
             plans(id) == {Notice(<<"no plan", {id, o}>>) :
                             o \in {o \in options(id) : \A x \in DOMAIN g.nodes : g.nodes[x].while # o}}
             both == {Error(<<"both", {id}>>) : id \in {id \in asked : Cardinality(asserted(id)) > 1}}
             neither == {Error(<<"neither", {id}>>) :
                           id \in {id \in asked : /\ g.nodes[id].says.exhaustive
                                                  /\ g.nodes[id].status = "resolved" /\ asserted(id) = {}}}
  <2>1. CheckBranches(g) = (UNION {plans(id) : id \in asked}) \cup both \cup neither
    BY DEF CheckBranches
  <2>2. \A id : \A x \in plans(id) : \E says : x = Notice(says)
    OBVIOUS
  <2>3. \A x \in both \cup neither : \E says : x = Error(says)
    OBVIOUS
  <2> HIDE DEF plans, both, neither, asked
  <2>4. \/ \E says : f = Error(says)
        \/ \E says : f = Notice(says)
    BY <1>12, <2>1, <2>2, <2>3
  <2> QED BY <1>1, <2>4
<1>13. CASE f \in CheckGroups(g)
  BY <1>1, <1>13 DEF CheckGroups
<1> QED
  BY <1>2, <1>3, <1>4, <1>5, <1>6, <1>7, <1>8, <1>9, <1>10, <1>11, <1>12, <1>13 DEF GraphFindings

\* The rules of an index change how bad a finding is, and not what it is.
LEMMA RulesKeepWords ==
    ASSUME NEW g, NEW some, NEW findings, NEW f \in ApplyRules(some, findings),
           \A x \in findings : Fits(g, x)
    PROVE  Fits(g, f)
<1>1. PICK x \in findings : f = x \/ f = [x EXCEPT !.severity = "error"]
  BY DEF ApplyRules
<1>2. f.check = x.check /\ f.subjects = x.subjects /\ f.says = x.says /\ DOMAIN f = DOMAIN x
  BY <1>1 DEF Fits
<1>3. Situation(g, f) = Situation(g, x)
  BY <1>2 DEF Situation
<1> QED BY <1>2, <1>3 DEF Fits, Keyed

LEMMA LoadFindingsFit ==
    ASSUME IInv, OnlySourcesAttest(graph), NEW f \in LoadFindings(graph)
    PROVE  Fits(graph, f)
<1> DEFINE found == GraphFindings(graph, Set)
           split == UNION {SplitContradictions(graph, rows) : rows \in DeclaredSets(graph)}
<1>1. Whole(graph) /\ graph.incident \subseteq graph.edges
  BY GraphIsWhole, EdgesOfTheGraph
<1>2. \A x \in found : Fits(graph, x)
  BY <1>1, GraphFindingsFit
<1>3. ASSUME NEW x \in split PROVE Fits(graph, x)
  <2>1. \E subjects, says : x = Warning("split-contradiction", subjects, says)
    BY <1>3 DEF SplitContradictions
  <2> QED BY <2>1, NamedFits DEF Warning, OfALoad
<1> HIDE DEF found, split
<1>4. f \in ApplyRules(rules, found \cup split)
  BY DEF LoadFindings, found, split
<1> QED BY <1>2, <1>3, <1>4, RulesKeepWords

\* What is kept with a key has it, and says what its facts say.
IsSituation(s) == s = [check |-> s.check, subjects |-> s.subjects, words |-> s.words,
                       facts |-> s.facts, relations |-> s.relations]
Shown(key, s) == KeyIsOf(key, s) /\ IsSituation(s) /\ (s.check \in OfALoad => s.words = WordsOf(s))

LEMMA OneKeyOneSituation ==
    ASSUME NEW key, NEW s, NEW t, Shown(key, s), Shown(key, t), key[1] \in OfALoad
    PROVE  s = t
<1>1. s.check = t.check /\ s.subjects = t.subjects /\ s.facts = t.facts /\ s.relations = t.relations
  BY DEF Shown, KeyIsOf
<1>2. WordsOf(s) = WordsOf(t)
  BY <1>1 DEF WordsOf
<1>3. s.words = t.words
  BY <1>1, <1>2 DEF Shown, KeyIsOf
<1> QED BY <1>1, <1>3 DEF Shown, IsSituation

LEMMA FindingsAreShown ==
    ASSUME IInv, OnlySourcesAttest(graph), NEW f \in ScanFindings(graph, LoadFindings(graph)), Keyed(f)
    PROVE  Shown(FindingKey(graph, f), Situation(graph, f))
<1> DEFINE key == FindingKey(graph, f)
           s == Situation(graph, f)
<1>1. KeyIsOf(key, s)
  BY GraphIsWhole, KeyTellsTheFacts
<1>2. IsSituation(s) /\ s.check = f.check
  BY DEF IsSituation, Situation
<1>3. f \in LoadFindings(graph) => Fits(graph, f)
  BY LoadFindingsFit
<1>4. ASSUME f \in ExcerptFindings(graph) PROVE f.check \notin OfALoad
  <2>1. \E severity, subjects, says : f = Finding("attested-excerpt-moved", severity, subjects, says)
    BY <1>4 DEF ExcerptFindings
  <2> QED BY <2>1 DEF Finding, OfALoad
<1> HIDE DEF key
<1>5. s.check \in OfALoad => s.words = WordsOf(s)
  <2> HIDE DEF s
  <2> QED BY <1>2, <1>3, <1>4 DEF Fits, ScanFindings, s
<1> HIDE DEF s
<1> QED BY <1>1, <1>2, <1>5 DEF Shown, key, s

LedgerInv ==
    /\ OnlySourcesAttest(graph)
    /\ \A p \in printed : Shown(p.key, p.situation)
    /\ \E n \in Nat : DOMAIN ledger = 1..n /\ ledger = [i \in 1..n |-> ledger[i]]
    /\ \A i \in DOMAIN ledger :
          /\ ledger[i].key[1] \in OfALoad
          /\ ledger[i].saw # {}
          /\ \A s \in ledger[i].saw : Shown(ledger[i].key, s)

LEMMA LedgerInit == InitLedgers => LedgerInv
<1> SUFFICES ASSUME InitLedgers PROVE LedgerInv
  OBVIOUS
<1>1. ledger = << >> /\ printed = {}
  BY DEF InitLedgers
<1>2. DOMAIN ledger = 1..0 /\ ledger = [i \in 1..0 |-> ledger[i]]
  BY <1>1
<1>3. OnlySourcesAttest(graph)
  BY CleanAttests DEF InitLedgers, Clean
<1> QED BY <1>1, <1>2, <1>3 DEF LedgerInv

LEMMA LedgerNext == IInv /\ LedgerInv /\ [NextLedgers]_corpusAndLedgers => LedgerInv'
<1> SUFFICES ASSUME IInv, LedgerInv, [NextLedgers]_corpusAndLedgers PROVE LedgerInv'
  OBVIOUS
<1>1. LedgersStep
  BY LedgersNext
<1>2. CASE graph' = graph /\ ledger' = ledger /\ printed' = printed
  BY <1>2 DEF LedgerInv
<1>3. CASE Rewrite /\ ledger' = ledger /\ printed' = printed
  <2>1. OnlySourcesAttest(graph')
    BY <1>3, CleanAttests DEF Rewrite, Clean
  <2> QED BY <1>3, <2>1 DEF LedgerInv
<1>4. ASSUME NEW reported \in {LoadFindings(graph)}, Scan(reported), graph' = graph PROVE LedgerInv'
  <2> DEFINE keyed == {f \in ScanFindings(graph, reported) : Keyed(f)}
  <2>1. ledger' = ledger /\ printed' = {[key |-> FindingKey(graph, f), situation |-> Situation(graph, f)] : f \in keyed}
    BY <1>4 DEF Scan
  <2>2. \A f \in keyed : Shown(FindingKey(graph, f), Situation(graph, f))
    BY FindingsAreShown DEF LedgerInv
  <2> HIDE DEF keyed
  <2>3. \A p \in printed' : Shown(p.key, p.situation)
    BY <2>1, <2>2
  <2> QED BY <1>4, <2>1, <2>3 DEF LedgerInv
<1>5. ASSUME NEW reported \in {LoadFindings(graph)}, Accept(reported), graph' = graph PROVE LedgerInv'
  <2>1. PICK key \in {p.key : p \in printed} \cap Acceptable(reported), by \in People \cup Machines :
           ledger' = Append(ledger, [key |-> key, by |-> by,
                       saw |-> {p.situation : p \in {p \in printed : p.key = key}}])
    BY <1>5 DEF Accept
  <2> DEFINE shown == {p.situation : p \in {p \in printed : p.key = key}}
             line == [key |-> key, by |-> by, saw |-> shown]
             old == ledger
  <2>2. line.key = key /\ line.saw = shown
    OBVIOUS
  <2>3. shown # {} /\ \A s \in shown : Shown(key, s)
    BY DEF LedgerInv
  <2>4. key[1] \in OfALoad
    <3>1. PICK f \in reported : Keyed(f) /\ key = FindingKey(graph, f)
      BY <2>1 DEF Acceptable
    <3>2. Fits(graph, f)
      BY LoadFindingsFit DEF LedgerInv
    <3> QED BY <3>1, <3>2 DEF Fits, FindingKey
  <2> HIDE DEF shown
  <2>5. ledger' = Append(old, line)
    BY <2>1 DEF shown
  <2> HIDE DEF line, old
  <2>6. PICK n \in Nat : DOMAIN old = 1..n /\ old = [i \in 1..n |-> old[i]]
    BY DEF LedgerInv, old
  <2> DEFINE longer == Append(old, line)
  <2>7. /\ DOMAIN longer = 1..(n + 1) /\ longer = [i \in 1..(n + 1) |-> longer[i]]
        /\ longer[n + 1] = line /\ \A i \in 1..n : longer[i] = old[i]
    BY <2>6, OneLonger
  <2>8. ledger' = longer /\ printed' = {}
    BY <1>5, <2>5 DEF Accept
  <2> HIDE DEF longer
  <2>9. ASSUME NEW i \in 1..(n + 1)
        PROVE  longer[i].key[1] \in OfALoad /\ longer[i].saw # {} /\ \A s \in longer[i].saw : Shown(longer[i].key, s)
    <3>1. CASE i = n + 1
      BY <2>2, <2>3, <2>4, <2>7, <3>1
    <3>2. CASE i \in 1..n
      BY <2>6, <2>7, <3>2 DEF LedgerInv, old
    <3>3. i = n + 1 \/ i \in 1..n
      OBVIOUS
    <3> QED BY <3>1, <3>2, <3>3
  <2>10. n + 1 \in Nat
    OBVIOUS
  <2> QED BY <1>5, <2>7, <2>8, <2>9, <2>10 DEF LedgerInv
<1> QED BY <1>1, <1>2, <1>3, <1>4, <1>5 DEF LedgersStep, Still

LEMMA SilencedWasSeen == ASSUME IInv, LedgerInv PROVE SilencedIsWhatWasSeen
<1> SUFFICES ASSUME NEW f \in Accepted(graph, ledger, ScanFindings(graph, LoadFindings(graph)))
             PROVE  \E i \in DOMAIN ledger : ledger[i].by \in People /\ Situation(graph, f) \in ledger[i].saw
  BY DEF SilencedIsWhatWasSeen
<1> DEFINE key == FindingKey(graph, f)
           now == Situation(graph, f)
<1>1. PICK i \in DOMAIN ledger : ledger[i].key = key /\ ledger[i].by \in People
  BY DEF Accepted, Honoured
<1>2. Shown(key, now)
  BY FindingsAreShown DEF Accepted, LedgerInv
<1> HIDE DEF key, now
<1>3. key[1] \in OfALoad
  BY <1>1 DEF LedgerInv
<1>4. PICK s \in ledger[i].saw : Shown(key, s)
  BY <1>1 DEF LedgerInv
<1>5. s = now
  BY <1>2, <1>3, <1>4, OneKeyOneSituation
<1> QED BY <1>1, <1>4, <1>5 DEF now

\* Whatever a scan does not print because it was accepted, a person accepted who had been
\* shown it, of these very facts and relations and in the same words (findingKey, Partition).
THEOREM SilencedWereSeen == LedgersSpec => []SilencedIsWhatWasSeen
<1>1. LedgersSpec => []LedgerInv
  BY LedgerInit, LedgerNext, LedgersInvariance, PTL DEF LedgersSpec
<1> QED BY <1>1, SilencedWasSeen, LedgersInvariance, PTL

-----------------------------------------------------------------------------
(* Ranking. *)

\* R, a set of pairs, orders the members of S.
StrictOrder(R, S) ==
    /\ \A x \in S : <<x, x>> \notin R
    /\ \A x, y \in S : x = y \/ <<x, y>> \in R \/ <<y, x>> \in R
    /\ \A x, y, z \in S : <<x, y>> \in R /\ <<y, z>> \in R => <<x, z>> \in R

\* A list of the members of S, each once, in this order.
Ranks(r, S, R) ==
    /\ r \in Seq(S)
    /\ \E n \in Nat : DOMAIN r = 1..n
    /\ \A i \in DOMAIN r : r[i] \in S
    /\ \A x \in S : \E i \in DOMAIN r : r[i] = x
    /\ \A i, j \in DOMAIN r : i < j <=> <<r[i], r[j]>> \in R
    /\ \A i, j \in DOMAIN r : r[i] = r[j] => i = j

LEMMA RankedLists ==
    ASSUME NEW S, IsFiniteSet(S), NEW R, StrictOrder(R, S)
    PROVE  Ranks(Ranked(S, R), S, R) /\ DOMAIN Ranked(S, R) = 1..Cardinality(S)
<1> DEFINE n == Cardinality(S)
           below == [x \in S |-> {y \in S : <<y, x>> \in R}]
           rank == [x \in S |-> Cardinality(below[x])]
           r == Ranked(S, R)
<1>1. n \in Nat
  BY FS_CardinalityType
<1>2. \A x \in S : below[x] \in SUBSET S /\ x \notin below[x]
  BY DEF StrictOrder
<1>3. \A x, y \in S : <<x, y>> \in R => below[x] \in SUBSET below[y] /\ x \in below[y]
  BY DEF StrictOrder
<1>4. ASSUME NEW T, IsFiniteSet(T), NEW U \in SUBSET T, NEW x \in T, x \notin U
      PROVE  Cardinality(U) \in Nat /\ Cardinality(U) < Cardinality(T)
  <2>1. IsFiniteSet(U) /\ Cardinality(U) <= Cardinality(T) /\ Cardinality(U) # Cardinality(T)
    BY <1>4, FS_Subset
  <2>2. Cardinality(U) \in Nat /\ Cardinality(T) \in Nat
    BY <1>4, <2>1, FS_CardinalityType
  <2> QED BY <2>1, <2>2
<1>5. \A x \in S : rank[x] = Cardinality(below[x])
  OBVIOUS
<1>6. \A x \in S : IsFiniteSet(below[x])
  BY <1>2, FS_Subset
<1> HIDE DEF below, rank
<1>7. \A x \in S : rank[x] \in 0..(n - 1)
  <2> TAKE x \in S
  <2>1. rank[x] \in Nat /\ rank[x] < n
    BY <1>2, <1>4, <1>5
  <2> QED BY <1>1, <2>1
<1>8. \A x, y \in S : <<x, y>> \in R => rank[x] < rank[y]
  <2> SUFFICES ASSUME NEW x \in S, NEW y \in S, <<x, y>> \in R PROVE rank[x] < rank[y]
    OBVIOUS
  <2>1. below[x] \in SUBSET below[y] /\ x \in below[y] /\ x \notin below[x]
    BY <1>2, <1>3
  <2>2. Cardinality(below[x]) < Cardinality(below[y])
    BY <1>4, <1>6, <2>1
  <2> QED BY <1>5, <2>2
<1>9. \A x, y \in S : rank[x] = rank[y] => x = y
  <2> SUFFICES ASSUME NEW x \in S, NEW y \in S, rank[x] = rank[y], x # y PROVE FALSE
    OBVIOUS
  <2>1. <<x, y>> \in R \/ <<y, x>> \in R
    BY DEF StrictOrder
  <2>2. rank[x] < rank[y] \/ rank[y] < rank[x]
    BY <1>8, <2>1
  <2> QED BY <1>7, <2>2
<1>10. \A x, y \in S : rank[x] < rank[y] => <<x, y>> \in R
  <2> SUFFICES ASSUME NEW x \in S, NEW y \in S, rank[x] < rank[y] PROVE <<x, y>> \in R
    OBVIOUS
  <2>1. x # y /\ ~ (rank[y] < rank[x])
    BY <1>7
  <2>2. x = y \/ <<x, y>> \in R \/ <<y, x>> \in R
    BY DEF StrictOrder
  <2> QED BY <1>8, <2>1, <2>2
<1>11. \A k \in 0..(n - 1) : \E x \in S : rank[x] = k
  <2> DEFINE f == [x \in S |-> rank[x]]
  <2>1. f \in Injection(S, 0..(n - 1))
    BY <1>7, <1>9 DEF Injection, IsInjective
  <2>2. IsFiniteSet(0..(n - 1)) /\ Cardinality(0..(n - 1)) = n
    <3>1. 0 \in Int /\ n - 1 \in Int
      BY <1>1
    <3>2. IsFiniteSet(0..(n - 1)) /\ Cardinality(0..(n - 1)) = IF 0 > n - 1 THEN 0 ELSE n - 1 - 0 + 1
      BY <3>1, FS_Interval
    <3> HIDE DEF n
    <3> QED BY <1>1, <3>2
  <2>3. f \in Surjection(S, 0..(n - 1))
    BY <2>1, <2>2, FS_Injection
  <2> QED BY <2>3 DEF Surjection
<1>12. DOMAIN r = 1..n /\ \A i \in 1..n : r[i] = CHOOSE x \in S : rank[x] = i - 1
  <2>1. \A i \in 1..n, x \in S : Cardinality({y \in S : <<y, x>> \in R}) = i - 1 <=> rank[x] = i - 1
    BY <1>5 DEF below
  <2>2. \A i \in 1..n : (CHOOSE x \in S : Cardinality({y \in S : <<y, x>> \in R}) = i - 1)
                          = (CHOOSE x \in S : rank[x] = i - 1)
    BY <2>1
  <2>3. r = [i \in 1..n |-> CHOOSE x \in S : Cardinality({y \in S : <<y, x>> \in R}) = i - 1]
    BY DEF Ranked
  <2> HIDE DEF r, n
  <2>4. DOMAIN r = 1..n /\ \A i \in 1..n : r[i] = CHOOSE x \in S : Cardinality({y \in S : <<y, x>> \in R}) = i - 1
    BY <2>3
  <2> QED BY <2>2, <2>4
<1>13. \A i \in 1..n : r[i] \in S /\ rank[r[i]] = i - 1
  <2> TAKE i \in 1..n
  <2> HIDE DEF r, n
  <2>1. i - 1 \in 0..(n - 1)
    BY <1>1
  <2> QED BY <1>11, <1>12, <2>1
<1>14. r = [i \in 1..n |-> r[i]]
  <2>1. \E f : r = [i \in 1..n |-> f[i]]
    <3> DEFINE f == [i \in 1..n |-> CHOOSE x \in S : Cardinality({y \in S : <<y, x>> \in R}) = i - 1]
    <3>1. r = f
      BY DEF Ranked
    <3> QED BY <3>1
  <2> HIDE DEF r, n
  <2> QED BY <2>1
<1> HIDE DEF r, n
<1>15. r \in Seq(S)
  <2>1. r \in [1..n -> S]
    BY <1>13, <1>14
  <2> QED BY <1>1, <2>1, SeqDef
<1>16. \A x \in S : \E i \in 1..n : r[i] = x
  <2> TAKE x \in S
  <2>1. rank[x] \in 0..(n - 1)
    BY <1>7
  <2>2. PICK i \in 1..n : i - 1 = rank[x]
    <3> DEFINE k == rank[x] + 1
    <3>1. k \in 1..n /\ k - 1 = rank[x]
      BY <1>1, <2>1
    <3> HIDE DEF k
    <3> QED BY <3>1
  <2>3. r[i] \in S /\ rank[r[i]] = rank[x]
    BY <1>13, <2>2
  <2> QED BY <1>9, <2>2, <2>3
<1>17. \A i, j \in 1..n : i < j <=> rank[r[i]] < rank[r[j]]
  BY <1>1, <1>13
<1>18. \A i, j \in 1..n : i < j <=> <<r[i], r[j]>> \in R
  BY <1>8, <1>10, <1>13, <1>17
<1>19. \A i, j \in 1..n : r[i] = r[j] => i = j
  BY <1>1, <1>13
<1> QED BY <1>1, <1>12, <1>13, <1>15, <1>16, <1>18, <1>19 DEF Ranks, r, n

\* The ids stand in an order.
LEMMA Positions ==
    /\ \A x \in Ids : Position(x) \in Nat
    /\ \A x, y \in Ids : Position(x) = Position(y) => x = y
<1>1. \A x \in Ids : \E i \in DOMAIN Alphabet : Alphabet[i] = x
  BY AlphabetAssumption DEF ToSet
<1>2. \A i \in DOMAIN Alphabet : i \in Nat
  BY AlphabetAssumption
<1>3. \A x \in Ids : Position(x) \in DOMAIN Alphabet /\ Alphabet[Position(x)] = x
  BY <1>1 DEF Position
<1> QED BY <1>2, <1>3

\* Two pairs of ids, as they are compared.
LexBefore(p, q) ==
    \/ Position(p[1]) < Position(q[1])
    \/ p[1] = q[1] /\ Position(p[2]) < Position(q[2])

LEMMA PairsAreOrdered ==
    LET P == Ids \X Ids
    IN  /\ \A p \in P : ~ LexBefore(p, p)
        /\ \A p, q \in P : p = q \/ LexBefore(p, q) \/ LexBefore(q, p)
        /\ \A p, q, s \in P : LexBefore(p, q) /\ LexBefore(q, s) => LexBefore(p, s)
<1>1. \A p \in Ids \X Ids : p = <<p[1], p[2]>> /\ p[1] \in Ids /\ p[2] \in Ids
  OBVIOUS
<1>2. \A x, y \in Ids : x = y \/ Position(x) < Position(y) \/ Position(y) < Position(x)
  BY Positions
<1>3. \A p \in Ids \X Ids : ~ LexBefore(p, p)
  BY <1>1, Positions DEF LexBefore
<1>4. \A p, q \in Ids \X Ids : p = q \/ LexBefore(p, q) \/ LexBefore(q, p)
  BY <1>1, <1>2 DEF LexBefore
<1>5. \A p, q, s \in Ids \X Ids : LexBefore(p, q) /\ LexBefore(q, s) => LexBefore(p, s)
  <2> TAKE p, q, s \in Ids \X Ids
  <2>1. /\ Position(p[1]) \in Nat /\ Position(q[1]) \in Nat /\ Position(s[1]) \in Nat
        /\ Position(p[2]) \in Nat /\ Position(q[2]) \in Nat /\ Position(s[2]) \in Nat
    BY <1>1, Positions
  <2> QED BY <2>1 DEF LexBefore
<1> QED BY <1>3, <1>4, <1>5

-----------------------------------------------------------------------------
(* The order of the queue. *)

\* Of two citations with their bands.
BandedBefore(p, q) == p[1] < q[1] \/ (p[1] = q[1] /\ LexBefore(p[2], q[2]))

LEMMA BandsAreOrdered ==
    ASSUME NEW S, S \in SUBSET (Nat \X (Ids \X Ids))
    PROVE  StrictOrder({p \in S \X S : BandedBefore(p[1], p[2])}, S)
<1> DEFINE R == {p \in S \X S : BandedBefore(p[1], p[2])}
<1>1. \A x, y \in S : <<x, y>> \in R <=> BandedBefore(x, y)
  OBVIOUS
<1>2. \A x \in S : x = <<x[1], x[2]>> /\ x[1] \in Nat /\ x[2] \in Ids \X Ids
  OBVIOUS
<1>3. \A x \in S : ~ BandedBefore(x, x)
  BY <1>2, PairsAreOrdered DEF BandedBefore
<1>4. \A x, y \in S : x = y \/ BandedBefore(x, y) \/ BandedBefore(y, x)
  <2> TAKE x, y \in S
  <2>1. CASE x[1] = y[1]
    <3>1. x[2] = y[2] \/ LexBefore(x[2], y[2]) \/ LexBefore(y[2], x[2])
      BY <1>2, PairsAreOrdered
    <3>2. x[2] = y[2] => x = y
      BY <1>2, <2>1
    <3> QED BY <2>1, <3>1, <3>2 DEF BandedBefore
  <2>2. CASE x[1] # y[1]
    <3>1. x[1] < y[1] \/ y[1] < x[1]
      BY <1>2, <2>2
    <3> QED BY <3>1 DEF BandedBefore
  <2> QED BY <2>1, <2>2
<1>5. \A x, y, z \in S : BandedBefore(x, y) /\ BandedBefore(y, z) => BandedBefore(x, z)
  <2> SUFFICES ASSUME NEW x \in S, NEW y \in S, NEW z \in S, BandedBefore(x, y), BandedBefore(y, z)
               PROVE  BandedBefore(x, z)
    OBVIOUS
  <2>1. x[1] \in Nat /\ y[1] \in Nat /\ z[1] \in Nat
    BY <1>2
  <2>2. LexBefore(x[2], y[2]) /\ LexBefore(y[2], z[2]) => LexBefore(x[2], z[2])
    BY <1>2, PairsAreOrdered
  <2> QED BY <2>1, <2>2 DEF BandedBefore
<1> HIDE DEF R
<1> QED BY <1>1, <1>3, <1>4, <1>5 DEF StrictOrder, R

LEMMA QueueIsInBands ==
    ASSUME NEW S, S \in SUBSET (Ids \X Ids), IsFiniteSet(S), NEW B, \A key \in S : B[key] \in Nat,
           NEW j \in S, NEW k \in S
    PROVE  Ahead(InBands({<<B[key], key>> : key \in S}), j, k) <=> BandedBefore(<<B[j], j>>, <<B[k], k>>)
<1> DEFINE banded == {<<B[key], key>> : key \in S}
           R == {p \in banded \X banded : BandedBefore(p[1], p[2])}
           r == Ranked(banded, R)
           q == InBands(banded)
<1>1. banded \in SUBSET (Nat \X (Ids \X Ids)) /\ IsFiniteSet(banded)
  <2> DEFINE f == [key \in S |-> <<B[key], key>>]
  <2>1. f \in Surjection(S, banded)
    BY DEF Surjection
  <2>2. IsFiniteSet(banded)
    BY <2>1, FS_Surjection
  <2> QED BY <2>2
<1>2. q = [i \in DOMAIN r |-> r[i][2]]
  BY DEF InBands, BandedBefore, LexBefore
<1>3. Ranks(r, banded, R)
  <2> HIDE DEF banded
  <2>1. StrictOrder(R, banded)
    BY <1>1, BandsAreOrdered
  <2> HIDE DEF R
  <2> QED BY <1>1, <2>1, RankedLists
<1>4. \A x, y \in banded : <<x, y>> \in R <=> BandedBefore(x, y)
  OBVIOUS
<1>5. \A x \in banded : x = <<B[x[2]], x[2]>>
  OBVIOUS
<1>6. <<B[j], j>> \in banded /\ <<B[k], k>> \in banded
  OBVIOUS
<1> HIDE DEF R, r, q, banded
<1>7. ASSUME Ahead(q, j, k) PROVE BandedBefore(<<B[j], j>>, <<B[k], k>>)
  <2>1. PICK m \in DOMAIN q, n \in DOMAIN q : m < n /\ q[m] = j /\ q[n] = k
    BY <1>7 DEF Ahead
  <2>2. m \in DOMAIN r /\ n \in DOMAIN r /\ r[m][2] = j /\ r[n][2] = k
    BY <1>2, <2>1
  <2>3. r[m] \in banded /\ r[n] \in banded /\ <<r[m], r[n]>> \in R
    BY <1>3, <2>1, <2>2 DEF Ranks
  <2>4. r[m] = <<B[j], j>> /\ r[n] = <<B[k], k>>
    BY <1>5, <2>2, <2>3
  <2> QED BY <1>4, <2>3, <2>4
<1>8. ASSUME BandedBefore(<<B[j], j>>, <<B[k], k>>) PROVE Ahead(q, j, k)
  <2>1. PICK m \in DOMAIN r : r[m] = <<B[j], j>>
    BY <1>3, <1>6 DEF Ranks
  <2>2. PICK n \in DOMAIN r : r[n] = <<B[k], k>>
    BY <1>3, <1>6 DEF Ranks
  <2>3. m < n
    BY <1>3, <1>4, <1>6, <1>8, <2>1, <2>2 DEF Ranks
  <2>4. m \in DOMAIN q /\ n \in DOMAIN q /\ q[m] = j /\ q[n] = k
    BY <1>2, <2>1, <2>2
  <2> QED BY <2>3, <2>4 DEF Ahead
<1> QED BY <1>7, <1>8 DEF q, banded

LEMMA BandsAreNumbers ==
    ASSUME NEW g, NEW pending, NEW key, NEW absent, NEW used
    PROVE  Band(g, pending, key, absent, used) \in Nat
<1>1. CASE key \in absent
  BY <1>1 DEF Band
<1>2. CASE key \notin absent /\ Tension(g, key[1], NoDate) # "none"
  BY <1>2 DEF Band
<1>3. CASE key \notin absent /\ ~ (Tension(g, key[1], NoDate) # "none")
  BY <1>3 DEF Band
<1> QED BY <1>1, <1>2, <1>3

\* The queue of some citations, listed by band.
LEMMA RankedByBand ==
    ASSUME NEW g, NEW S, S \in SUBSET (Ids \X Ids), IsFiniteSet(S), NEW absent, NEW used, NEW j \in S, NEW k \in S
    PROVE  Ahead(RankPending(g, S, absent, used), j, k)
              <=> BandedBefore(<<Band(g, S, j, absent, used), j>>, <<Band(g, S, k, absent, used), k>>)
<1> DEFINE B == [key \in S |-> Band(g, S, key, absent, used)]
           banded == {<<B[key], key>> : key \in S}
<1>1. \A key \in S : B[key] = Band(g, S, key, absent, used)
  OBVIOUS
<1>2. \A key \in S : B[key] \in Nat
  BY BandsAreNumbers
<1> HIDE DEF B
<1>3. RankPending(g, S, absent, used) = InBands(banded)
  <2>1. {<<Band(g, S, key, absent, used), key>> : key \in S} = banded
    BY <1>1
  <2> HIDE DEF banded
  <2> QED BY <2>1 DEF RankPending
<1>4. Ahead(InBands(banded), j, k) <=> BandedBefore(<<B[j], j>>, <<B[k], k>>)
  BY <1>2, QueueIsInBands
<1> QED BY <1>1, <1>3, <1>4

\* A band does not depend on what else is on the list.
LEMMA BandsAreTheirOwn ==
    ASSUME NEW g, NEW S, NEW T, NEW key, NEW absent, NEW used
    PROVE  Band(g, S, key, absent, used) = Band(g, T, key, absent, used)
BY DEF Band, Sole

LEMMA PendingIsFinite ==
    ASSUME NEW g, DOMAIN g.nodes \subseteq Ids, NEW set
    PROVE  PendingHuman(g, set) \in SUBSET (Ids \X Ids) /\ IsFiniteSet(PendingHuman(g, set))
<1>1. PendingHuman(g, set) \in SUBSET (Ids \X Ids)
  BY DEF PendingHuman, AllCitations
<1>2. IsFiniteSet(Ids \X Ids)
  BY CorpusAssumption, FS_Product
<1> QED BY <1>1, <1>2, FS_Subset

\* What a step of the ledgers that leaves the graph does to the order of the queue.
OrderIsKept ==
    LET before == PendingHuman(graph, Set)
        after == PendingHuman(graph, Set')
    IN  \A absent \in AbsentQuotes(graph, texts), used \in {UsedBy(graph, DeclaredAnswers(graph))} :
          \A was \in {RankPending(graph, before, absent, used)},
             is \in {RankPending(graph, after, absent, used)} :
            \A j, k \in before \cap after :
               /\ Ahead(is, j, k) <=> Ahead(was, j, k)
               /\ j # k => Ahead(was, j, k) # Ahead(was, k, j)

LEMMA QueueKeepsOrder == IInv => OrderIsKept
<1> SUFFICES ASSUME IInv PROVE OrderIsKept
  OBVIOUS
<1>1. DOMAIN graph.nodes \subseteq Ids
  BY GraphIsWhole DEF Whole
<1> DEFINE before == PendingHuman(graph, Set)
           after == PendingHuman(graph, Set')
<1>2. /\ before \in SUBSET (Ids \X Ids) /\ IsFiniteSet(before)
      /\ after \in SUBSET (Ids \X Ids) /\ IsFiniteSet(after)
  BY <1>1, PendingIsFinite
<1> HIDE DEF before, after
<1> SUFFICES ASSUME NEW absent, NEW used, NEW j \in before \cap after, NEW k \in before \cap after
             PROVE  /\ Ahead(RankPending(graph, after, absent, used), j, k)
                           <=> Ahead(RankPending(graph, before, absent, used), j, k)
                    /\ j # k => Ahead(RankPending(graph, before, absent, used), j, k)
                                   # Ahead(RankPending(graph, before, absent, used), k, j)
  BY DEF OrderIsKept, before, after
<1> DEFINE first == <<Band(graph, before, j, absent, used), j>>
           second == <<Band(graph, before, k, absent, used), k>>
<1>3. Ahead(RankPending(graph, before, absent, used), j, k) <=> BandedBefore(first, second)
  BY <1>2, RankedByBand
<1>4. Ahead(RankPending(graph, before, absent, used), k, j) <=> BandedBefore(second, first)
  BY <1>2, RankedByBand
<1>5. Ahead(RankPending(graph, after, absent, used), j, k) <=> BandedBefore(first, second)
  <2>1. Ahead(RankPending(graph, after, absent, used), j, k)
           <=> BandedBefore(<<Band(graph, after, j, absent, used), j>>, <<Band(graph, after, k, absent, used), k>>)
    BY <1>2, RankedByBand
  <2>2. /\ Band(graph, after, j, absent, used) = Band(graph, before, j, absent, used)
        /\ Band(graph, after, k, absent, used) = Band(graph, before, k, absent, used)
    BY BandsAreTheirOwn
  <2> QED BY <2>1, <2>2
<1>6. j # k => (BandedBefore(first, second) <=> ~ BandedBefore(second, first))
  <2> SUFFICES ASSUME j # k PROVE BandedBefore(first, second) <=> ~ BandedBefore(second, first)
    OBVIOUS
  <2> DEFINE S == {first, second}
             R == {p \in S \X S : BandedBefore(p[1], p[2])}
  <2>1. S \in SUBSET (Nat \X (Ids \X Ids))
    BY <1>2, BandsAreNumbers
  <2>2. first # second
    OBVIOUS
  <2> HIDE DEF first, second
  <2>3. StrictOrder(R, S)
    <3> HIDE DEF S
    <3> QED BY <2>1, BandsAreOrdered
  <2>4. \A x, y \in S : <<x, y>> \in R <=> BandedBefore(x, y)
    OBVIOUS
  <2> HIDE DEF R
  <2>5. BandedBefore(first, second) \/ BandedBefore(second, first)
    BY <2>2, <2>3, <2>4 DEF StrictOrder
  <2>6. ~ (BandedBefore(first, second) /\ BandedBefore(second, first))
    BY <2>3, <2>4 DEF StrictOrder
  <2> QED BY <2>5, <2>6
<1> HIDE DEF first, second
<1> DEFINE a == Ahead(RankPending(graph, before, absent, used), j, k)
           b == Ahead(RankPending(graph, before, absent, used), k, j)
<1>7. a \in BOOLEAN /\ b \in BOOLEAN
  BY DEF Ahead
<1>8. (a <=> ~ b) => a # b
  BY <1>7
<1>9. j # k => (a <=> ~ b)
  BY <1>3, <1>4, <1>6
<1> QED BY <1>3, <1>5, <1>8, <1>9

\* A ruling leaves what else is on the list in the order it was in (RankPending).
THEOREM OrderIsAlwaysKept == LedgersSpec => QueueKeepsItsOrder
<1>1. IInv => [graph' = graph /\ texts' = texts => OrderIsKept]_<<vars, texts, verdicts>>
  BY QueueKeepsOrder
<1>2. LedgersSpec => []IInv
  BY VerdictsInvariance, PTL
<1> QED BY <1>1, <1>2, PTL DEF QueueKeepsItsOrder, OrderIsKept

-----------------------------------------------------------------------------
(* Clusters are things. *)

\* A forest over D: what each member's root is, and how far up it is.
Rooted(D, parent, root, height, top) ==
    /\ parent \in [D -> D] /\ root \in [D -> D]
    /\ height \in [D -> Nat] /\ top \in Nat
    /\ \A x \in D : height[x] < top
    /\ \A x \in D : parent[x] = x => root[x] = x
    /\ \A x \in D : parent[x] # x => root[x] = root[parent[x]] /\ height[parent[x]] < height[x]
    /\ \A x \in D : parent[root[x]] = root[x]

LEMMA RootsAreFound ==
    ASSUME NEW D, NEW parent, NEW root, NEW height, NEW top, Rooted(D, parent, root, height, top)
    PROVE  RootIn(parent) = root
<1> DEFINE Finds(f) == f = [y \in DOMAIN parent |-> IF parent[y] = y THEN y ELSE f[parent[y]]]
           found == CHOOSE f : Finds(f)
<1>1. DOMAIN parent = D /\ \A x \in D : parent[x] \in D
  BY DEF Rooted
<1>2. Finds(root)
  BY <1>1 DEF Rooted
<1>3. Finds(found)
  <2> HIDE DEF Finds
  <2> QED BY <1>2
<1>4. \A x \in D : found[x] = IF parent[x] = x THEN x ELSE found[parent[x]]
  <2> HIDE DEF found
  <2>1. \A x \in D : [y \in D |-> IF parent[y] = y THEN y ELSE found[parent[y]]][x]
                       = IF parent[x] = x THEN x ELSE found[parent[x]]
    OBVIOUS
  <2> QED BY <1>1, <1>3, <2>1
<1>5. RootIn(parent) = [x \in DOMAIN parent |-> found[x]]
  BY DEF RootIn
<1> HIDE DEF found
<1> DEFINE S == {n \in Nat : \A x \in D : height[x] < n => found[x] = root[x]}
<1>6. 0 \in S
  BY DEF Rooted
<1>7. ASSUME NEW n \in S PROVE n + 1 \in S
  <2>1. n \in Nat /\ \A x \in D : height[x] < n => found[x] = root[x]
    OBVIOUS
  <2>2. ASSUME NEW x \in D, height[x] < n + 1 PROVE found[x] = root[x]
    <3>1. CASE parent[x] = x
      BY <1>4, <3>1 DEF Rooted
    <3>2. CASE parent[x] # x
      <4>1. height[parent[x]] < height[x] /\ root[x] = root[parent[x]] /\ parent[x] \in D
        BY <1>1, <3>2 DEF Rooted
      <4>2. height[parent[x]] \in Nat /\ height[x] \in Nat
        BY <1>1 DEF Rooted
      <4>3. height[parent[x]] < n
        BY <2>1, <2>2, <4>1, <4>2
      <4> QED BY <1>4, <2>1, <3>2, <4>1, <4>3
    <3> QED BY <3>1, <3>2
  <2> QED BY <2>1, <2>2
<1>8. S = Nat
  <2>1. S \in SUBSET Nat
    OBVIOUS
  <2> HIDE DEF S
  <2> QED BY <1>6, <1>7, <2>1, Induction
<1>9. \A x \in D : found[x] = root[x]
  BY <1>8 DEF Rooted
<1> QED BY <1>1, <1>5, <1>9 DEF Rooted

\* The roots once two things are one.
Merge(root, a, b) == [x \in DOMAIN root |-> IF root[x] = root[a] THEN root[b] ELSE root[x]]

LEMMA JoinedIsRooted ==
    ASSUME NEW D, NEW parent, NEW root, NEW height, NEW top, Rooted(D, parent, root, height, top),
           NEW a \in D, NEW b \in D
    PROVE  \E up, more : Rooted(D, Joined(parent, <<a, b>>), Merge(root, a, b), up, more)
<1> DEFINE ra == root[a]
           rb == root[b]
           joined == Joined(parent, <<a, b>>)
           merged == Merge(root, a, b)
           up == [x \in D |-> IF root[x] = ra /\ ra # rb THEN height[x] + height[rb] + 1 ELSE height[x]]
           more == top + top
<1>1. /\ DOMAIN parent = D /\ DOMAIN root = D /\ top \in Nat
      /\ \A x \in D : parent[x] \in D /\ root[x] \in D /\ height[x] \in Nat /\ height[x] < top
  BY DEF Rooted
<1>2. ra \in D /\ rb \in D /\ parent[ra] = ra /\ parent[rb] = rb /\ root[ra] = ra /\ root[rb] = rb
  BY <1>1 DEF Rooted
<1>3. joined = [parent EXCEPT ![ra] = rb]
  BY RootsAreFound DEF Joined
<1>4. joined \in [D -> D] /\ \A x \in D : joined[x] = IF x = ra THEN rb ELSE parent[x]
  BY <1>1, <1>2, <1>3
<1>5. merged \in [D -> D] /\ \A x \in D : merged[x] = IF root[x] = ra THEN rb ELSE root[x]
  BY <1>1, <1>2 DEF Merge
<1>6. \A x \in D : up[x] = IF root[x] = ra /\ ra # rb THEN height[x] + height[rb] + 1 ELSE height[x]
  OBVIOUS
<1>7. up \in [D -> Nat] /\ more \in Nat /\ \A x \in D : up[x] < more
  <2>1. ASSUME NEW x \in D PROVE up[x] \in Nat /\ up[x] < more
    <3>1. height[x] \in Nat /\ height[rb] \in Nat /\ top \in Nat /\ height[x] < top /\ height[rb] < top
      BY <1>1, <1>2
    <3>2. height[x] + height[rb] + 1 \in Nat /\ height[x] + height[rb] + 1 < top + top /\ height[x] < top + top
      BY <3>1
    <3> QED BY <1>6, <3>1, <3>2
  <2> QED BY <1>1, <2>1
<1> HIDE DEF joined, merged, up, ra, rb
<1>8. ASSUME NEW x \in D, joined[x] = x PROVE merged[x] = x
  <2>1. CASE x = ra
    BY <1>2, <1>4, <1>5, <1>8, <2>1
  <2>2. CASE x # ra
    <3>1. parent[x] = x /\ root[x] = x
      BY <1>4, <1>8, <2>2 DEF Rooted
    <3> QED BY <1>5, <2>2, <3>1
  <2> QED BY <2>1, <2>2
<1>9. ASSUME NEW x \in D, joined[x] # x PROVE merged[x] = merged[joined[x]] /\ up[joined[x]] < up[x]
  <2>1. CASE x = ra
    <3>1. joined[x] = rb /\ ra # rb
      BY <1>4, <1>9, <2>1
    <3>2. merged[x] = rb /\ merged[rb] = rb
      BY <1>2, <1>5, <2>1
    <3>3. up[x] = height[x] + height[rb] + 1 /\ up[rb] = height[rb]
      BY <1>2, <1>6, <2>1, <3>1
    <3>4. height[x] \in Nat /\ height[rb] \in Nat
      BY <1>1, <1>2
    <3>5. up[rb] < up[x]
      BY <3>3, <3>4
    <3> QED BY <3>1, <3>2, <3>5
  <2>2. CASE x # ra
    <3>1. joined[x] = parent[x] /\ parent[x] # x
      BY <1>4, <1>9, <2>2
    <3>2. root[parent[x]] = root[x] /\ height[parent[x]] < height[x] /\ parent[x] \in D
      BY <1>1, <3>1 DEF Rooted
    <3>3. merged[x] = merged[parent[x]]
      BY <1>5, <3>2
    <3>4. up[parent[x]] < up[x]
      <4>1. height[x] \in Nat /\ height[parent[x]] \in Nat /\ height[rb] \in Nat
        BY <1>1, <1>2, <3>2
      <4>2. height[parent[x]] + height[rb] + 1 < height[x] + height[rb] + 1
        BY <3>2, <4>1
      <4> QED BY <1>6, <3>2, <4>2
    <3> QED BY <3>1, <3>3, <3>4
  <2> QED BY <2>1, <2>2
<1>10. ASSUME NEW x \in D PROVE joined[merged[x]] = merged[x]
  <2>1. CASE root[x] = ra
    <3>1. merged[x] = rb
      BY <1>5, <2>1
    <3>2. joined[rb] = rb
      BY <1>2, <1>4
    <3> QED BY <3>1, <3>2
  <2>2. CASE root[x] # ra
    <3>1. merged[x] = root[x] /\ parent[root[x]] = root[x]
      BY <1>5, <2>2 DEF Rooted
    <3> QED BY <1>1, <1>4, <2>2, <3>1
  <2> QED BY <2>1, <2>2
<1>11. Rooted(D, joined, merged, up, more)
  BY <1>4, <1>5, <1>7, <1>8, <1>9, <1>10 DEF Rooted
<1> QED BY <1>11 DEF joined, merged

\* A set that has both ends of a pair or neither.
ClosedUnder(pairs, S) == \A m \in DOMAIN pairs : pairs[m][1] \in S <=> pairs[m][2] \in S

\* The ends of some pairs.
EndsOf(pairs) == {pairs[m][1] : m \in DOMAIN pairs} \cup {pairs[m][2] : m \in DOMAIN pairs}

\* What n of the pairs make of D: their ends have one root, and what a closed set has of a
\* thing is all of it.
Gathers(D, pairs, n, root) ==
    /\ \A m \in 1..n : root[pairs[m][1]] = root[pairs[m][2]]
    /\ \A S \in SUBSET D : ClosedUnder(pairs, S) =>
          \A x, y \in D : root[x] = root[y] /\ x \in S => y \in S

LEMMA OnePairMore ==
    ASSUME NEW D, NEW pairs, NEW n \in Nat, NEW root \in [D -> D], Gathers(D, pairs, n, root),
           n + 1 \in DOMAIN pairs, \A m \in 1..(n + 1) : pairs[m][1] \in D /\ pairs[m][2] \in D
    PROVE  Gathers(D, pairs, n + 1, Merge(root, pairs[n + 1][1], pairs[n + 1][2]))
<1> DEFINE a == pairs[n + 1][1]
           b == pairs[n + 1][2]
           merged == Merge(root, a, b)
<1>1. a \in D /\ b \in D
  BY n + 1 \in 1..(n + 1)
<1>2. \A x \in D : merged[x] = IF root[x] = root[a] THEN root[b] ELSE root[x]
  BY DEF Merge
<1>0. \A S \in SUBSET D : ClosedUnder(pairs, S) => (a \in S <=> b \in S)
  BY DEF ClosedUnder
<1> HIDE DEF merged
<1>3. ASSUME NEW m \in 1..(n + 1) PROVE merged[pairs[m][1]] = merged[pairs[m][2]]
  <2>1. m = n + 1 \/ m \in 1..n
    OBVIOUS
  <2>2. pairs[m][1] \in D /\ pairs[m][2] \in D
    OBVIOUS
  <2>3. CASE m = n + 1
    BY <1>1, <1>2, <2>3
  <2>4. CASE m \in 1..n
    <3>1. root[pairs[m][1]] = root[pairs[m][2]]
      BY <2>4 DEF Gathers
    <3> QED BY <1>2, <2>2, <3>1
  <2> QED BY <2>1, <2>3, <2>4
<1> HIDE DEF a, b
<1>4. ASSUME NEW S \in SUBSET D, ClosedUnder(pairs, S), NEW x \in D, NEW y \in D, merged[x] = merged[y], x \in S
      PROVE  y \in S
  <2>1. \A u, v \in D : root[u] = root[v] /\ u \in S => v \in S
    BY <1>4 DEF Gathers
  <2>2. a \in S <=> b \in S
    BY <1>0, <1>4
  <2>3. CASE root[x] = root[a] /\ root[y] = root[a]
    BY <1>4, <2>1, <2>3
  <2>4. CASE root[x] = root[a] /\ root[y] # root[a]
    <3>1. root[y] = root[b]
      BY <1>2, <1>4, <2>4
    <3> QED BY <1>1, <1>4, <2>1, <2>2, <2>4, <3>1
  <2>5. CASE root[x] # root[a] /\ root[y] = root[a]
    <3>1. root[x] = root[b]
      BY <1>2, <1>4, <2>5
    <3> QED BY <1>1, <1>4, <2>1, <2>2, <2>5, <3>1
  <2>6. CASE root[x] # root[a] /\ root[y] # root[a]
    BY <1>2, <1>4, <2>1, <2>6
  <2> QED BY <2>3, <2>4, <2>5, <2>6
<1> HIDE DEF Gathers
<1>5. Gathers(D, pairs, n + 1, merged)
  BY <1>3, <1>4 DEF Gathers
<1> QED BY <1>5 DEF merged, a, b

\* The forests over D.
Forests(D) == {p \in [D -> D] : \E root, height, top : Rooted(D, p, root, height, top)}

LEMMA JoinedIsAForest ==
    ASSUME NEW D, NEW p \in Forests(D), NEW pair \in D \X D
    PROVE  Joined(p, pair) \in Forests(D)
<1>1. PICK root, height, top : Rooted(D, p, root, height, top)
  BY DEF Forests
<1>2. pair[1] \in D /\ pair[2] \in D /\ pair = <<pair[1], pair[2]>>
  OBVIOUS
<1>3. PICK up, more : Rooted(D, Joined(p, pair), Merge(root, pair[1], pair[2]), up, more)
  BY <1>1, <1>2, JoinedIsRooted
<1>4. Joined(p, pair) \in [D -> D]
  BY <1>3 DEF Rooted
<1> QED BY <1>3, <1>4 DEF Forests

\* The parents, after each of the pairs.
Joins(f, D, pairs, len) ==
    f = [n \in 0..len |-> IF n = 0 THEN [x \in D |-> x] ELSE Joined(f[n - 1], pairs[n])]

LEMMA JoinsUnfold ==
    ASSUME NEW D, NEW len \in Nat, NEW pairs, \A m \in 1..len : pairs[m] \in D \X D
    PROVE  \E f : Joins(f, D, pairs, len)
<1> DEFINE I == [x \in D |-> x]
           V == Forests(D)
           N == 0..len
           rank == [n \in N |-> n]
           step(n, f) == IF n = 0 THEN I ELSE Joined(f[n - 1], pairs[n])
           F == [n \in N |-> [f \in [N -> V] |-> step(n, f)]]
<1>1. I \in V
  <2>1. I \in [D -> D] /\ \A x \in D : I[x] = x
    OBVIOUS
  <2> DEFINE zero == [x \in D |-> 0]
  <2>2. zero \in [D -> Nat] /\ \A x \in D : zero[x] = 0
    OBVIOUS
  <2> HIDE DEF I, zero
  <2>3. Rooted(D, I, I, zero, 1)
    BY <2>1, <2>2 DEF Rooted
  <2> QED BY <2>1, <2>3 DEF Forests
<1>2. \A n \in N : \A f \in [N -> V] : F[n][f] = step(n, f)
  OBVIOUS
<1>3. ASSUME NEW n \in N, NEW f \in [N -> V] PROVE F[n][f] \in V
  <2>1. CASE n = 0
    BY <1>1, <1>2, <2>1
  <2>2. CASE n # 0
    <3>1. n - 1 \in N /\ n \in 1..len
      BY <2>2
    <3>2. Joined(f[n - 1], pairs[n]) \in V
      BY <3>1, JoinedIsAForest
    <3> QED BY <1>2, <2>2, <3>2
  <2> QED BY <2>1, <2>2
<1>4. ASSUME NEW n \in N, NEW f \in [N -> V], NEW h \in [N -> V],
             \A m \in N : rank[m] < rank[n] => f[m] = h[m]
      PROVE  F[n][f] = F[n][h]
  <2>1. CASE n = 0
    BY <1>2, <2>1
  <2>2. CASE n # 0
    <3>1. n - 1 \in N /\ rank[n - 1] < rank[n]
      BY <2>2
    <3>2. f[n - 1] = h[n - 1]
      BY <1>4, <3>1
    <3>3. step(n, f) = Joined(f[n - 1], pairs[n]) /\ step(n, h) = Joined(h[n - 1], pairs[n])
      BY <2>2
    <3>4. step(n, f) = step(n, h)
      BY <3>2, <3>3
    <3> HIDE DEF F, step
    <3> QED BY <1>2, <3>4
  <2> QED BY <2>1, <2>2
<1>5. rank \in [N -> Nat] /\ \A n \in N : rank[n] < len + 1
  OBVIOUS
<1> HIDE DEF F, rank, V
<1>6. Recursive(N, V, rank, len + 1, F)
  <2> HIDE DEF N
  <2> QED BY <1>3, <1>4, <1>5 DEF Recursive
<1>7. PICK f \in [N -> V] : \A n \in N : f[n] = F[n][f]
  <2>1. len + 1 \in Nat
    OBVIOUS
  <2> HIDE DEF N, I
  <2> QED BY <1>1, <1>6, <2>1, Recursion
<1>8. \A n \in N : f[n] = step(n, f)
  BY <1>2, <1>7
<1>9. f = [n \in N |-> step(n, f)]
  <2> HIDE DEF step, N
  <2> QED BY <1>8
<1>10. Joins(f, D, pairs, len)
  BY <1>9 DEF Joins
<1> QED BY <1>10

\* After all pairs the ids are gathered, whatever the order they were joined in.
LEMMA AllAreGathered ==
    ASSUME NEW D, NEW len \in Nat, NEW pairs, DOMAIN pairs = 1..len, \A m \in 1..len : pairs[m] \in D \X D,
           NEW f, Joins(f, D, pairs, len)
    PROVE  \E root, height, top : Rooted(D, f[len], root, height, top) /\ Gathers(D, pairs, len, root)
<1> DEFINE I == [x \in D |-> x]
           Done(n) == \E root, height, top : Rooted(D, f[n], root, height, top) /\ Gathers(D, pairs, n, root)
           S == {n \in Nat : n <= len => Done(n)}
<1>1. \A n \in 0..len : f[n] = IF n = 0 THEN I ELSE Joined(f[n - 1], pairs[n])
  <2> DEFINE g == [n \in 0..len |-> IF n = 0 THEN I ELSE Joined(f[n - 1], pairs[n])]
  <2>1. f = g
    BY DEF Joins
  <2>2. \A n \in 0..len : g[n] = IF n = 0 THEN I ELSE Joined(f[n - 1], pairs[n])
    OBVIOUS
  <2> HIDE DEF g
  <2> QED BY <2>1, <2>2
<1>2. Done(0)
  <2>1. I \in [D -> D] /\ \A x \in D : I[x] = x
    OBVIOUS
  <2> DEFINE zero == [x \in D |-> 0]
  <2>2. zero \in [D -> Nat] /\ \A x \in D : zero[x] = 0
    OBVIOUS
  <2>3. f[0] = I
    BY <1>1
  <2> HIDE DEF I, zero
  <2>4. Rooted(D, f[0], I, zero, 1)
    BY <2>1, <2>2, <2>3 DEF Rooted
  <2>5. Gathers(D, pairs, 0, I)
    BY <2>1 DEF Gathers
  <2> QED BY <2>4, <2>5
<1>3. ASSUME NEW n \in S PROVE n + 1 \in S
  <2>0. n \in Nat /\ n + 1 \in Nat
    OBVIOUS
  <2> SUFFICES ASSUME n + 1 <= len PROVE Done(n + 1)
    BY <2>0 DEF S
  <2>1. n \in 0..len /\ n + 1 \in 0..len /\ n + 1 \in 1..len /\ n + 1 # 0 /\ n + 1 - 1 = n
    OBVIOUS
  <2>2. PICK root, height, top : Rooted(D, f[n], root, height, top) /\ Gathers(D, pairs, n, root)
    BY <2>1
  <2>3. f[n + 1] = Joined(f[n], pairs[n + 1])
    <3> DEFINE k == n + 1
    <3>1. k \in 0..len /\ k # 0 /\ k - 1 = n
      BY <2>1
    <3> HIDE DEF k, I, S, Done
    <3>2. f[k] = IF k = 0 THEN I ELSE Joined(f[k - 1], pairs[k])
      BY <1>1, <3>1
    <3>3. f[k] = Joined(f[n], pairs[k])
      BY <3>1, <3>2
    <3> QED BY <3>3 DEF k
  <2> HIDE DEF S, Done
  <2> DEFINE a == pairs[n + 1][1]
             b == pairs[n + 1][2]
  <2>4. a \in D /\ b \in D /\ pairs[n + 1] = <<a, b>>
    BY <2>1
  <2>5. \A m \in 1..(n + 1) : pairs[m][1] \in D /\ pairs[m][2] \in D
    <3> TAKE m \in 1..(n + 1)
    <3>1. m \in 1..len
      BY <2>0
    <3> QED BY <3>1
  <2>6. Gathers(D, pairs, n + 1, Merge(root, a, b))
    <3>1. root \in [D -> D] /\ n + 1 \in DOMAIN pairs
      BY <2>1, <2>2 DEF Rooted
    <3> QED BY <2>0, <2>2, <2>5, <3>1, OnePairMore
  <2> HIDE DEF a, b
  <2>7. PICK up, more : Rooted(D, Joined(f[n], <<a, b>>), Merge(root, a, b), up, more)
    BY <2>2, <2>4, JoinedIsRooted
  <2> QED BY <2>3, <2>4, <2>6, <2>7 DEF Done
<1>4. S = Nat
  <2>1. S \in SUBSET Nat /\ 0 \in S
    BY <1>2
  <2> HIDE DEF S
  <2> QED BY <1>3, <2>1, Induction
<1>5. Done(len)
  BY <1>4
<1> QED BY <1>5

\* A thing: what every closed set has that has one of it.
ThingOf(D, pairs, id) == {x \in D : \A S \in SUBSET D : id \in S /\ ClosedUnder(pairs, S) => x \in S}

LEMMA ClustersOfPairs ==
    ASSUME NEW V, NEW pairs \in Seq(V \X V)
    PROVE  ClustersOf(pairs) = {ThingOf(EndsOf(pairs), pairs, id) : id \in EndsOf(pairs)}
<1> DEFINE D == EndsOf(pairs)
           len == Len(pairs)
           f == CHOOSE h : Joins(h, D, pairs, len)
<1>1. len \in Nat /\ DOMAIN pairs = 1..len /\ \A m \in 1..len : pairs[m] \in V \X V
  OBVIOUS
<1>2. \A m \in 1..len : pairs[m] = <<pairs[m][1], pairs[m][2]>> /\ pairs[m][1] \in D /\ pairs[m][2] \in D
  <2> TAKE m \in 1..len
  <2>1. pairs[m] \in V \X V /\ m \in DOMAIN pairs
    BY <1>1
  <2>2. pairs[m] = <<pairs[m][1], pairs[m][2]>>
    BY <2>1
  <2> HIDE DEF len
  <2>3. pairs[m][1] \in EndsOf(pairs) /\ pairs[m][2] \in EndsOf(pairs)
    BY <2>1 DEF EndsOf
  <2> QED BY <2>2, <2>3
<1>3. UNION {ToSet(pair) : pair \in ToSet(pairs)} = D
  <2>1. \A m \in 1..len : ToSet(pairs[m]) = {pairs[m][1], pairs[m][2]}
    <3> TAKE m \in 1..len
    <3> DEFINE u == pairs[m][1]
               v == pairs[m][2]
    <3>1. pairs[m] = <<u, v>>
      BY <1>2
    <3> HIDE DEF u, v
    <3>2. ToSet(<<u, v>>) = {u, v}
      BY DEF ToSet
    <3> QED BY <3>1, <3>2 DEF u, v
  <2>2. ToSet(pairs) = {pairs[m] : m \in 1..len}
    BY <1>1 DEF ToSet
  <2> HIDE DEF len
  <2> DEFINE U == UNION {ToSet(pair) : pair \in ToSet(pairs)}
  <2>3. \A x \in U : x \in EndsOf(pairs)
    <3> SUFFICES ASSUME NEW pair \in ToSet(pairs), NEW x \in ToSet(pair) PROVE x \in EndsOf(pairs)
      OBVIOUS
    <3>1. PICK m \in 1..len : pair = pairs[m]
      BY <2>2
    <3>2. x = pairs[m][1] \/ x = pairs[m][2]
      BY <2>1, <3>1
    <3> QED BY <1>1, <3>2 DEF EndsOf
  <2>4. \A x \in EndsOf(pairs) : x \in U
    <3> SUFFICES ASSUME NEW x \in EndsOf(pairs) PROVE \E pair \in ToSet(pairs) : x \in ToSet(pair)
      OBVIOUS
    <3>1. PICK m \in 1..len : x = pairs[m][1] \/ x = pairs[m][2]
      BY <1>1 DEF EndsOf
    <3>2. x \in ToSet(pairs[m]) /\ pairs[m] \in ToSet(pairs)
      BY <2>1, <2>2, <3>1
    <3> QED BY <3>2
  <2> HIDE DEF U
  <2>5. U = EndsOf(pairs)
    BY <2>3, <2>4
  <2> QED BY <2>5 DEF U
<1>4. ClustersOf(pairs) = Classes(RootIn(f[len]))
  <2> DEFINE ids == UNION {ToSet(pair) : pair \in ToSet(pairs)}
             parent == CHOOSE h : h = [n \in 0..len |-> IF n = 0 THEN [id \in ids |-> id] ELSE Joined(h[n - 1], pairs[n])]
  <2>1. ClustersOf(pairs) = Classes(RootIn(parent[len]))
    BY DEF ClustersOf
  <2>2. ids = D
    BY <1>3
  <2> HIDE DEF ids, D
  <2>3. parent = f
    BY <2>2 DEF Joins
  <2> HIDE DEF parent, f
  <2> QED BY <2>1, <2>3
<1> HIDE DEF D
<1>5. \A m \in 1..len : pairs[m] \in D \X D
  BY <1>2
<1> HIDE DEF len
<1>6. Joins(f, D, pairs, len)
  BY <1>1, <1>5, JoinsUnfold
<1> HIDE DEF f
<1>7. PICK root, height, top : Rooted(D, f[len], root, height, top) /\ Gathers(D, pairs, len, root)
  BY <1>1, <1>5, <1>6, AllAreGathered
<1>8. RootIn(f[len]) = root /\ DOMAIN root = D
  <2>1. RootIn(f[len]) = root
    BY <1>7, RootsAreFound
  <2> QED BY <1>7, <2>1 DEF Rooted
<1>9. ASSUME NEW id \in D PROVE {x \in D : root[x] = root[id]} = ThingOf(D, pairs, id)
  <2> DEFINE C == {x \in D : root[x] = root[id]}
  <2>1. C \in SUBSET D /\ id \in C
    BY <1>9
  <2>2. ClosedUnder(pairs, C)
    BY <1>1, <1>2, <1>7 DEF ClosedUnder, Gathers
  <2>3. \A x \in C : \A S \in SUBSET D : id \in S /\ ClosedUnder(pairs, S) => x \in S
    BY <1>7, <1>9 DEF Gathers
  <2> HIDE DEF C
  <2>4. C = ThingOf(D, pairs, id)
    BY <2>1, <2>2, <2>3 DEF ThingOf
  <2> QED BY <2>4 DEF C
<1>10. Classes(root) = {ThingOf(D, pairs, id) : id \in D}
  <2>1. Classes(root) = {{x \in D : root[x] = root[id]} : id \in D}
    BY <1>8 DEF Classes
  <2> QED BY <1>9, <2>1
<1> QED BY <1>4, <1>8, <1>10 DEF D

-----------------------------------------------------------------------------
(* What is compared with what. *)

IsFraction(s) == s[1] \in Nat /\ s[2] \in Nat /\ s[2] # 0

LEMMA Products ==
    /\ \A a, b, c \in Nat : a <= b => a * c <= b * c
    /\ \A a, b, c \in Nat : c # 0 /\ a * c <= b * c => a <= b
    /\ \A a, b, c \in Nat : a * b * c = a * c * b /\ a * b \in Nat
<1>1. \A a, b, c \in Nat : a <= b => a * c <= b * c
  OBVIOUS
<1>2. \A a, b, c \in Nat : c # 0 /\ a * c <= b * c => a <= b
  OBVIOUS
<1>3. \A a, b, c \in Nat : a * b * c = a * c * b /\ a * b \in Nat
  OBVIOUS
<1> QED BY <1>1, <1>2, <1>3

LEMMA ScoresAreOrdered ==
    ASSUME NEW s, NEW t, NEW u, IsFraction(s), IsFraction(t), IsFraction(u)
    PROVE  /\ ~ (Higher(s, t) /\ Higher(t, s))
           /\ ~ Higher(t, s) /\ ~ Higher(u, t) => ~ Higher(u, s)
<1> DEFINE s1 == s[1]
           s2 == s[2]
           t1 == t[1]
           t2 == t[2]
           u1 == u[1]
           u2 == u[2]
<1>1. /\ s1 \in Nat /\ s2 \in Nat /\ t1 \in Nat /\ t2 \in Nat /\ u1 \in Nat /\ u2 \in Nat
      /\ s2 # 0 /\ t2 # 0 /\ u2 # 0
  BY DEF IsFraction
<1>2. /\ Higher(s, t) <=> s1 * t2 > t1 * s2
      /\ Higher(t, s) <=> t1 * s2 > s1 * t2
      /\ Higher(u, t) <=> u1 * t2 > t1 * u2
      /\ Higher(u, s) <=> u1 * s2 > s1 * u2
  BY DEF Higher
<1> HIDE DEF s1, s2, t1, t2, u1, u2
<1>3. /\ s1 * t2 \in Nat /\ t1 * s2 \in Nat /\ u1 * t2 \in Nat /\ t1 * u2 \in Nat
      /\ u1 * s2 \in Nat /\ s1 * u2 \in Nat
  BY <1>1, Products
<1>4. ASSUME t1 * s2 <= s1 * t2, u1 * t2 <= t1 * u2 PROVE u1 * s2 <= s1 * u2
  <2>1. u1 * t2 * s2 <= t1 * u2 * s2
    BY <1>1, <1>3, <1>4, Products
  <2>2. t1 * s2 * u2 <= s1 * t2 * u2
    BY <1>1, <1>3, <1>4, Products
  <2>3. u1 * t2 * s2 = u1 * s2 * t2 /\ t1 * u2 * s2 = t1 * s2 * u2 /\ s1 * t2 * u2 = s1 * u2 * t2
    BY <1>1, Products
  <2> DEFINE x == u1 * s2
             y == s1 * u2
             xt == x * t2
             yt == y * t2
             m == t1 * s2 * u2
  <2>4. xt <= m /\ m <= yt /\ xt \in Nat /\ yt \in Nat /\ m \in Nat
    BY <1>1, <1>3, <2>1, <2>2, <2>3, Products
  <2>5. xt <= yt
    <3> HIDE DEF xt, yt, m
    <3> QED BY <2>4
  <2>6. x \in Nat /\ y \in Nat
    BY <1>3
  <2> HIDE DEF x, y
  <2>7. x <= y
    BY <1>1, <2>5, <2>6, Products
  <2> QED BY <2>7 DEF x, y
<1>5. ~ (Higher(s, t) /\ Higher(t, s))
  BY <1>2, <1>3
<1>6. ~ Higher(t, s) /\ ~ Higher(u, t) => ~ Higher(u, s)
  BY <1>2, <1>3, <1>4
<1> QED BY <1>5, <1>6

LEMMA PairOrderIsStrict ==
    ASSUME NEW S, S \in SUBSET (Ids \X Ids)
    PROVE  StrictOrder(PairOrder(S), S)
<1>1. \A p, q \in S : <<p, q>> \in PairOrder(S) <=> LexBefore(p, q)
  BY DEF PairOrder, LexBefore
<1>2. \A p \in S : p \in Ids \X Ids
  OBVIOUS
<1>3. \A p \in S : ~ LexBefore(p, p)
  BY <1>2, PairsAreOrdered
<1>4. \A p, q \in S : p = q \/ LexBefore(p, q) \/ LexBefore(q, p)
  BY <1>2, PairsAreOrdered
<1>5. \A p, q, s \in S : LexBefore(p, q) /\ LexBefore(q, s) => LexBefore(p, s)
  BY <1>2, PairsAreOrdered
<1> QED BY <1>1, <1>3, <1>4, <1>5 DEF StrictOrder

\* The most similar first.
ScoreOrder(g, S) ==
    {r \in S \X S :
        \/ Higher(Score(g, r[1]), Score(g, r[2]))
        \/ ~ Higher(Score(g, r[2]), Score(g, r[1])) /\ r \in PairOrder(S)}

LEMMA ScoreOrderIsStrict ==
    ASSUME NEW g, NEW S, S \in SUBSET (Ids \X Ids), \A p \in S : IsFraction(Score(g, p))
    PROVE  StrictOrder(ScoreOrder(g, S), S)
<1> DEFINE R == ScoreOrder(g, S)
           P == PairOrder(S)
           H(p, q) == Higher(Score(g, p), Score(g, q))
<1>1. \A p, q \in S : <<p, q>> \in R <=> H(p, q) \/ (~ H(q, p) /\ <<p, q>> \in P)
  BY DEF ScoreOrder
<1>2. StrictOrder(P, S)
  BY PairOrderIsStrict
<1>3. \A p, q \in S : ~ (H(p, q) /\ H(q, p))
  BY ScoresAreOrdered
<1>4. \A p, q, s \in S : ~ H(q, p) /\ ~ H(s, q) => ~ H(s, p)
  BY ScoresAreOrdered
<1> HIDE DEF R, P, H
<1>5. \A p \in S : <<p, p>> \notin R
  BY <1>1, <1>2, <1>3 DEF StrictOrder
<1>6. \A p, q \in S : p = q \/ <<p, q>> \in R \/ <<q, p>> \in R
  BY <1>1, <1>2 DEF StrictOrder
<1>7. ASSUME NEW p \in S, NEW q \in S, NEW s \in S, <<p, q>> \in R, <<q, s>> \in R PROVE <<p, s>> \in R
  <2>1. ~ H(q, p) /\ ~ H(s, q) /\ ~ H(s, p)
    BY <1>1, <1>3, <1>4, <1>7
  <2>2. CASE H(p, s)
    BY <1>1, <2>2
  <2>3. CASE ~ H(p, s)
    <3>1. ~ H(p, q)
      BY <1>4, <2>1, <2>3
    <3>2. ~ H(q, s)
      BY <1>4, <2>1, <2>3
    <3>3. <<p, q>> \in P /\ <<q, s>> \in P
      BY <1>1, <1>7, <3>1, <3>2
    <3>4. <<p, s>> \in P
      BY <1>2, <3>3 DEF StrictOrder
    <3> QED BY <1>1, <2>1, <3>4
  <2> QED BY <2>2, <2>3
<1> QED BY <1>5, <1>6, <1>7 DEF StrictOrder, R

\* The kinds stand in an order too.
LEMMA KindPositions ==
    /\ \A k \in ToSet(Kinds) : KindPosition(k) \in Nat
    /\ \A k, l \in ToSet(Kinds) : KindPosition(k) = KindPosition(l) => k = l
<1>1. \A i \in DOMAIN Kinds : i \in Nat
  BY DEF Kinds
<1>2. \A k \in ToSet(Kinds) : \E i \in DOMAIN Kinds : Kinds[i] = k
  BY DEF ToSet
<1>3. \A k \in ToSet(Kinds) : KindPosition(k) \in DOMAIN Kinds /\ Kinds[KindPosition(k)] = k
  BY <1>2 DEF KindPosition
<1> QED BY <1>1, <1>3

\* Lists of members of D, under a kind and a word each.
AreLists(posting, D) ==
    /\ IsFiniteSet(DOMAIN posting)
    /\ \A k \in DOMAIN posting : k = <<k[1], k[2]>> /\ k[1] \in ToSet(Kinds) /\ k[2] \in Int
    /\ \A k \in DOMAIN posting : posting[k] \in SUBSET D

LEMMA ListOrderIsStrict ==
    ASSUME NEW posting, NEW D, IsFiniteSet(D), AreLists(posting, D)
    PROVE  StrictOrder(ListOrder(posting), DOMAIN posting)
<1> DEFINE K == DOMAIN posting
           size == [k \in K |-> Cardinality(posting[k])]
           kind == [k \in K |-> KindPosition(k[1])]
           word == [k \in K |-> k[2]]
           before(j, k) == \/ size[j] < size[k]
                           \/ size[j] = size[k] /\ (kind[j] < kind[k] \/ (kind[j] = kind[k] /\ word[j] < word[k]))
           R == ListOrder(posting)
<1>1. \A k \in K : size[k] \in Nat
  <2> TAKE k \in K
  <2>1. IsFiniteSet(posting[k])
    BY FS_Subset DEF AreLists
  <2> QED BY <2>1, FS_CardinalityType
<1>2. \A k \in K : kind[k] \in Nat /\ word[k] \in Int
  BY KindPositions DEF AreLists
<1>3. \A j, k \in K : kind[j] = kind[k] <=> j[1] = k[1]
  BY KindPositions DEF AreLists
<1>4. \A j, k \in K : kind[j] = kind[k] /\ word[j] = word[k] => j = k
  BY <1>3 DEF AreLists
<1>5. \A j, k \in K : <<j, k>> \in R <=> before(j, k)
  <2> TAKE j, k \in K
  <2>1. <<j, k>> \in R <=>
          \/ Cardinality(posting[j]) < Cardinality(posting[k])
          \/ /\ Cardinality(posting[j]) = Cardinality(posting[k])
             /\ \/ KindPosition(j[1]) < KindPosition(k[1])
                \/ j[1] = k[1] /\ j[2] < k[2]
    BY DEF ListOrder
  <2>2. /\ size[j] = Cardinality(posting[j]) /\ size[k] = Cardinality(posting[k])
        /\ kind[j] = KindPosition(j[1]) /\ kind[k] = KindPosition(k[1])
        /\ word[j] = j[2] /\ word[k] = k[2]
    OBVIOUS
  <2> HIDE DEF R, size, kind, word, K
  <2> QED BY <1>3, <2>1, <2>2
<1> HIDE DEF R, size, kind, word, K
<1>6. \A k \in K : <<k, k>> \notin R
  BY <1>1, <1>2, <1>5
<1>7. \A j, k \in K : j = k \/ <<j, k>> \in R \/ <<k, j>> \in R
  <2> TAKE j, k \in K
  <2>1. size[j] \in Nat /\ size[k] \in Nat /\ kind[j] \in Nat /\ kind[k] \in Nat /\ word[j] \in Int /\ word[k] \in Int
    BY <1>1, <1>2
  <2>2. before(j, k) \/ before(k, j) \/ (kind[j] = kind[k] /\ word[j] = word[k])
    BY <2>1
  <2> QED BY <1>4, <1>5, <2>2
<1>8. \A i, j, k \in K : <<i, j>> \in R /\ <<j, k>> \in R => <<i, k>> \in R
  <2> TAKE i, j, k \in K
  <2>1. /\ size[j] \in Nat /\ size[k] \in Nat /\ kind[j] \in Nat /\ kind[k] \in Nat /\ word[j] \in Int /\ word[k] \in Int
        /\ size[i] \in Nat /\ kind[i] \in Nat /\ word[i] \in Int
    BY <1>1, <1>2
  <2>2. before(i, j) /\ before(j, k) => before(i, k)
    BY <2>1
  <2> HIDE DEF before
  <2> QED BY <1>5, <2>2
<1> QED BY <1>6, <1>7, <1>8 DEF StrictOrder, R, K

\* What has been compared so far.
Sofar(D) == [pairs : Seq(D \X D), left : Nat]

\* What is compared next.
LEMMA OneListMore ==
    ASSUME NEW D, D \in SUBSET Ids, IsFiniteSet(D), NEW s \in Sofar(D), NEW list \in SUBSET D
    PROVE  LET next == Compared(s, list)
           IN  /\ next \in Sofar(D)
               /\ s.left <= next.left
               /\ ToSet(s.pairs) \subseteq ToSet(next.pairs)
               /\ next.left = s.left => PairsOf(list) \subseteq ToSet(next.pairs)
<1> DEFINE next == Compared(s, list)
           fresh == PairsOf(list) \ ToSet(s.pairs)
           more == Ranked(fresh, PairOrder(fresh))
           all == s.pairs \o more
<1>1. s.pairs \in Seq(D \X D) /\ s.left \in Nat /\ s = [pairs |-> s.pairs, left |-> s.left]
  BY DEF Sofar
<1>2. PairsOf(list) \in SUBSET (D \X D)
  BY DEF PairsOf
<1>3. CASE Cardinality(list) > MaxBucket \/ Len(s.pairs) >= NearBudget
  <2>1. next = [s EXCEPT !.left = @ + 1]
    BY <1>3 DEF Compared
  <2>2. next = [pairs |-> s.pairs, left |-> s.left + 1]
    BY <1>1, <2>1
  <2> HIDE DEF next
  <2>3. next.pairs = s.pairs /\ next.left = s.left + 1 /\ next.left \in Nat
    BY <1>1, <2>2
  <2>4. next \in Sofar(D)
    BY <1>1, <2>2, <2>3 DEF Sofar
  <2> QED BY <1>1, <2>3, <2>4 DEF next
<1>4. CASE ~ (Cardinality(list) > MaxBucket \/ Len(s.pairs) >= NearBudget)
  <2>1. next = [s EXCEPT !.pairs = @ \o more]
    BY <1>4 DEF Compared
  <2>2. next = [pairs |-> all, left |-> s.left]
    BY <1>1, <2>1
  <2>3. IsFiniteSet(fresh) /\ fresh \in SUBSET (D \X D)
    <3>1. IsFiniteSet(D \X D)
      BY FS_Product
    <3>2. fresh \in SUBSET (D \X D)
      BY <1>2
    <3> QED BY <3>1, <3>2, FS_Subset
  <2> HIDE DEF fresh
  <2>4. StrictOrder(PairOrder(fresh), fresh)
    <3>1. fresh \in SUBSET (Ids \X Ids)
      BY <2>3
    <3> QED BY <3>1, PairOrderIsStrict
  <2>5. Ranks(more, fresh, PairOrder(fresh))
    BY <2>3, <2>4, RankedLists
  <2> HIDE DEF more
  <2>6. more \in Seq(D \X D)
    BY <2>3, <2>5, SeqMonotonic DEF Ranks
  <2>7. /\ all \in Seq(D \X D) /\ Len(all) = Len(s.pairs) + Len(more)
        /\ \A i \in 1..(Len(s.pairs) + Len(more)) : all[i] = IF i <= Len(s.pairs) THEN s.pairs[i] ELSE more[i - Len(s.pairs)]
    BY <1>1, <2>6, ConcatProperties
  <2>8. /\ Len(s.pairs) \in Nat /\ DOMAIN s.pairs = 1..Len(s.pairs)
        /\ Len(more) \in Nat /\ DOMAIN more = 1..Len(more) /\ DOMAIN all = 1..Len(all)
    BY <1>1, <2>6, <2>7
  <2> HIDE DEF all
  <2>9. ToSet(s.pairs) \subseteq ToSet(all)
    <3> SUFFICES ASSUME NEW i \in 1..Len(s.pairs) PROVE \E j \in 1..Len(all) : all[j] = s.pairs[i]
      BY <2>8 DEF ToSet
    <3>1. i \in 1..(Len(s.pairs) + Len(more)) /\ i <= Len(s.pairs)
      BY <2>8
    <3>2. all[i] = s.pairs[i]
      BY <2>7, <3>1
    <3> QED BY <2>7, <3>1, <3>2
  <2>10. fresh \subseteq ToSet(all)
    <3> SUFFICES ASSUME NEW p \in fresh PROVE \E j \in 1..Len(all) : all[j] = p
      BY <2>8 DEF ToSet
    <3>1. PICK i \in 1..Len(more) : more[i] = p
      BY <2>5, <2>8 DEF Ranks
    <3> DEFINE j == Len(s.pairs) + i
    <3>2. j \in 1..(Len(s.pairs) + Len(more)) /\ ~ (j <= Len(s.pairs)) /\ j - Len(s.pairs) = i
      BY <2>8
    <3> HIDE DEF j
    <3>3. all[j] = p
      BY <2>7, <3>1, <3>2
    <3> QED BY <2>7, <3>2, <3>3
  <2> HIDE DEF next
  <2>11. next.pairs = all /\ next.left = s.left
    BY <2>2
  <2>12. next \in Sofar(D)
    BY <1>1, <2>2, <2>7 DEF Sofar
  <2>13. PairsOf(list) \subseteq ToSet(next.pairs)
    BY <2>9, <2>10, <2>11 DEF fresh
  <2> QED BY <1>1, <2>9, <2>11, <2>12, <2>13 DEF next
<1> QED BY <1>3, <1>4

NothingYet == [pairs |-> << >>, left |-> 0]

\* What has been compared after each of the lists, in the order of their keys.
Compares(f, posting, keys) ==
    f = [n \in 0..Len(keys) |-> IF n = 0 THEN NothingYet ELSE Compared(f[n - 1], posting[keys[n]])]

LEMMA ComparesUnfold ==
    ASSUME NEW D, D \in SUBSET Ids, IsFiniteSet(D), NEW posting, NEW keys,
           Len(keys) \in Nat, \A m \in 1..Len(keys) : posting[keys[m]] \in SUBSET D
    PROVE  \E f : Compares(f, posting, keys)
<1> DEFINE len == Len(keys)
           V == Sofar(D)
           N == 0..len
           rank == [n \in N |-> n]
           step(n, f) == IF n = 0 THEN NothingYet ELSE Compared(f[n - 1], posting[keys[n]])
           F == [n \in N |-> [f \in [N -> V] |-> step(n, f)]]
<1>0. len \in Nat
  OBVIOUS
<1>1. NothingYet \in V
  <2>1. << >> \in Seq(D \X D)
    OBVIOUS
  <2> QED BY <2>1 DEF NothingYet, Sofar
<1> HIDE DEF len
<1>2. \A n \in N : \A f \in [N -> V] : F[n][f] = step(n, f)
  OBVIOUS
<1>3. ASSUME NEW n \in N, NEW f \in [N -> V] PROVE F[n][f] \in V
  <2>1. CASE n = 0
    BY <1>1, <1>2, <2>1
  <2>2. CASE n # 0
    <3>1. n - 1 \in N /\ n \in 1..len
      BY <1>0, <2>2
    <3>2. f[n - 1] \in V /\ posting[keys[n]] \in SUBSET D
      BY <3>1 DEF len
    <3>3. Compared(f[n - 1], posting[keys[n]]) \in V
      BY <3>2, OneListMore
    <3> QED BY <1>2, <2>2, <3>3
  <2> QED BY <2>1, <2>2
<1>4. ASSUME NEW n \in N, NEW f \in [N -> V], NEW h \in [N -> V],
             \A m \in N : rank[m] < rank[n] => f[m] = h[m]
      PROVE  F[n][f] = F[n][h]
  <2>1. CASE n = 0
    BY <1>2, <2>1
  <2>2. CASE n # 0
    <3>1. n - 1 \in N /\ rank[n - 1] < rank[n]
      BY <1>0, <2>2
    <3>2. f[n - 1] = h[n - 1]
      BY <1>4, <3>1
    <3>3. step(n, f) = Compared(f[n - 1], posting[keys[n]]) /\ step(n, h) = Compared(h[n - 1], posting[keys[n]])
      BY <2>2
    <3>4. step(n, f) = step(n, h)
      BY <3>2, <3>3
    <3> HIDE DEF F, step
    <3> QED BY <1>2, <3>4
  <2> QED BY <2>1, <2>2
<1>5. rank \in [N -> Nat] /\ \A n \in N : rank[n] < len + 1
  BY <1>0
<1> HIDE DEF F, rank, V
<1>6. Recursive(N, V, rank, len + 1, F)
  <2> HIDE DEF N
  <2> QED BY <1>3, <1>4, <1>5 DEF Recursive
<1>7. PICK f \in [N -> V] : \A n \in N : f[n] = F[n][f]
  <2>1. len + 1 \in Nat
    BY <1>0
  <2> HIDE DEF N
  <2> QED BY <1>1, <1>6, <2>1, Recursion
<1>8. \A n \in N : f[n] = step(n, f)
  BY <1>2, <1>7
<1>9. f = [n \in N |-> step(n, f)]
  <2> HIDE DEF step, N
  <2> QED BY <1>8
<1>10. Compares(f, posting, keys)
  BY <1>9 DEF Compares, len
<1> QED BY <1>10

\* Of lists none of which is left out the pairs have all been compared.
HasCompared(c, D, posting, some) ==
    /\ c \in Sofar(D)
    /\ c.left = 0 => \A k \in some : PairsOf(posting[k]) \subseteq ToSet(c.pairs)

LEMMA ListsAreCompared ==
    ASSUME NEW D, D \in SUBSET Ids, IsFiniteSet(D), NEW posting, NEW keys, Len(keys) \in Nat,
           \A m \in 1..Len(keys) : posting[keys[m]] \in SUBSET D, NEW f, Compares(f, posting, keys)
    PROVE  HasCompared(f[Len(keys)], D, posting, {keys[m] : m \in 1..Len(keys)})
<1> DEFINE len == Len(keys)
           Done(n) == HasCompared(f[n], D, posting, {keys[m] : m \in 1..n})
           S == {n \in Nat : n <= len => Done(n)}
<1>0. len \in Nat
  OBVIOUS
<1> HIDE DEF len
<1>1. \A n \in 0..len : f[n] = IF n = 0 THEN NothingYet ELSE Compared(f[n - 1], posting[keys[n]])
  <2> DEFINE g == [n \in 0..len |-> IF n = 0 THEN NothingYet ELSE Compared(f[n - 1], posting[keys[n]])]
  <2>1. f = g
    BY DEF Compares, len
  <2>2. \A n \in 0..len : g[n] = IF n = 0 THEN NothingYet ELSE Compared(f[n - 1], posting[keys[n]])
    OBVIOUS
  <2> HIDE DEF g
  <2> QED BY <2>1, <2>2
<1>2. Done(0)
  <2>1. f[0] = NothingYet
    BY <1>0, <1>1
  <2>2. NothingYet \in Sofar(D)
    <3>1. << >> \in Seq(D \X D)
      OBVIOUS
    <3> QED BY <3>1 DEF NothingYet, Sofar
  <2> QED BY <2>1, <2>2 DEF HasCompared
<1>3. ASSUME NEW n \in S PROVE n + 1 \in S
  <2>0. n \in Nat /\ n + 1 \in Nat
    OBVIOUS
  <2> SUFFICES ASSUME n + 1 <= len PROVE Done(n + 1)
    BY <2>0 DEF S
  <2> DEFINE k == n + 1
  <2>1. k \in 0..len /\ k \in 1..len /\ k # 0 /\ k - 1 = n /\ n <= len
    BY <1>0, <2>0
  <2>2. Done(n)
    BY <2>0, <2>1 DEF S
  <2>3. \A m \in 1..k : m \in 1..n \/ m = k
    BY <2>0
  <2> HIDE DEF k, S
  <2>4. f[k] = Compared(f[n], posting[keys[k]])
    <3>1. f[k] = IF k = 0 THEN NothingYet ELSE Compared(f[k - 1], posting[keys[k]])
      BY <1>1, <2>1
    <3> QED BY <2>1, <3>1
  <2> DEFINE s == f[n]
             next == f[k]
             list == posting[keys[k]]
  <2>5. s \in Sofar(D) /\ (s.left = 0 => \A m \in 1..n : PairsOf(posting[keys[m]]) \subseteq ToSet(s.pairs))
    BY <2>2 DEF HasCompared
  <2>6. list \in SUBSET D
    BY <2>1 DEF len
  <2>7. /\ next \in Sofar(D) /\ s.left <= next.left /\ ToSet(s.pairs) \subseteq ToSet(next.pairs)
        /\ next.left = s.left => PairsOf(list) \subseteq ToSet(next.pairs)
    <3> HIDE DEF s, list
    <3>1. LET x == Compared(s, list)
          IN  /\ x \in Sofar(D)
              /\ s.left <= x.left
              /\ ToSet(s.pairs) \subseteq ToSet(x.pairs)
              /\ x.left = s.left => PairsOf(list) \subseteq ToSet(x.pairs)
      BY <2>5, <2>6, OneListMore
    <3>2. next = Compared(s, list)
      BY <2>4 DEF s, list
    <3> HIDE DEF next
    <3> QED BY <3>1, <3>2
  <2>8. s.left \in Nat /\ next.left \in Nat
    BY <2>5, <2>7 DEF Sofar
  <2>9. ASSUME next.left = 0, NEW m \in 1..k PROVE PairsOf(posting[keys[m]]) \subseteq ToSet(next.pairs)
    <3>1. s.left = 0 /\ next.left = s.left
      BY <2>7, <2>8, <2>9
    <3>2. CASE m \in 1..n
      BY <2>5, <2>7, <3>1, <3>2
    <3>3. CASE m = k
      BY <2>7, <3>1, <3>3
    <3> QED BY <2>3, <3>2, <3>3
  <2>10. HasCompared(next, D, posting, {keys[m] : m \in 1..k})
    BY <2>7, <2>9 DEF HasCompared
  <2> QED BY <2>10 DEF k
<1>4. S = Nat
  <2>1. S \in SUBSET Nat /\ 0 \in S
    BY <1>2
  <2> HIDE DEF S
  <2> QED BY <1>3, <2>1, Induction
<1>5. Done(len)
  <2> HIDE DEF Done, S
  <2>1. len \in S /\ len <= len
    BY <1>0, <1>4
  <2> QED BY <2>1 DEF S
<1> QED BY <1>5 DEF len

LEMMA AllIsCompared ==
    ASSUME NEW D, D \in SUBSET Ids, IsFiniteSet(D), NEW posting, AreLists(posting, D)
    PROVE  HasCompared(ComparisonOf(posting), D, posting, DOMAIN posting)
<1> DEFINE K == DOMAIN posting
           keys == Ranked(K, ListOrder(posting))
           f == CHOOSE h : Compares(h, posting, keys)
<1>1. Ranks(keys, K, ListOrder(posting))
  <2>1. StrictOrder(ListOrder(posting), K) /\ IsFiniteSet(K)
    BY ListOrderIsStrict DEF AreLists
  <2> HIDE DEF K
  <2> QED BY <2>1, RankedLists
<1>2. ComparisonOf(posting) = f[Len(keys)]
  BY DEF ComparisonOf, Compares, NothingYet
<1> HIDE DEF keys
<1>3. keys \in Seq(K) /\ Len(keys) \in Nat /\ DOMAIN keys = 1..Len(keys) /\ K = {keys[m] : m \in 1..Len(keys)}
  <2>1. keys \in Seq(K)
    BY <1>1 DEF Ranks
  <2>2. Len(keys) \in Nat /\ DOMAIN keys = 1..Len(keys)
    BY <2>1
  <2>3. \A m \in 1..Len(keys) : keys[m] \in K
    BY <1>1, <2>2 DEF Ranks
  <2>4. \A k \in K : \E m \in 1..Len(keys) : keys[m] = k
    BY <1>1, <2>2 DEF Ranks
  <2> HIDE DEF K
  <2> QED BY <2>1, <2>2, <2>3, <2>4
<1>4. \A m \in 1..Len(keys) : posting[keys[m]] \in SUBSET D
  BY <1>3 DEF AreLists
<1> HIDE DEF f, K
<1>5. Compares(f, posting, keys)
  BY <1>3, <1>4, ComparesUnfold DEF f
<1>6. HasCompared(f[Len(keys)], D, posting, {keys[m] : m \in 1..Len(keys)})
  BY <1>3, <1>4, <1>5, ListsAreCompared
<1> QED BY <1>2, <1>3, <1>6 DEF K

-----------------------------------------------------------------------------
(* The lists, and the closest pairs. *)

\* Facts of the kinds there are, with texts.
Worded(ns) == \A id \in DOMAIN ns : ns[id].kind \in ToSet(Kinds) /\ IsText(ns[id].says)

\* A graph of such facts.
WordedGraph(g) == DOMAIN g.nodes \in SUBSET Ids /\ Worded(g.nodes)

LEMMA IdsAreFinitelyMany == IsFiniteSet(Ids) /\ \A S \in SUBSET Ids : IsFiniteSet(S)
BY CorpusAssumption, FS_Subset

LEMMA ScoresAreFractions ==
    ASSUME NEW g, WordedGraph(g), NEW pair, pair[1] \in DOMAIN g.nodes, pair[2] \in DOMAIN g.nodes
    PROVE  IsFraction(Score(g, pair))
<1> DEFINE a == g.nodes[pair[1]].says.words
           b == g.nodes[pair[2]].says.words
<1>1. IsFiniteSet(a) /\ IsFiniteSet(b)
  BY DEF WordedGraph, Worded, IsText
<1>2. Score(g, pair) = IF a = {} \/ b = {} THEN <<0, 1>> ELSE <<Cardinality(a \cap b), Cardinality(a \cup b)>>
  BY DEF Score
<1> HIDE DEF a, b
<1>3. CASE a = {} \/ b = {}
  BY <1>2, <1>3 DEF IsFraction
<1>4. CASE ~ (a = {} \/ b = {})
  <2>1. IsFiniteSet(a \cup b) /\ IsFiniteSet(a \cap b)
    <3>1. IsFiniteSet(a \cup b) /\ (a \cap b) \in SUBSET a
      BY <1>1, FS_Union
    <3> QED BY <1>1, <3>1, FS_Subset
  <2>2. Cardinality(a \cup b) \in Nat /\ Cardinality(a \cap b) \in Nat
    BY <2>1, FS_CardinalityType
  <2>3. Cardinality(a \cup b) # 0
    <3>1. a \cup b # {}
      BY <1>4
    <3> QED BY <2>1, <3>1, FS_EmptySet
  <2> QED BY <1>2, <1>4, <2>2, <2>3 DEF IsFraction
<1> QED BY <1>3, <1>4

LEMMA RareAreWords ==
    ASSUME NEW g, NEW among, NEW id, NEW k \in RarestTokens(g, among, id)
    PROVE  k = <<g.nodes[id].kind, k[2]>> /\ k[2] \in g.nodes[id].says.words
<1> DEFINE kind == g.nodes[id].kind
           df == [w \in g.nodes[id].says.words |->
                    Cardinality({x \in among : g.nodes[x].kind = kind /\ w \in g.nodes[x].says.words})]
<1>1. Rarest(df) \subseteq g.nodes[id].says.words
  BY DEF Rarest
<1>2. RarestTokens(g, among, id) = {<<kind, w>> : w \in Rarest(df)}
  BY DEF RarestTokens
<1> HIDE DEF df, kind
<1>3. PICK w \in Rarest(df) : k = <<kind, w>>
  BY <1>2
<1> QED BY <1>1, <1>3 DEF kind

LEMMA ListedIsListed ==
    ASSUME NEW listed, \A l \in listed : l = <<l[1], l[2]>>
    PROVE  /\ DOMAIN Lists(listed) = {l[1] : l \in listed}
           /\ \A l \in listed : l[1] \in DOMAIN Lists(listed) /\ l[2] \in Lists(listed)[l[1]]
           /\ \A k \in DOMAIN Lists(listed) : \A x \in Lists(listed)[k] : <<k, x>> \in listed
<1> DEFINE K == {l[1] : l \in listed}
<1>1. Lists(listed) = [k \in K |-> {l[2] : l \in {l \in listed : l[1] = k}}]
  BY DEF Lists
<1>2. DOMAIN Lists(listed) = K /\ \A k \in K : Lists(listed)[k] = {l[2] : l \in {l \in listed : l[1] = k}}
  BY <1>1
<1>3. \A l \in listed : l[1] \in K
  OBVIOUS
<1> HIDE DEF K
<1>4. \A l \in listed : l[1] \in DOMAIN Lists(listed) /\ l[2] \in Lists(listed)[l[1]]
  BY <1>2, <1>3
<1>5. \A k \in DOMAIN Lists(listed) : \A x \in Lists(listed)[k] : <<k, x>> \in listed
  BY <1>2
<1> QED BY <1>2, <1>4, <1>5 DEF K

LEMMA PostingIsLists ==
    ASSUME NEW g, WordedGraph(g), NEW among \in SUBSET DOMAIN g.nodes
    PROVE  /\ AreLists(Posting(g, among), among)
           /\ \A id \in among : \A k \in RarestTokens(g, among, id) :
                 k \in DOMAIN Posting(g, among) /\ id \in Posting(g, among)[k]
<1> DEFINE of == [id \in among |-> {<<k, id>> : k \in RarestTokens(g, among, id)}]
           listed == UNION {of[id] : id \in among}
           p == Posting(g, among)
           words == UNION {g.nodes[id].says.words : id \in among}
           keys == ToSet(Kinds) \X words
<1>1. p = Lists(listed)
  BY DEF Posting
<1>2. \A l \in listed : l = <<l[1], l[2]>> /\ l[2] \in among /\ l[1] \in RarestTokens(g, among, l[2])
  OBVIOUS
<1>3. \A id \in among : \A k \in RarestTokens(g, among, id) : <<k, id>> \in listed
  <2> SUFFICES ASSUME NEW id \in among, NEW k \in RarestTokens(g, among, id) PROVE \E x \in among : <<k, id>> \in of[x]
    OBVIOUS
  <2>1. <<k, id>> \in of[id]
    OBVIOUS
  <2> QED BY <2>1
<1> HIDE DEF listed, p
<1>4. /\ DOMAIN p = {l[1] : l \in listed}
      /\ \A l \in listed : l[1] \in DOMAIN p /\ l[2] \in p[l[1]]
      /\ \A k \in DOMAIN p : \A x \in p[k] : <<k, x>> \in listed
  BY <1>1, <1>2, ListedIsListed
<1>5. \A id \in among : id \in DOMAIN g.nodes
  OBVIOUS
<1>6. \A k \in DOMAIN p : k = <<k[1], k[2]>> /\ k[1] \in ToSet(Kinds) /\ k[2] \in words /\ k[2] \in Int
  <2> TAKE k \in DOMAIN p
  <2>1. PICK l \in listed : k = l[1]
    BY <1>4
  <2>2. l[2] \in among /\ k \in RarestTokens(g, among, l[2])
    BY <1>2, <2>1
  <2> DEFINE n == g.nodes[l[2]]
  <2>3. k = <<n.kind, k[2]>> /\ k[2] \in n.says.words
    BY <2>2, RareAreWords
  <2>4. n.kind \in ToSet(Kinds) /\ n.says.words \in SUBSET Int
    BY <2>2 DEF WordedGraph, Worded, IsText
  <2>5. k[2] \in words
    BY <2>2, <2>3
  <2> HIDE DEF n, words
  <2> QED BY <2>3, <2>4, <2>5
<1>7. IsFiniteSet(words)
  <2> DEFINE sets == {g.nodes[id].says.words : id \in among}
             f == [id \in among |-> g.nodes[id].says.words]
  <2>1. IsFiniteSet(among)
    BY IdsAreFinitelyMany DEF WordedGraph
  <2>2. f \in Surjection(among, sets)
    BY DEF Surjection
  <2>3. IsFiniteSet(sets)
    <3> HIDE DEF f, sets
    <3> QED BY <2>1, <2>2, FS_Surjection
  <2>4. \A T \in sets : IsFiniteSet(T)
    BY <1>5 DEF WordedGraph, Worded, IsText
  <2> HIDE DEF sets
  <2>5. IsFiniteSet(UNION sets)
    BY <2>3, <2>4, FS_UNION
  <2> QED BY <2>5 DEF sets
<1>8. IsFiniteSet(ToSet(Kinds))
  <2> DEFINE f == [i \in 1..7 |-> Kinds[i]]
  <2>1. f \in Surjection(1..7, ToSet(Kinds))
    BY DEF Surjection, ToSet, Kinds
  <2>2. IsFiniteSet(1..7)
    <3>1. 1 \in Int /\ 7 \in Int
      OBVIOUS
    <3> QED BY <3>1, FS_Interval
  <2> HIDE DEF f
  <2> QED BY <2>1, <2>2, FS_Surjection
<1>9. IsFiniteSet(keys)
  BY <1>7, <1>8, FS_Product
<1> HIDE DEF words
<1>10. IsFiniteSet(DOMAIN p)
  <2>1. \A k \in DOMAIN p : k \in keys
    <3> TAKE k \in DOMAIN p
    <3>1. k = <<k[1], k[2]>> /\ k[1] \in ToSet(Kinds) /\ k[2] \in words
      BY <1>6
    <3> QED BY <3>1
  <2>2. DOMAIN p \in SUBSET keys
    BY <2>1
  <2> HIDE DEF keys
  <2> QED BY <1>9, <2>2, FS_Subset
<1>11. \A k \in DOMAIN p : p[k] \in SUBSET among
  <2> SUFFICES ASSUME NEW k \in DOMAIN p, NEW x \in p[k] PROVE x \in among
    OBVIOUS
  <2>1. <<k, x>> \in listed
    BY <1>4
  <2>2. <<k, x>>[2] \in among
    BY <1>2, <2>1
  <2> QED BY <2>2
<1>12. AreLists(p, among)
  BY <1>6, <1>10, <1>11 DEF AreLists
<1>13. \A id \in among : \A k \in RarestTokens(g, among, id) : k \in DOMAIN p /\ id \in p[k]
  <2> TAKE id \in among
  <2> TAKE k \in RarestTokens(g, among, id)
  <2>1. <<k, id>> \in listed
    BY <1>3
  <2>2. <<k, id>>[1] \in DOMAIN p /\ <<k, id>>[2] \in p[<<k, id>>[1]]
    BY <1>4, <2>1
  <2> QED BY <2>2
<1> QED BY <1>12, <1>13 DEF p

\* What is compared.
LEMMA CandidatesAreCompared ==
    ASSUME NEW g, WordedGraph(g)
    PROVE  LET D == Candidates(g)
           IN  /\ D \in SUBSET DOMAIN g.nodes /\ D \in SUBSET Ids /\ IsFiniteSet(D)
               /\ HasCompared(Comparison(g), D, Posting(g, D), DOMAIN Posting(g, D))
<1> DEFINE D == Candidates(g)
<1>1. D \in SUBSET DOMAIN g.nodes
  BY DEF Candidates
<1> HIDE DEF D
<1>2. D \in SUBSET Ids /\ IsFiniteSet(D)
  BY <1>1, IdsAreFinitelyMany DEF WordedGraph
<1>3. AreLists(Posting(g, D), D)
  BY <1>1, PostingIsLists
<1>4. HasCompared(ComparisonOf(Posting(g, D)), D, Posting(g, D), DOMAIN Posting(g, D))
  BY <1>2, <1>3, AllIsCompared
<1>5. Comparison(g) = ComparisonOf(Posting(g, D))
  BY DEF Comparison, D
<1> QED BY <1>1, <1>2, <1>4, <1>5 DEF D

\* The best match of an id, of the pairs in some places.
Best(g, pairs, matches, id) ==
    LET own == {i \in matches : id \in ToSet(pairs[i])}
    IN  {i \in own : \A j \in own :
            \/ Higher(Score(g, pairs[i]), Score(g, pairs[j]))
            \/ ~ Higher(Score(g, pairs[j]), Score(g, pairs[i])) /\ i <= j}

Matches(g, pairs) ==
    {i \in DOMAIN pairs : ~ Higher(NearDuplicate, Score(g, pairs[i])) /\ ~ Linked(g, pairs[i])}

Found(g, pairs) ==
    {pairs[i] : i \in UNION {Best(g, pairs, Matches(g, pairs), id) : id \in Candidates(g)}}

LEMMA ClosestAreFound ==
    ASSUME NEW g, NEW pairs
    PROVE  Closest(g, pairs) = Ranked(Found(g, pairs), ScoreOrder(g, Found(g, pairs)))
<1> DEFINE score == [i \in DOMAIN pairs |-> Score(g, pairs[i])]
           matches == {i \in DOMAIN pairs : ~ Higher(NearDuplicate, score[i]) /\ ~ Linked(g, pairs[i])}
           own(id) == {i \in matches : id \in ToSet(pairs[i])}
           best(id) == {i \in own(id) : \A j \in own(id) :
                    \/ Higher(score[i], score[j])
                    \/ ~ Higher(score[j], score[i]) /\ i <= j}
           found == {pairs[i] : i \in UNION {best(id) : id \in Candidates(g)}}
<1>1. \A i \in DOMAIN pairs : score[i] = Score(g, pairs[i])
  OBVIOUS
<1>2. matches = Matches(g, pairs) /\ matches \subseteq DOMAIN pairs
  <2> HIDE DEF score
  <2> QED BY <1>1 DEF Matches
<1>3. ASSUME NEW id PROVE best(id) = Best(g, pairs, Matches(g, pairs), id)
  <2>1. own(id) = {i \in Matches(g, pairs) : id \in ToSet(pairs[i])} /\ own(id) \subseteq DOMAIN pairs
    <3> HIDE DEF matches
    <3> QED BY <1>2
  <2> HIDE DEF own, score
  <2>2. best(id) = {i \in own(id) : \A j \in own(id) :
                    \/ Higher(Score(g, pairs[i]), Score(g, pairs[j]))
                    \/ ~ Higher(Score(g, pairs[j]), Score(g, pairs[i])) /\ i <= j}
    BY <1>1, <2>1
  <2> HIDE DEF best
  <2> QED BY <2>1, <2>2 DEF Best
<1>4. Closest(g, pairs) = Ranked(found, ScoreOrder(g, found))
  BY DEF Closest, ScoreOrder
<1> HIDE DEF best
<1>5. {best(id) : id \in Candidates(g)} = {Best(g, pairs, Matches(g, pairs), id) : id \in Candidates(g)}
  BY <1>3
<1>6. found = Found(g, pairs)
  BY <1>5 DEF Found
<1> HIDE DEF found
<1> QED BY <1>4, <1>6

LEMMA ClosestAreRanked ==
    ASSUME NEW g, WordedGraph(g), NEW pairs \in Seq(Candidates(g) \X Candidates(g))
    PROVE  /\ Found(g, pairs) \in SUBSET (Candidates(g) \X Candidates(g))
           /\ Ranks(Closest(g, pairs), Found(g, pairs), ScoreOrder(g, Found(g, pairs)))
<1> DEFINE D == Candidates(g)
           F == Found(g, pairs)
<1>1. D \in SUBSET DOMAIN g.nodes /\ D \in SUBSET Ids /\ IsFiniteSet(D)
  BY CandidatesAreCompared
<1>2. \A id \in D : Best(g, pairs, Matches(g, pairs), id) \subseteq DOMAIN pairs
  BY DEF Best, Matches
<1>3. F \in SUBSET (D \X D)
  <2>1. \A i \in DOMAIN pairs : pairs[i] \in D \X D
    OBVIOUS
  <2>2. \A i \in UNION {Best(g, pairs, Matches(g, pairs), id) : id \in D} : i \in DOMAIN pairs
    BY <1>2
  <2> HIDE DEF D
  <2> QED BY <2>1, <2>2 DEF Found, D
<1> HIDE DEF D, F
<1>4. IsFiniteSet(F)
  <2>1. IsFiniteSet(D \X D)
    BY <1>1, FS_Product
  <2> QED BY <1>3, <2>1, FS_Subset
<1>5. F \in SUBSET (Ids \X Ids)
  BY <1>1, <1>3
<1>6. \A p \in F : IsFraction(Score(g, p))
  <2> TAKE p \in F
  <2>1. p[1] \in DOMAIN g.nodes /\ p[2] \in DOMAIN g.nodes
    BY <1>1, <1>3
  <2> QED BY <2>1, ScoresAreFractions
<1>7. StrictOrder(ScoreOrder(g, F), F)
  BY <1>5, <1>6, ScoreOrderIsStrict
<1>8. Ranks(Ranked(F, ScoreOrder(g, F)), F, ScoreOrder(g, F))
  BY <1>4, <1>7, RankedLists
<1> QED BY <1>3, <1>8, ClosestAreFound DEF D, F

\* Of finitely many ids there is a first.
LEMMA TheFirst ==
    ASSUME NEW S \in SUBSET Ids, S # {}
    PROVE  \E x \in S : \A y \in S : Position(x) <= Position(y)
<1> DEFINE N == {Position(y) : y \in S}
<1>1. N \in SUBSET Nat /\ N # {}
  BY Positions
<1> HIDE DEF N
<1>2. PICK n \in N : \A m \in N : n <= m
  BY <1>1, Smallest
<1>3. \A y \in S : Position(y) \in N
  BY DEF N
<1>4. PICK x \in S : Position(x) = n
  BY DEF N
<1> QED BY <1>2, <1>3, <1>4

LEMMA PairsArePairs ==
    ASSUME NEW g, WordedGraph(g)
    PROVE  PairsToRule(g) \in Seq(Ids \X Ids)
<1> DEFINE sources == {id \in DOMAIN g.nodes : g.nodes[id].kind = "source" /\ g.nodes[id].says.doc # None}
           same(id) == {y \in sources : g.nodes[y].says.doc = g.nodes[id].says.doc}
           first(id) == CHOOSE x \in sources :
                        /\ g.nodes[x].says.doc = g.nodes[id].says.doc
                        /\ \A y \in sources : g.nodes[y].says.doc = g.nodes[id].says.doc
                              => Position(x) <= Position(y)
           filed == {<<first(id), id>> : id \in {id \in sources : first(id) # id}}
           more == Ranked(filed, PairOrder(filed))
<1>1. sources \in SUBSET Ids
  BY DEF WordedGraph
<1>2. ASSUME NEW id \in sources PROVE first(id) \in sources
  <2>1. same(id) \in SUBSET Ids /\ same(id) # {}
    BY <1>1
  <2> HIDE DEF sources
  <2>2. PICK x \in same(id) : \A y \in same(id) : Position(x) <= Position(y)
    <3> HIDE DEF same
    <3> QED BY <2>1, TheFirst
  <2>3. \E u \in sources :
                        /\ g.nodes[u].says.doc = g.nodes[id].says.doc
                        /\ \A y \in sources : g.nodes[y].says.doc = g.nodes[id].says.doc
                              => Position(u) <= Position(y)
    BY <2>2
  <2> QED BY <2>3
<1>3. PairsToRule(g) = NearPairs(g) \o more
  BY DEF PairsToRule
<1> HIDE DEF sources, first
<1>4. filed \in SUBSET (Ids \X Ids) /\ IsFiniteSet(filed)
  <2>1. filed \in SUBSET (Ids \X Ids)
    BY <1>1, <1>2
  <2>2. IsFiniteSet(Ids \X Ids)
    BY IdsAreFinitelyMany, FS_Product
  <2> HIDE DEF filed
  <2> QED BY <2>1, <2>2, FS_Subset
<1> HIDE DEF filed
<1>5. Ranks(more, filed, PairOrder(filed))
  BY <1>4, PairOrderIsStrict, RankedLists
<1> HIDE DEF more
<1>6. more \in Seq(Ids \X Ids)
  BY <1>4, <1>5, SeqMonotonic DEF Ranks
<1>7. NearPairs(g) \in Seq(Ids \X Ids)
  <2> DEFINE D == Candidates(g)
             pairs == Comparison(g).pairs
  <2>1. D \in SUBSET Ids /\ HasCompared(Comparison(g), D, Posting(g, D), DOMAIN Posting(g, D))
    BY CandidatesAreCompared
  <2>2. pairs \in Seq(D \X D)
    BY <2>1 DEF HasCompared, Sofar
  <2>3. Found(g, pairs) \in SUBSET (D \X D) /\ Closest(g, pairs) \in Seq(Found(g, pairs))
    BY <2>2, ClosestAreRanked DEF Ranks
  <2> HIDE DEF D, pairs
  <2>4. Found(g, pairs) \in SUBSET (Ids \X Ids)
    BY <2>1, <2>3
  <2>5. Closest(g, pairs) \in Seq(Ids \X Ids)
    BY <2>3, <2>4, SeqMonotonic
  <2> QED BY <2>5 DEF NearPairs, pairs
<1> QED BY <1>3, <1>6, <1>7, ConcatProperties

\* The texts stay texts.
WordedInv == Worded(nodes)

LEMMA TextsAreKept ==
    ASSUME IInv, WordedInv, [NextLedgers]_corpusAndLedgers
    PROVE  WordedInv'
<1>1. CASE UNCHANGED nodes
  BY <1>1 DEF WordedInv, Worded
<1>2. ASSUME NEW id \in DOMAIN nodes, NEW fields, Write(id, fields),
             fields.kind = nodes[id].kind, IsText(fields.says)
      PROVE  WordedInv'
  <2>1. nodes' = [nodes EXCEPT ![id] = fields]
    BY <1>2 DEF Write
  <2>2. DOMAIN nodes' = DOMAIN nodes /\ \A x \in DOMAIN nodes : nodes'[x] = IF x = id THEN fields ELSE nodes[x]
    BY <2>1
  <2> QED BY <1>2, <2>2 DEF WordedInv, Worded
<1>3. ASSUME NEW id \in DOMAIN nodes
      PROVE  /\ {"status", "same_as", "kind", "says"} \subseteq DOMAIN nodes[id]
             /\ IsText(nodes[id].says)
  BY <1>3 DEF IInv, LogInv, IsFact, Node, WordedInv, Worded
<1>4. CASE Rewrite
  <2>1. CASE \E p \in DOMAIN draft : Relate(p)
    BY <1>1, <2>1 DEF Relate
  <2>2. ASSUME NEW id \in DOMAIN nodes, Withdraw(id) PROVE WordedInv'
    <3> DEFINE fields == [nodes[id] EXCEPT !.status = "withdrawn"]
    <3>1. fields.kind = nodes[id].kind /\ fields.says = nodes[id].says
      BY <1>3
    <3>2. Write(id, fields)
      BY <2>2 DEF Withdraw
    <3> HIDE DEF fields
    <3> QED BY <1>2, <1>3, <3>1, <3>2
  <2>3. ASSUME NEW id \in DOMAIN nodes, NEW into, Retire(id, into) PROVE WordedInv'
    <3> DEFINE fields == [nodes[id] EXCEPT !.same_as = into]
    <3>1. fields.kind = nodes[id].kind /\ fields.says = nodes[id].says
      BY <1>3
    <3>2. Write(id, fields)
      BY <2>3 DEF Retire
    <3> HIDE DEF fields
    <3> QED BY <1>2, <1>3, <3>1, <3>2
  <2>4. ASSUME NEW id \in DOMAIN nodes, NEW r \in Rewordings, Write(id, [nodes[id] EXCEPT !.says = r[2]])
        PROVE  WordedInv'
    <3> DEFINE fields == [nodes[id] EXCEPT !.says = r[2]]
    <3>1. fields.kind = nodes[id].kind /\ fields.says = r[2]
      BY <1>3
    <3>2. Write(id, fields) /\ IsText(r[2])
      BY <2>4, TextsAssumption
    <3> HIDE DEF fields
    <3> QED BY <1>2, <3>1, <3>2
  <2> QED BY <1>4, <2>1, <2>2, <2>3, <2>4 DEF Rewrite
<1>5. LedgersStep
  BY LedgersNext
<1> QED BY <1>1, <1>4, <1>5 DEF LedgersStep, Still

LEMMA TextsInvariance == LedgersSpec => []WordedInv
<1>1. InitLedgers => WordedInv
  BY CorpusAssumption, TextsAssumption DEF InitLedgers, Init, WordedInv, Worded
<1>2. IInv /\ WordedInv /\ [NextLedgers]_corpusAndLedgers => WordedInv'
  BY TextsAreKept
<1> QED BY <1>1, <1>2, LedgersInvariance, PTL DEF LedgersSpec

LEMMA GraphIsWorded == ASSUME IInv, WordedInv PROVE WordedGraph(graph)
<1> DEFINE es == Stated(draft, stated)
<1>1. Log(nodes, es) /\ graph = Build(nodes, es) /\ DOMAIN nodes \subseteq Ids
  BY LogOfTheGraph DEF IInv, GraphInv, LogInv
<1> HIDE DEF es
<1>2. /\ DOMAIN graph.nodes = DOMAIN nodes \ DOMAIN Retired(nodes)
      /\ \A id \in DOMAIN graph.nodes : graph.nodes[id].kind = nodes[id].kind /\ graph.nodes[id].says = nodes[id].says
  BY <1>1, BuildIsOfWhatIsLeft
<1> QED BY <1>1, <1>2 DEF WordedGraph, Worded, WordedInv

\* A set has both ends of a pair or neither, when it has all of what it has some of.
LEMMA ThingsAreClosed ==
    ASSUME NEW list \in Seq(Ids \X Ids)
    PROVE  LET pairs == {{p[1], p[2]} : p \in ToSet(list)}
               ids == UNION pairs
               closed(S) == \A p \in pairs : p \cap S # {} => p \subseteq S
           IN  /\ ids = EndsOf(list)
               /\ \A S \in SUBSET ids : closed(S) <=> ClosedUnder(list, S)
<1> DEFINE pairs == {{p[1], p[2]} : p \in ToSet(list)}
           ids == UNION pairs
           closed(S) == \A p \in pairs : p \cap S # {} => p \subseteq S
<1>1. pairs = {{list[m][1], list[m][2]} : m \in DOMAIN list}
  BY DEF ToSet
<1> HIDE DEF pairs
<1>2. ids = EndsOf(list)
  <2>1. \A x \in ids : x \in EndsOf(list)
    BY <1>1 DEF EndsOf
  <2>2. ASSUME NEW x \in EndsOf(list) PROVE x \in ids
    <3>1. PICK m \in DOMAIN list : x = list[m][1] \/ x = list[m][2]
      BY <2>2 DEF EndsOf
    <3>2. {list[m][1], list[m][2]} \in pairs /\ x \in {list[m][1], list[m][2]}
      BY <1>1, <3>1
    <3> HIDE DEF closed
    <3> QED BY <3>2
  <2> HIDE DEF ids
  <2> QED BY <2>1, <2>2
<1>3. \A S \in SUBSET ids : closed(S) <=> ClosedUnder(list, S)
  <2> TAKE S \in SUBSET ids
  <2>1. closed(S) <=> \A m \in DOMAIN list : {list[m][1], list[m][2]} \cap S # {} => {list[m][1], list[m][2]} \subseteq S
    <3>1. ASSUME closed(S), NEW m \in DOMAIN list, {list[m][1], list[m][2]} \cap S # {}
          PROVE  {list[m][1], list[m][2]} \subseteq S
      <4>1. {list[m][1], list[m][2]} \in pairs
        BY <1>1
      <4> QED BY <3>1, <4>1
    <3>2. ASSUME \A m \in DOMAIN list : {list[m][1], list[m][2]} \cap S # {} => {list[m][1], list[m][2]} \subseteq S,
                 NEW p \in pairs, p \cap S # {}
          PROVE  p \subseteq S
      <4>1. PICK m \in DOMAIN list : p = {list[m][1], list[m][2]}
        BY <1>1
      <4> QED BY <3>2, <4>1
    <3> QED BY <3>1, <3>2
  <2> HIDE DEF closed
  <2> QED BY <2>1 DEF ClosedUnder
<1> QED BY <1>2, <1>3 DEF pairs

LEMMA ClustersAreOfThings == ASSUME NEW g, WordedGraph(g) PROVE
    LET pairs == {{p[1], p[2]} : p \in ToSet(PairsToRule(g))}
        ids == UNION pairs
        closed(S) == \A p \in pairs : p \cap S # {} => p \subseteq S
        thing(id) == {x \in ids : \A S \in SUBSET ids : id \in S /\ closed(S) => x \in S}
    IN  Clusters(g) = {thing(id) : id \in ids}
<1> DEFINE list == PairsToRule(g)
           pairs == {{p[1], p[2]} : p \in ToSet(list)}
           ids == UNION pairs
           closed(S) == \A p \in pairs : p \cap S # {} => p \subseteq S
           thing(id) == {x \in ids : \A S \in SUBSET ids : id \in S /\ closed(S) => x \in S}
<1>1. list \in Seq(Ids \X Ids)
  BY PairsArePairs
<1>2. Clusters(g) = ClustersOf(list)
  BY DEF Clusters
<1> HIDE DEF list
<1>3. ClustersOf(list) = {ThingOf(EndsOf(list), list, id) : id \in EndsOf(list)}
  BY <1>1, ClustersOfPairs
<1>4. ids = EndsOf(list) /\ \A S \in SUBSET ids : closed(S) <=> ClosedUnder(list, S)
  BY <1>1, ThingsAreClosed
<1> HIDE DEF ids, closed
<1>5. \A id : thing(id) = ThingOf(ids, list, id)
  BY <1>4 DEF ThingOf
<1> HIDE DEF thing
<1>6. {thing(id) : id \in ids} = {ThingOf(EndsOf(list), list, id) : id \in EndsOf(list)}
  BY <1>4, <1>5
<1> QED BY <1>2, <1>3, <1>6 DEF thing, closed, ids, list

\* "A person rules on a THING rather than on a pair" (DupCluster): two records are in one
\* cluster just when each is in every set that has the other and, of any pair, both or
\* neither.
THEOREM ClustersAreWhole == LedgersSpec => []ClustersAreThings
<1>1. IInv /\ WordedInv => ClustersAreThings
  BY GraphIsWorded, ClustersAreOfThings DEF ClustersAreThings
<1> QED BY <1>1, LedgersInvariance, TextsInvariance, PTL

-----------------------------------------------------------------------------
(* One fact entered twice. *)

LEMMA SomeIsFirst ==
    ASSUME NEW S, IsFiniteSet(S), S # {}, NEW R, StrictOrder(R, S)
    PROVE  \E x \in S : \A y \in S : y = x \/ (<<x, y>> \in R /\ <<y, x>> \notin R)
<1> DEFINE r == Ranked(S, R)
<1>1. Ranks(r, S, R)
  BY RankedLists
<1> HIDE DEF r
<1>2. PICK n \in Nat : DOMAIN r = 1..n
  BY <1>1 DEF Ranks
<1>3. 1 \in DOMAIN r
  <2>1. PICK x \in S : TRUE
    OBVIOUS
  <2>2. \E i \in DOMAIN r : r[i] = x
    BY <1>1 DEF Ranks
  <2> QED BY <1>2, <2>2
<1>4. r[1] \in S
  BY <1>1, <1>3 DEF Ranks
<1>5. ASSUME NEW y \in S, y # r[1] PROVE <<r[1], y>> \in R /\ <<y, r[1]>> \notin R
  <2>1. PICK i \in DOMAIN r : r[i] = y
    BY <1>1 DEF Ranks
  <2>2. i # 1
    BY <1>5, <2>1
  <2>3. 1 < i /\ ~ (i < 1)
    BY <1>2, <2>2
  <2>4. (1 < i <=> <<r[1], r[i]>> \in R) /\ (i < 1 <=> <<r[i], r[1]>> \in R)
    BY <1>1, <1>3 DEF Ranks
  <2> QED BY <2>1, <2>3, <2>4
<1> QED BY <1>4, <1>5

\* A text with words has a rarest.
LEMMA SomeIsRarest ==
    ASSUME NEW df, IsFiniteSet(DOMAIN df), DOMAIN df # {}, DOMAIN df \in SUBSET Int,
           \A w \in DOMAIN df : df[w] \in Nat
    PROVE  Rarest(df) # {}
<1> DEFINE W == DOMAIN df
           rarer(v, w) == df[v] < df[w] \/ (df[v] = df[w] /\ v < w)
           R == {p \in W \X W : rarer(p[1], p[2])}
<1>1. \A v, w \in W : <<v, w>> \in R <=> rarer(v, w)
  OBVIOUS
<1>2. \A w \in W : w \in Int /\ df[w] \in Nat
  OBVIOUS
<1>3. StrictOrder(R, W)
  <2>1. \A x \in W : ~ rarer(x, x)
    BY <1>2
  <2>2. \A x, y \in W : x = y \/ rarer(x, y) \/ rarer(y, x)
    BY <1>2
  <2>3. \A x, y, z \in W : rarer(x, y) /\ rarer(y, z) => rarer(x, z)
    BY <1>2
  <2> HIDE DEF R, W, rarer
  <2> QED BY <1>1, <2>1, <2>2, <2>3 DEF StrictOrder
<1> HIDE DEF R
<1>4. PICK w \in W : \A v \in W : v = w \/ (<<w, v>> \in R /\ <<v, w>> \notin R)
  <2> HIDE DEF W
  <2>1. IsFiniteSet(W) /\ W # {}
    BY DEF W
  <2> QED BY <1>3, <2>1, SomeIsFirst
<1>5. \A v \in W : ~ rarer(v, w)
  <2> TAKE v \in W
  <2>1. CASE v = w
    BY <1>2, <2>1
  <2>2. CASE <<v, w>> \notin R
    <3> HIDE DEF W, rarer
    <3> QED BY <1>1, <2>2
  <2> HIDE DEF W, rarer
  <2> QED BY <1>4, <2>1, <2>2
<1>6. {v \in W : rarer(v, w)} = {}
  BY <1>5
<1>7. Cardinality({v \in W : rarer(v, w)}) = 0
  <2> HIDE DEF W, rarer
  <2> QED BY <1>6, FS_EmptySet
<1>8. 0 < IndexTokens
  BY DuplicatesAssumption
<1>9. w \in Rarest(df)
  <2>1. Rarest(df) = {u \in W : Cardinality({v \in W : rarer(v, u)}) < IndexTokens}
    BY DEF Rarest
  <2> HIDE DEF W, rarer
  <2> QED BY <1>7, <1>8, <2>1
<1> QED BY <1>9

\* Two facts of a kind with the same words are on a list together.
Twins(g, id, x) ==
    /\ id \in DOMAIN g.nodes /\ x \in DOMAIN g.nodes /\ id # x
    /\ g.nodes[id].kind = g.nodes[x].kind
    /\ g.nodes[id].says.words = g.nodes[x].says.words
    /\ g.nodes[id].says.words # {}
    /\ ~ Linked(g, <<id, x>>)

LEMMA TwinsMeet ==
    ASSUME NEW g, WordedGraph(g), EnteredTwice(g) = {}, NEW id, NEW x, Twins(g, id, x)
    PROVE  /\ id \in Candidates(g) /\ x \in Candidates(g)
           /\ \E k \in DOMAIN Posting(g, Candidates(g)) :
                 id \in Posting(g, Candidates(g))[k] /\ x \in Posting(g, Candidates(g))[k]
<1> DEFINE D == Candidates(g)
           W == g.nodes[id].says.words
           kind == g.nodes[id].kind
           df == [w \in W |-> Cardinality({y \in D : g.nodes[y].kind = kind /\ w \in g.nodes[y].says.words})]
<1>1. id \in D /\ x \in D
  <2>1. IsText(g.nodes[id].says) /\ IsText(g.nodes[x].says)
    BY DEF WordedGraph, Worded, Twins
  <2>2. g.nodes[id].says.body # 0 /\ g.nodes[x].says.body # 0
    BY <2>1 DEF IsText, Twins
  <2>3. D = {y \in DOMAIN g.nodes : g.nodes[y].says.body # 0}
    BY DEF Candidates
  <2> HIDE DEF D
  <2> QED BY <2>2, <2>3 DEF Twins
<1>2. D \in SUBSET DOMAIN g.nodes /\ IsFiniteSet(D)
  BY CandidatesAreCompared
<1>3. RarestTokens(g, D, id) = {<<kind, w>> : w \in Rarest(df)}
  BY DEF RarestTokens
<1>4. RarestTokens(g, D, x) = RarestTokens(g, D, id)
  <2>1. g.nodes[x].kind = g.nodes[id].kind /\ g.nodes[x].says.words = g.nodes[id].says.words
    BY DEF Twins
  <2> HIDE DEF D
  <2> QED BY <2>1 DEF RarestTokens
<1> HIDE DEF D
<1>5. W \in SUBSET Int /\ IsFiniteSet(W) /\ W # {}
  BY DEF WordedGraph, Worded, IsText, Twins
<1>6. DOMAIN df = W /\ \A w \in W : df[w] \in Nat
  <2> HIDE DEF W, kind
  <2>1. \A w \in W : IsFiniteSet({y \in D : g.nodes[y].kind = kind /\ w \in g.nodes[y].says.words})
    <3> TAKE w \in W
    <3>1. {y \in D : g.nodes[y].kind = kind /\ w \in g.nodes[y].says.words} \in SUBSET D
      OBVIOUS
    <3> QED BY <1>2, <3>1, FS_Subset
  <2>2. \A w \in W : Cardinality({y \in D : g.nodes[y].kind = kind /\ w \in g.nodes[y].says.words}) \in Nat
    BY <2>1, FS_CardinalityType
  <2> QED BY <2>2
<1> HIDE DEF df, W
<1>7. Rarest(df) # {}
  BY <1>5, <1>6, SomeIsRarest
<1>8. PICK k : k \in RarestTokens(g, D, id)
  BY <1>3, <1>7
<1>9. /\ k \in DOMAIN Posting(g, D) /\ id \in Posting(g, D)[k]
      /\ x \in Posting(g, D)[k]
  BY <1>1, <1>2, <1>4, <1>8, PostingIsLists
<1> QED BY <1>1, <1>9 DEF D

LEMMA TwinsAreCompared ==
    ASSUME NEW g, WordedGraph(g), EnteredTwice(g) = {}, NEW id, NEW x, Twins(g, id, x),
           Comparison(g).left = 0
    PROVE  \E i \in Matches(g, Comparison(g).pairs) : id \in ToSet(Comparison(g).pairs[i])
<1> DEFINE D == Candidates(g)
           pairs == Comparison(g).pairs
<1>1. PICK k \in DOMAIN Posting(g, D) : id \in Posting(g, D)[k] /\ x \in Posting(g, D)[k]
  BY TwinsMeet
<1>2. D \in SUBSET Ids /\ HasCompared(Comparison(g), D, Posting(g, D), DOMAIN Posting(g, D))
  BY CandidatesAreCompared
<1>3. id \in D /\ x \in D
  BY TwinsMeet
<1> HIDE DEF D
<1>4. PairsOf(Posting(g, D)[k]) \subseteq ToSet(pairs)
  BY <1>1, <1>2 DEF HasCompared
<1> HIDE DEF pairs
<1>5. Position(id) < Position(x) \/ Position(x) < Position(id)
  <2>1. id \in Ids /\ x \in Ids /\ id # x
    BY <1>2, <1>3 DEF Twins
  <2>2. Position(id) \in Nat /\ Position(x) \in Nat /\ Position(id) # Position(x)
    BY <2>1, Positions
  <2> QED BY <2>2
<1>6. PICK p : p \in {<<id, x>>, <<x, id>>} /\ p \in ToSet(pairs)
  <2>1. CASE Position(id) < Position(x)
    <3>1. <<id, x>> \in PairsOf(Posting(g, D)[k])
      BY <1>1, <2>1 DEF PairsOf
    <3> QED BY <1>4, <3>1
  <2>2. CASE Position(x) < Position(id)
    <3>1. <<x, id>> \in PairsOf(Posting(g, D)[k])
      BY <1>1, <2>2 DEF PairsOf
    <3> QED BY <1>4, <3>1
  <2> QED BY <1>5, <2>1, <2>2
<1>7. PICK i \in DOMAIN pairs : pairs[i] = p
  BY <1>6 DEF ToSet
<1>8. ~ Linked(g, p)
  <2>1. \A e \in g.edges : {e.src, e.dst} # {id, x}
    BY DEF Linked, Twins
  <2>2. {p[1], p[2]} = {id, x}
    BY <1>6
  <2> QED BY <2>1, <2>2 DEF Linked
<1>9. ~ Higher(NearDuplicate, Score(g, p))
  <2> DEFINE W == g.nodes[id].says.words
             c == Cardinality(W)
  <2>1. g.nodes[p[1]].says.words = W /\ g.nodes[p[2]].says.words = W /\ W # {}
    BY <1>6 DEF Twins
  <2>2. IsFiniteSet(W)
    BY DEF WordedGraph, Worded, IsText, Twins
  <2> HIDE DEF W
  <2>3. c \in Nat
    BY <2>2, FS_CardinalityType
  <2>4. W \cap W = W /\ W \cup W = W
    OBVIOUS
  <2>5. Score(g, p) = <<c, c>>
    BY <2>1, <2>4 DEF Score
  <2> HIDE DEF c
  <2>6. ~ (72 * c > c * 100)
    BY <2>3
  <2> QED BY <2>5, <2>6 DEF Higher, NearDuplicate
<1>10. id \in ToSet(p)
  <2>1. ToSet(<<id, x>>) = {id, x} /\ ToSet(<<x, id>>) = {x, id}
    BY DEF ToSet
  <2> QED BY <1>6, <2>1
<1>11. i \in Matches(g, pairs) /\ id \in ToSet(pairs[i])
  BY <1>7, <1>8, <1>9, <1>10 DEF Matches
<1> QED BY <1>11 DEF pairs

\* Who has a match has a best one.
LEMMA SomeIsBest ==
    ASSUME NEW g, WordedGraph(g), NEW pairs \in Seq(Candidates(g) \X Candidates(g)), NEW id,
           \E i \in Matches(g, pairs) : id \in ToSet(pairs[i])
    PROVE  \E i \in Best(g, pairs, Matches(g, pairs), id) : i \in DOMAIN pairs /\ id \in ToSet(pairs[i])
<1> DEFINE own == {i \in Matches(g, pairs) : id \in ToSet(pairs[i])}
           H(i, j) == Higher(Score(g, pairs[i]), Score(g, pairs[j]))
           R == {p \in own \X own : H(p[1], p[2]) \/ (~ H(p[2], p[1]) /\ p[1] < p[2])}
<1>1. own \subseteq DOMAIN pairs /\ own # {}
  BY DEF Matches
<1>2. Candidates(g) \in SUBSET DOMAIN g.nodes
  BY CandidatesAreCompared
<1>3. \A i \in own : i \in Nat /\ IsFraction(Score(g, pairs[i]))
  <2> TAKE i \in own
  <2>1. i \in DOMAIN pairs /\ pairs[i] \in Candidates(g) \X Candidates(g) /\ i \in Nat
    BY <1>1
  <2> DEFINE pair == pairs[i]
  <2>2. pair[1] \in DOMAIN g.nodes /\ pair[2] \in DOMAIN g.nodes
    BY <1>2, <2>1
  <2> HIDE DEF pair
  <2>3. IsFraction(Score(g, pair))
    BY <2>2, ScoresAreFractions
  <2> QED BY <2>1, <2>3 DEF pair
<1>4. IsFiniteSet(own)
  <2>1. Len(pairs) \in Nat /\ DOMAIN pairs = 1..Len(pairs)
    OBVIOUS
  <2>2. IsFiniteSet(1..Len(pairs))
    <3>1. 1 \in Int /\ Len(pairs) \in Int
      BY <2>1
    <3> QED BY <3>1, FS_Interval
  <2>3. own \in SUBSET (1..Len(pairs))
    BY <1>1, <2>1
  <2> HIDE DEF own
  <2> QED BY <2>2, <2>3, FS_Subset
<1>5. \A i, j \in own : <<i, j>> \in R <=> H(i, j) \/ (~ H(j, i) /\ i < j)
  <2> HIDE DEF own, H
  <2> QED OBVIOUS
<1>6. \A i, j \in own : ~ (H(i, j) /\ H(j, i))
  BY <1>3, ScoresAreOrdered
<1>7. \A i, j, k \in own : ~ H(j, i) /\ ~ H(k, j) => ~ H(k, i)
  BY <1>3, ScoresAreOrdered
<1> HIDE DEF own, H, R
<1>8. StrictOrder(R, own)
  <2>1. \A i \in own : <<i, i>> \notin R
    BY <1>3, <1>5, <1>6
  <2>2. ASSUME NEW i \in own, NEW j \in own PROVE i = j \/ <<i, j>> \in R \/ <<j, i>> \in R
    <3>1. CASE H(i, j)
      BY <1>5, <3>1
    <3>2. CASE H(j, i)
      BY <1>5, <3>2
    <3>3. CASE ~ H(i, j) /\ ~ H(j, i)
      <4>1. i = j \/ i < j \/ j < i
        BY <1>3
      <4>2. i < j => <<i, j>> \in R
        BY <1>5, <3>3
      <4>3. j < i => <<j, i>> \in R
        BY <1>5, <3>3
      <4> QED BY <4>1, <4>2, <4>3
    <3> QED BY <3>1, <3>2, <3>3
  <2>3. ASSUME NEW i \in own, NEW j \in own, NEW k \in own, <<i, j>> \in R, <<j, k>> \in R PROVE <<i, k>> \in R
    <3>1. ~ H(j, i) /\ ~ H(k, j)
      BY <1>5, <1>6, <2>3
    <3>2. ~ H(k, i)
      BY <1>7, <3>1
    <3>3. CASE H(i, k)
      BY <1>5, <3>3
    <3>4. CASE ~ H(i, k)
      <4>1. ~ H(i, j)
        BY <1>7, <3>1, <3>4
      <4>2. ~ H(j, k)
        BY <1>7, <3>1, <3>4
      <4>3. i < j /\ j < k
        BY <1>5, <2>3, <4>1, <4>2
      <4>4. i < k
        BY <1>3, <4>3
      <4> QED BY <1>5, <3>2, <4>4
    <3> QED BY <3>3, <3>4
  <2> QED BY <2>1, <2>2, <2>3 DEF StrictOrder
<1>9. PICK i \in own : \A j \in own : j = i \/ (<<i, j>> \in R /\ <<j, i>> \notin R)
  BY <1>1, <1>4, <1>8, SomeIsFirst
<1>10. \A j \in own : H(i, j) \/ (~ H(j, i) /\ i <= j)
  <2> TAKE j \in own
  <2>1. CASE j = i
    <3>1. ~ H(i, i) /\ i <= i
      BY <1>3, <1>6
    <3> QED BY <2>1, <3>1
  <2>2. CASE <<i, j>> \in R
    BY <1>3, <1>5, <2>2
  <2> QED BY <1>9, <2>1, <2>2
<1>11. i \in Best(g, pairs, Matches(g, pairs), id)
  <2>1. Best(g, pairs, Matches(g, pairs), id) = {u \in own : \A j \in own : H(u, j) \/ (~ H(j, u) /\ u <= j)}
    BY DEF Best, own, H
  <2> QED BY <1>10, <2>1
<1>12. i \in DOMAIN pairs /\ id \in ToSet(pairs[i])
  BY <1>1 DEF own
<1> QED BY <1>11, <1>12

\* What has a match and is not named, though all was compared, was not listed.
LEMMA MatchedAreNamed ==
    ASSUME NEW g, WordedGraph(g), NEW pairs \in Seq(Candidates(g) \X Candidates(g)),
           NEW id \in Candidates(g), \E i \in Matches(g, pairs) : id \in ToSet(pairs[i])
    PROVE  \/ Notice(<<"more not listed", {}>>) \in NearFindings(Closest(g, pairs))
           \/ \E f \in NearFindings(Closest(g, pairs)) : id \in f.subjects
<1> DEFINE F == Found(g, pairs)
           c == Closest(g, pairs)
<1>1. PICK i \in Best(g, pairs, Matches(g, pairs), id) : i \in DOMAIN pairs /\ id \in ToSet(pairs[i])
  BY SomeIsBest
<1>2. pairs[i] \in F
  <2>1. i \in UNION {Best(g, pairs, Matches(g, pairs), x) : x \in Candidates(g)}
    OBVIOUS
  <2> QED BY <2>1 DEF Found
<1>3. Ranks(c, F, ScoreOrder(g, F))
  BY ClosestAreRanked
<1> HIDE DEF F, c
<1>4. PICK n \in DOMAIN c : c[n] = pairs[i]
  BY <1>2, <1>3 DEF Ranks
<1>5. c \in Seq(F) /\ Len(c) \in Nat /\ DOMAIN c = 1..Len(c)
  BY <1>3 DEF Ranks
<1>6. id \in {c[n][1], c[n][2]}
  <2>1. pairs[i] \in Candidates(g) \X Candidates(g)
    BY <1>1
  <2> DEFINE u == pairs[i][1]
             v == pairs[i][2]
  <2>2. pairs[i] = <<u, v>>
    BY <2>1
  <2> HIDE DEF u, v
  <2>3. ToSet(<<u, v>>) = {u, v}
    BY DEF ToSet
  <2> QED BY <1>1, <1>4, <2>2, <2>3 DEF u, v
<1>7. CASE Len(c) > MaxNearReports
  BY <1>7 DEF NearFindings, c
<1>8. CASE ~ (Len(c) > MaxNearReports)
  <2>1. n <= MaxNearReports
    BY <1>5, <1>8, DuplicatesAssumption
  <2> DEFINE f == Warning("near-duplicate", {c[n][1], c[n][2]}, <<"may be one", {}>>)
  <2>2. f \in NearFindings(c)
    BY <2>1 DEF NearFindings
  <2>3. f.subjects = {c[n][1], c[n][2]}
    BY DEF Warning, Finding
  <2> HIDE DEF f
  <2> QED BY <1>6, <2>2, <2>3 DEF c
<1> QED BY <1>7, <1>8

LEMMA TwinsAreReported ==
    ASSUME NEW g, WordedGraph(g), EnteredTwice(g) = {}, NEW id, NEW x, Twins(g, id, x)
    PROVE  \/ \E f \in CheckDuplicates(g) : f.says[1] \in {"more not listed", "not everything compared"}
           \/ \E f \in CheckDuplicates(g) : id \in f.subjects
<1> DEFINE compared == Comparison(g)
           near == NearFindings(Closest(g, compared.pairs))
<1>1. HasCompared(compared, Candidates(g), Posting(g, Candidates(g)), DOMAIN Posting(g, Candidates(g)))
  BY CandidatesAreCompared
<1>2. compared.pairs \in Seq(Candidates(g) \X Candidates(g)) /\ compared.left \in Nat
  BY <1>1 DEF HasCompared, Sofar
<1>3. CheckDuplicates(g) = {Error(<<"entered twice", twins>>) : twins \in EnteredTwice(g)}
                           \cup (near \cup (IF compared.left > 0 THEN {Notice(<<"not everything compared", {}>>)} ELSE {}))
  BY DEF CheckDuplicates, ComparisonFindings
<1> HIDE DEF near
<1>5. CASE compared.left > 0
  <2> HIDE DEF compared
  <2>1. Notice(<<"not everything compared", {}>>) \in CheckDuplicates(g)
    BY <1>3, <1>5
  <2>2. Notice(<<"not everything compared", {}>>).says[1] = "not everything compared"
    BY DEF Notice, Finding
  <2> QED BY <2>1, <2>2
<1>6. CASE ~ (compared.left > 0)
  <2>1. compared.left = 0
    BY <1>2, <1>6
  <2>2. id \in Candidates(g)
    BY TwinsMeet
  <2>3. \E i \in Matches(g, compared.pairs) : id \in ToSet(compared.pairs[i])
    BY <2>1, TwinsAreCompared
  <2>4. \/ Notice(<<"more not listed", {}>>) \in near
        \/ \E f \in near : id \in f.subjects
    BY <1>2, <2>2, <2>3, MatchedAreNamed DEF near
  <2>5. near \subseteq CheckDuplicates(g)
    BY <1>3
  <2>6. Notice(<<"more not listed", {}>>).says[1] = "more not listed"
    BY DEF Notice, Finding
  <2> QED BY <2>4, <2>5, <2>6
<1> QED BY <1>5, <1>6

\* No fact is entered twice where a write was let through.
LEMMA CleanHasNoTwins ==
    ASSUME NEW g, NEW set, Errors(GraphFindings(g, set)) = {}
    PROVE  EnteredTwice(g) = {}
<1> SUFFICES ASSUME NEW twins \in EnteredTwice(g) PROVE FALSE
  OBVIOUS
<1> DEFINE f == Error(<<"entered twice", twins>>)
<1>1. f \in CheckDuplicates(g)
  BY DEF CheckDuplicates
<1>2. f.severity = "error"
  BY DEF Error, Finding
<1> HIDE DEF f
<1>3. f \in GraphFindings(g, set)
  BY <1>1 DEF GraphFindings
<1> QED BY <1>2, <1>3 DEF Errors

NoneTwice == EnteredTwice(graph) = {}

LEMMA TwiceInvariance == LedgersSpec => []NoneTwice
<1>1. InitLedgers => NoneTwice
  BY CleanHasNoTwins DEF InitLedgers, Clean, NoneTwice
<1>2. Rewrite => NoneTwice'
  <2> SUFFICES ASSUME Rewrite PROVE NoneTwice'
    OBVIOUS
  <2>1. Clean(graph')
    BY DEF Rewrite
  <2> QED BY <2>1, CleanHasNoTwins DEF Clean, NoneTwice
<1>3. NoneTwice /\ graph' = graph => NoneTwice'
  BY DEF NoneTwice
<1>4. IInv /\ NoneTwice /\ [NextLedgers]_corpusAndLedgers => NoneTwice'
  BY <1>2, <1>3, LedgersNext DEF LedgersStep, Still
<1> QED BY <1>1, <1>4, LedgersInvariance, PTL DEF LedgersSpec

\* "Two copies of one fact share their whole token set, so they share their rarest tokens,
\* so they always meet in a bucket" (checkDuplicates): facts of a kind with the same words,
\* and not related, are named in a warning, unless it is said that not all is listed.
THEOREM CopiesAreNamed == LedgersSpec => []TwinsAreNamed
<1>1. IInv /\ WordedInv /\ NoneTwice => TwinsAreNamed
  <2> SUFFICES ASSUME IInv, WordedInv, NoneTwice PROVE TwinsAreNamed
    OBVIOUS
  <2>1. WordedGraph(graph) /\ EnteredTwice(graph) = {}
    BY GraphIsWorded DEF NoneTwice
  <2>2. \A id, x : Twins(graph, id, x) =>
           \/ \E f \in CheckDuplicates(graph) : f.says[1] \in {"more not listed", "not everything compared"}
           \/ \E f \in CheckDuplicates(graph) : id \in f.subjects
    BY <2>1, TwinsAreReported
  <2> QED BY <2>2 DEF Twins, TwinsAreNamed
<1> QED BY <1>1, LedgersInvariance, TextsInvariance, TwiceInvariance, PTL
=============================================================================
