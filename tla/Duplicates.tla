----------------------------- MODULE Duplicates -----------------------------
(***************************************************************************)
(* One fact entered twice (graph.go checkDuplicates, checkSameDocument)    *)
(* and the groups a person rules on (dupes.go).  Comparing every two facts is  *)
(* too much work: each is listed under its rarest words, and only facts    *)
(* that share a list are compared.                                         *)
(*                                                                         *)
(* Words are numbers, which sort as they do.                               *)
(***************************************************************************)
EXTENDS Query

CONSTANTS
    IndexTokens,    \* bound: lists a fact is on
    MaxBucket,      \* bound: facts on a list that is looked at
    NearBudget,     \* bound: comparisons after which no list is begun
    MaxNearReports  \* bound: pairs that are reported

ASSUME DuplicatesAssumption ==
    /\ IndexTokens \in Nat \ {0}
    /\ {MaxBucket, NearBudget, MaxNearReports} \subseteq Nat

Kinds == <<"action", "claim", "entity", "event", "group", "question", "source">>
KindPosition(kind) == CHOOSE i \in DOMAIN Kinds : Kinds[i] = kind

\* bodyTokens: what a text is compared by are words of it, finitely many.
IsText(says) ==
    /\ says.words \in SUBSET Int /\ IsFiniteSet(says.words)
    /\ says.body = 0 => says.words = {}

\* The nodes with the content of id.
SameContent(g, id) ==
    {x \in DOMAIN g.nodes :
        g.nodes[x].kind = g.nodes[id].kind /\ g.nodes[x].says.body = g.nodes[id].says.body}

\* The groups of nodes entered more than once, an error.
EnteredTwice(g) ==
    {twins \in {SameContent(g, id) : id \in {id \in DOMAIN g.nodes : g.nodes[id].says.body # 0}} :
        Cardinality(twins) > 1}

\* What is compared: nodes with a text, but those of an exact match.
Candidates(g) ==
    {id \in DOMAIN g.nodes : g.nodes[id].says.body # 0} \ UNION EnteredTwice(g)

\* The rarest words, of how many nodes have each.
Rarest(df) ==
    LET rarer(v, w) == df[v] < df[w] \/ (df[v] = df[w] /\ v < w)
    IN  {w \in DOMAIN df : Cardinality({v \in DOMAIN df : rarer(v, w)}) < IndexTokens}

\* The keys of a node's lists: its rarest words among the nodes of its kind.
RarestTokens(g, among, id) ==
    LET kind == g.nodes[id].kind
    IN  {<<kind, w>> : w \in Rarest([w \in g.nodes[id].says.words |->
            Cardinality({x \in among : g.nodes[x].kind = kind /\ w \in g.nodes[x].says.words})])}

\* What is listed under what, of keys and nodes.
Lists(listed) ==
    [k \in {l[1] : l \in listed} |-> {l[2] : l \in {l \in listed : l[1] = k}}]

\* Mutant of Posting: words many facts have are dropped.
MutantPrunesCommon(g, among) ==
    LET keys(id) == {k \in RarestTokens(g, among, id) :
          2 * Cardinality({x \in among : k[2] \in g.nodes[x].says.words}) <= Cardinality(among)}
    IN  Lists(UNION {{<<k, id>> : k \in keys(id)} : id \in among})

\* The lists.
Posting(g, among) ==
    Lists(UNION {{<<k, id>> : k \in RarestTokens(g, among, id)} : id \in among})

\* The two of every pair from a set of ids.
PairsOf(ids) == {pair \in ids \X ids : Position(pair[1]) < Position(pair[2])}

\* Pairs in the order they are compared in.
PairOrder(pairs) ==
    {r \in pairs \X pairs :
        \/ Position(r[1][1]) < Position(r[2][1])
        \/ r[1][1] = r[2][1] /\ Position(r[1][2]) < Position(r[2][2])}

\* The lists, the shortest first.
ListOrder(posting) ==
    {r \in (DOMAIN posting) \X (DOMAIN posting) :
        LET j == r[1]
            k == r[2]
        IN  \/ Cardinality(posting[j]) < Cardinality(posting[k])
            \/ /\ Cardinality(posting[j]) = Cardinality(posting[k])
               /\ \/ KindPosition(j[1]) < KindPosition(k[1])
                  \/ j[1] = k[1] /\ j[2] < k[2]}

\* One list after others: what of it has not been compared is, unless it is left out.
Compared(sofar, list) ==
    IF Cardinality(list) > MaxBucket \/ Len(sofar.pairs) >= NearBudget
    THEN [sofar EXCEPT !.left = @ + 1]
    ELSE LET fresh == PairsOf(list) \ ToSet(sofar.pairs)
         IN  [sofar EXCEPT !.pairs = @ \o Ranked(fresh, PairOrder(fresh))]

\* Which pairs are compared, in which order, and how many lists are left out.
ComparisonOf(posting) ==
    LET keys == Ranked(DOMAIN posting, ListOrder(posting))
        after[n \in 0..Len(keys)] ==
            IF n = 0 THEN [pairs |-> << >>, left |-> 0]
            ELSE Compared(after[n - 1], posting[keys[n]])
    IN  after[Len(keys)]

Comparison(g) == ComparisonOf(Posting(g, Candidates(g)))

\* jaccard, as a fraction.
Score(g, pair) ==
    LET a == g.nodes[pair[1]].says.words
        b == g.nodes[pair[2]].says.words
    IN  IF a = {} \/ b = {} THEN <<0, 1>> ELSE <<Cardinality(a \cap b), Cardinality(a \cup b)>>

Higher(s, t) == s[1] * t[2] > t[1] * s[2]

\* The score from which two facts may be one.
NearDuplicate == <<72, 100>>

Linked(g, pair) == \E e \in g.edges : {e.src, e.dst} = {pair[1], pair[2]}

\* Every node's closest match among the pairs compared, each pair once, the most
\* similar first.
Closest(g, pairs) ==
    LET score == [i \in DOMAIN pairs |-> Score(g, pairs[i])]
        matches == {i \in DOMAIN pairs : ~ Higher(NearDuplicate, score[i]) /\ ~ Linked(g, pairs[i])}
        best(id) ==
            LET own == {i \in matches : id \in ToSet(pairs[i])}
            IN  {i \in own : \A j \in own :
                    \/ Higher(score[i], score[j])
                    \/ ~ Higher(score[j], score[i]) /\ i <= j}
        found == {pairs[i] : i \in UNION {best(id) : id \in Candidates(g)}}
    IN  Ranked(found, {r \in found \X found :
            \/ Higher(Score(g, r[1]), Score(g, r[2]))
            \/ ~ Higher(Score(g, r[2]), Score(g, r[1])) /\ r \in PairOrder(found)})

NearPairs(g) == Closest(g, Comparison(g).pairs)

\* The sources of one document, of which one has no anchor or two have the same.
SameDocument(g) ==
    LET sources == {id \in DOMAIN g.nodes : g.nodes[id].kind = "source" /\ g.nodes[id].says.doc # None}
        of(doc) == {id \in sources : g.nodes[id].says.doc = doc}
    IN  {ids \in {of(g.nodes[id].says.doc) : id \in sources} :
            /\ Cardinality(ids) > 1
            /\ \/ \E id \in ids : g.nodes[id].says.anchor = 0
               \/ \E id \in ids : \E x \in ids \ {id} : g.nodes[id].says.anchor = g.nodes[x].says.anchor}

-----------------------------------------------------------------------------
(* Clusters. *)

\* The pairs a person may have to rule on: near ones, and the sources of one document,
\* whatever their anchors.
PairsToRule(g) ==
    LET sources == {id \in DOMAIN g.nodes : g.nodes[id].kind = "source" /\ g.nodes[id].says.doc # None}
        first(id) == CHOOSE x \in sources :
                        /\ g.nodes[x].says.doc = g.nodes[id].says.doc
                        /\ \A y \in sources : g.nodes[y].says.doc = g.nodes[id].says.doc
                              => Position(x) <= Position(y)
        filed == {<<first(id), id>> : id \in {id \in sources : first(id) # id}}
    IN  NearPairs(g) \o Ranked(filed, PairOrder(filed))

\* find, without the shortening of paths.
RootIn(parent) == [x \in DOMAIN parent |->
    LET root[y \in DOMAIN parent] == IF parent[y] = y THEN y ELSE root[parent[y]] IN root[x]]

\* Mutant of Joined: what was joined before is forgotten.
MutantJoinsEnds(parent, pair) == [parent EXCEPT ![pair[1]] = pair[2]]

Joined(parent, pair) == [parent EXCEPT ![RootIn(parent)[pair[1]]] = RootIn(parent)[pair[2]]]

\* DuplicateClusters: union-find over the pairs.
Classes(root) == {{x \in DOMAIN root : root[x] = root[id]} : id \in DOMAIN root}

ClustersOf(pairs) ==
    LET ids == UNION {ToSet(pair) : pair \in ToSet(pairs)}
        parent[n \in 0..Len(pairs)] ==
            IF n = 0 THEN [id \in ids |-> id] ELSE Joined(parent[n - 1], pairs[n])
    IN  Classes(RootIn(parent[Len(pairs)]))

Clusters(g) == ClustersOf(PairsToRule(g))
=============================================================================
