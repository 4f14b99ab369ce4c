----------------------------- MODULE QueryCheck -----------------------------
(***************************************************************************)
(* Questions asked of a graph that is written to (GraphCheck): what an     *)
(* answer means, declaratively, and what computed dates, windows and names *)
(* for nodes have to come to.                                              *)
(***************************************************************************)
EXTENDS GraphCheck, Pins

CONSTANTS
    Queries,        \* the questions asked
    Clocks,         \* the days they are asked on
    Fragments       \* facts somebody may try before stating them, with their relations

\* A node that is dated by a number or by offsets, and one that is a record of what a
\* node says.
OffsetTerms == [n : Int, unit : STRING, minus : BOOLEAN]
IsDated(n) ==
    /\ n.at \in Int
    /\ n.at_expr = << >> \/ (n.at_expr[1] \in Ids /\ n.at_expr[2] \in Seq(OffsetTerms))
IsRecord(n) == n = [field \in DOMAIN Node("claim", "asserted") |-> n[field]]

\* Facts, and relations of theirs.
IsFragment(f) ==
    /\ \A id \in DOMAIN f.facts : IsRecord(f.facts[id])
    /\ f.relations \in Seq(Relations)
    /\ \A i \in DOMAIN f.relations :
          {f.relations[i].src, f.relations[i].dst} \cap DOMAIN f.facts # {}

ASSUME QueryCheckAssumption ==
    /\ Queries \subseteq Forms
    /\ \A corpus \in Corpora : \A id \in DOMAIN corpus.nodes :
          IsDated(corpus.nodes[id]) /\ IsRecord(corpus.nodes[id])
    /\ \A f \in Fragments : IsFragment(f)

-----------------------------------------------------------------------------
(* What an answer means. *)

\* Where pairs lead from x, by one or by several: what is in every set that they lead
\* into from x, and do not lead out of.
Reached(pairs, S, x) ==
    {y \in S : \A T \in SUBSET S :
        (\A p \in pairs : p[1] \in T \cup {x} => p[2] \in T) => y \in T}

\* The pairs a hop relates.
Related(g, h, at) ==
    LET live == {e \in g.incident : e.type = h.type /\ EdgeLive(g, e, at)}
        forward == {<<e.src, e.dst>> : e \in live}
        backward == {<<e.dst, e.src>> : e \in live}
        pairs == CASE h.dir = 1 -> forward [] h.dir = -1 -> backward [] h.dir = 0 -> forward \cup backward
    IN  IF h.star
        THEN UNION {{x} \X Reached(pairs, DOMAIN g.nodes, x) : x \in DOMAIN g.nodes}
        ELSE pairs

\* A pattern is met from id: there is a path, each node of which its atom is true of.
MeetsPattern(g, p, id, at, now) ==
    \E path \in [DOMAIN p.atoms -> DOMAIN g.nodes] :
        /\ path[1] = id
        /\ \A i \in DOMAIN path : MatchAtom(g, p.atoms[i], path[i], at, now)
        /\ \A i \in 1..Len(p.hops) : <<path[i], path[i + 1]>> \in Related(g, p.hops[i], at)

\* The days a date may be, and those of a window.
DaysOf(d) == IF IsMonth(d) THEN (d + 1)..(d + 9) ELSE {d}
DaysBetween(from, to) == {d \in DateFloor(from)..DateCeil(to) : ~ IsMonth(d)}

\* A date is in a window if it may be one of its days.  A window that ends before it
\* begins has none, but a month that holds both its ends is in it.
InTheWindow(g, id, w) ==
    \E days \in {DaysOf(ResolveAt(g, id))} :
        /\ ResolveAt(g, id) # NoDate
        /\ days \cap DaysBetween(w.from, w.to) # {} \/ {DateFloor(w.from), DateCeil(w.to)} \subseteq days

\* What a query says of a node, at the date it inherits and inside of some names; `of`
\* is what its parts say.
Says(g, id, now, of, q, inside, scope) ==
    CASE q.op = "pattern" -> /\ MeetsPattern(g, q, id, AsOf(Own(q, scope), now), now)
                             /\ Windowed(Own(q, scope)) => InTheWindow(g, id, Own(q, scope))
      [] q.op = "scoped"  -> of[<<q.x, inside, Own(q, scope)>>]
      [] q.op = "ref"     -> /\ q.name \in Named \ inside
                             /\ of[<<Library[q.name], inside \cup {q.name}, scope>>]
      [] q.op = "not"     -> ~ of[<<q.x, inside, scope>>]
      [] q.op = "inter"   -> \A x \in q.terms : of[<<x, inside, scope>>]
      [] q.op = "union"   -> \E x \in q.terms : of[<<x, inside, scope>>]

Meanings(g, id, now) ==
    LET of[call \in Forms \X (SUBSET Named) \X Scopes] ==
            Says(g, id, now, of, call[1], call[2], call[3])
    IN  of

Means(g, q, id, now) == Meanings(g, id, now)[<<q, {}, NoScope>>]

\* Whether the rows are those of a complement: what a name or an unsorted scope stands for.
Complements ==
    LET of[call \in Forms \X SUBSET Named] ==
            LET q == call[1]
                inside == call[2]
            IN  \/ q.op = "not"
                \/ /\ q.op = "ref" /\ q.name \in Named \ inside
                   /\ of[<<Library[q.name], inside \cup {q.name}>>]
                \/ q.op = "scoped" /\ q.sort = << >> /\ of[<<q.x, inside>>]
    IN  of

\* These rows are the nodes a query describes, each once.
RowsOf(ids, g, q, now) ==
    /\ IsInjective(ids)
    /\ ToSet(ids) = {id \in DOMAIN g.nodes : Means(g, q, id, now)}

MeanWhatItSays(answers, g, q, now) ==
    /\ \A a \in answers : a.ok => RowsOf(a.ids, g, q, now)
    /\ (\E a, b \in answers : a # b) => Complements[<<q, {}>>]

\* A question is answered with the facts it describes, each once, whatever the set
\* operations, the names and the dates pushed into it: a path "truncated" by a
\* lapsed relation is none, and "an inner @2020-06-01 still wins" (query.go, Scoped).
\* It is answered in one order, "so a re-resolve never reorders spuriously"
\* (evalPattern), unless it is a complement that nothing has sorted.
AnswersMeanWhatTheySay ==
    \A q \in Queries, now \in Clocks :
        MeanWhatItSays(Answers(graph, q, now), graph, q, now)

-----------------------------------------------------------------------------
(* Dates and names. *)

\* Who is dated from whom, through dates that are not stated.
DatedFrom(g) ==
    {xy \in (DOMAIN g.nodes) \X (DOMAIN g.nodes) :
        LET n == g.nodes[xy[1]]
        IN  n.at = NoDate /\ n.at_expr # << >> /\ n.at_expr[1] = xy[2]}

\* Those of them whose offsets are in days.
DatedInDays(g) ==
    {xy \in DatedFrom(g) :
        LET terms == g.nodes[xy[1]].at_expr[2]
        IN  \A n \in DOMAIN terms : terms[n].unit = "d"}

\* Who is dated from id, at whatever distance.
Following(g, pairs, id) == {x \in DOMAIN g.nodes : id \in Reached(pairs, DOMAIN g.nodes, x)}

\* A graph with an event put a day later.
Corrected(g, id) == [g EXCEPT !.nodes[id].at = AddDays(@, 1)]

\* "A deadline derived from its basis moves when the basis is corrected; a literal
\* would not" (ResolveAt): put an event a day later, and what is dated from it, at
\* whatever distance, is where its offsets put it after the date of its basis as that
\* is now: a day later where they are in days.  Nothing else moves.
DeadlinesMoveWithTheirBasis ==
    LET g == graph
    IN  \A id \in DOMAIN g.nodes : IsDay(g.nodes[id].at) =>
          \A x \in DOMAIN g.nodes :
             LET dated == g.nodes[x].at_expr
                 now == ResolveAt(Corrected(g, id), x)
             IN  /\ x = id \/ x \in Following(g, DatedInDays(g), id) =>
                       now = AddDays(ResolveAt(g, x), 1)
                 /\ x \in Following(g, DatedFrom(g), id) =>
                       now = DateAfter(ResolveAt(Corrected(g, id), dated[1]), dated[2])
                 /\ x # id /\ x \notin Following(g, DatedFrom(g), id) =>
                       now = ResolveAt(g, x)

\* The same sentence to the letter: what is dated from a corrected event moves.  A month
\* or a year after the last day of a month is no earlier than after the day that follows
\* it (parseOffset's AddDate), and then it does not.
EveryDeadlineMoves ==
    LET g == graph
    IN  \A id \in DOMAIN g.nodes : IsDay(g.nodes[id].at) =>
          \A x \in Following(g, DatedFrom(g), id) :
              ResolveAt(g, x) # NoDate => ResolveAt(Corrected(g, id), x) # ResolveAt(g, x)

-----------------------------------------------------------------------------
(* Trying a fact, or an answer. *)

\* A fragment that is tried, and an answer, as [scratch, nodes, relations]: a scratch
\* graph, and what would be stated were it committed.
TriedFacts(f) ==
    [scratch |-> WhatIf(graph, f.facts, ToSet(f.relations)),
     nodes |-> [id \in DOMAIN nodes \cup DOMAIN f.facts |->
                   IF id \in DOMAIN nodes THEN nodes[id] ELSE f.facts[id]],
     relations |-> Stated(draft, stated) \o f.relations]
TriedAnswer(q, option) ==
    [scratch |-> Variant(graph, q, option),
     nodes |-> [nodes EXCEPT ![q].status = "resolved", ![option].status = "asserted"],
     relations |-> Stated(draft, stated)]

\* The fragments of new facts, those that bear no names and are not folded into others
\* and have none of their relations twice, and the options of open questions.
NewFacts == {f \in Fragments : DOMAIN f.facts \cap DOMAIN nodes = {}}
StandsAlone(f) ==
    /\ \A id \in DOMAIN f.facts : f.facts[id].same_as = None /\ f.facts[id].aliases = {}
    /\ \A i, j \in DOMAIN f.relations : i # j => ~ SameRelation(f.relations[i], f.relations[j])
OpenAnswers ==
    {a \in (DOMAIN nodes) \X (DOMAIN nodes) :
        nodes[a[1]].status = "open" /\ nodes[a[2]].status = "proposed"}
Tried == {TriedFacts(f) : f \in {f \in NewFacts : StandsAlone(f)}} \cup {TriedAnswer(a[1], a[2]) : a \in OpenAnswers}

\* Two graphs answer every question alike: the same rows, facts, open questions and
\* sources.
AnswerAlike(g, g2) ==
    \A q \in Queries, now \in Clocks :
        Cardinality({Resolutions(x, q, now) : x \in {g, g2}}) = 1

Foretells(t) ==
    \A committed \in {Build(t.nodes, t.relations)} :
        Builds(t.nodes, committed) => AnswerAlike(t.scratch, committed)

\* "The blast radius of a fact can be seen BEFORE it is committed" (WhatIf), and what
\* would be said if an open question were answered by one of its options (Variants):
\* so it will be, where the commit builds.  New facts without names, folded into
\* nothing, on a graph of which nothing was retired.
ScratchForetells == graph.retired = << >> => \A t \in Tried : Foretells(t)

\* The same sentence to the letter, of any new facts.  Clone and WhatIf neither fold
\* nor register names, so a fragment that does either is not seen for what it is.
EveryScratchForetells == graph.retired = << >> => \A f \in NewFacts : Foretells(TriedFacts(f))
=============================================================================
