----------------------------- MODULE GraphCheck -----------------------------
(***************************************************************************)
(* The graph an index loads as, while its log is written to: relations     *)
(* are stated, facts withdrawn or stated again, duplicates folded away,    *)
(* and a person rules on citations.  A write the graph would not build     *)
(* with is refused (Apply), so every state is a graph that builds.         *)
(***************************************************************************)
EXTENDS Tension

CONSTANTS
    Corpora,        \* where a log may start: its nodes, and what may be related
    Dates,          \* the dates that are asked about
    Restatements,   \* bound: a kind and a status its facts may be stated again with
    MaxRelations,   \* bound: relations stated
    MaxActs         \* bound: withdrawals, answers, retirements and rulings

ASSUME CorpusAssumption ==
    /\ IsFiniteSet(Ids)
    /\ \A corpus \in Corpora :
          /\ corpus.draft \in Seq(Relations)
          /\ DOMAIN corpus.nodes \subseteq Ids
          /\ \A id \in DOMAIN corpus.nodes : IsFact(corpus.nodes[id])

VARIABLES
    nodes,      \* the nodes the log folds to
    draft,      \* the relations somebody may state, in document order
    stated,     \* the positions of those stated
    graph,      \* the graph the log loads as
    rulings,    \* the last verdict on each citation
    acts        \* acts so far

vars == <<nodes, draft, stated, graph, rulings, acts>>

\* The relations that are stated, in document order.
Stated(relations, which) ==
    LET position == [n \in 1..Cardinality(which) |->
                        CHOOSE p \in which : Cardinality({q \in which : q < p}) = n - 1]
    IN  [n \in DOMAIN position |-> relations[position[n]]]

\* A graph the loader takes: no chain of same_as without an end, or into another
\* kind, no reference to nothing, and no name for two things.
Builds(ns, g) ==
    /\ \A id \in DOMAIN ns : ns[id].same_as # None => id \in DOMAIN g.retired
    /\ DanglingRelations(g) = {}
    /\ DanglingProvenance(g) = {}
    /\ AmbiguousNames(g) = {}

Init ==
    /\ \E corpus \in Corpora : nodes = corpus.nodes /\ draft = corpus.draft
    /\ stated = {}
    /\ rulings = << >>
    /\ acts = 0
    /\ graph = Build(nodes, << >>)
    /\ Builds(nodes, graph)

\* An assertion that states one relation more.
Relate(p) ==
    /\ p \in DOMAIN draft \ stated
    /\ Cardinality(stated) < MaxRelations
    /\ stated' = stated \cup {p}
    /\ graph' = Build(nodes, Stated(draft, stated'))
    /\ Builds(nodes, graph')
    /\ UNCHANGED <<nodes, draft, rulings, acts>>

\* What a write does to the fields of one node.
Write(id, fields) ==
    /\ acts < MaxActs
    /\ acts' = acts + 1
    /\ nodes' = [nodes EXCEPT ![id] = fields]
    /\ graph' = Build(nodes', Stated(draft, stated))
    /\ Builds(nodes', graph')
    /\ UNCHANGED <<draft, stated, rulings>>

Withdraw(id) == Write(id, [nodes[id] EXCEPT !.status = "withdrawn"])

\* An assertion that states a fact again, with another status: a question that is
\* answered, a claim that is no longer held.
AssertAgain(id, status) ==
    /\ <<nodes[id].kind, status>> \in Restatements
    /\ nodes[id].status # status
    /\ Write(id, [nodes[id] EXCEPT !.status = status])

Retire(id, into) ==
    /\ id # into
    /\ nodes[id].same_as # into
    /\ Write(id, [nodes[id] EXCEPT !.same_as = into])

\* AppendAttestation, by a person: the last verdict on a citation counts.
Rule(fact, source, verdict) ==
    /\ acts < MaxActs
    /\ LET citation == <<fact, source>>
       IN  rulings' = [x \in DOMAIN rulings \cup {citation} |->
                          IF x = citation THEN verdict ELSE rulings[x]]
    /\ acts' = acts + 1
    /\ UNCHANGED <<nodes, draft, stated, graph>>

Next ==
    \/ \E p \in DOMAIN draft : Relate(p)
    \/ \E id \in DOMAIN nodes : Withdraw(id)
    \/ \E id \in DOMAIN nodes, r \in Restatements : AssertAgain(id, r[2])
    \/ \E id, into \in DOMAIN nodes : Retire(id, into)
    \/ \E e \in {e \in graph.incident : e.type = "attests"},
          verdict \in {"confirmed", "unsupported"} : Rule(e.dst, e.src, verdict)

Spec == Init /\ [][Next]_vars

-----------------------------------------------------------------------------
(* Retirement. *)

\* "References to the retired id keep resolving" (write.go): whatever was ever
\* asserted is found, by its own id or as what it was folded into.
RetiredIsFound ==
    \A id \in DOMAIN nodes : Lookup(graph, id) # None

\* "Deleting the loser outright breaks every fact that cited it" (write.go), and
\* folding it away breaks none: whatever two nodes of a kind are made one, no
\* relation, condition, branch or owner is left naming what is gone.
FoldingKeepsRelations ==
    \A id, into \in DOMAIN graph.nodes :
        id # into /\ graph.nodes[id].kind = graph.nodes[into].kind =>
            DanglingRelations(
                Build([nodes EXCEPT ![id].same_as = into], Stated(draft, stated))) = {}

-----------------------------------------------------------------------------
(* Evaluation. *)

\* One step of what satisfaction depends on, whatever holds.
Depends(g, id) ==
    ({g.nodes[id].while} \cup
        UNION {{e.src, e.while} : e \in {e \in g.incident :
            g.nodes[id].kind = "group" /\ e.type = "member_of" /\ e.dst = id}})
    \cap DOMAIN g.nodes

\* Some ids and everything they depend on.
Closing(g) ==
    LET close[found \in SUBSET Ids] ==
            LET more == found \cup (UNION {Depends(g, x) : x \in found})
            IN  IF more = found THEN found ELSE close[more]
    IN  close

\* Everything id depends on.
Basis(g, id) == Closing(g)[Depends(g, id)]

Conditional(g) == {e \in g.incident : e.type = "member_of" /\ e.while # None}

\* "A cycle cannot establish its own truth" (satisfied): it does not hang the
\* evaluator either, unless a membership's own condition is on the cycle.
OnlyConditionsDiverge ==
    LET g == graph
    IN  \A at \in Dates :
          (\E id \in DOMAIN g.nodes : Evaluate(g, id, at) = "diverges")
            => \E e \in Conditional(g) : e.dst \in {e.while} \cup Basis(g, e.while)

\* What a group promises of its members, of which those of X hold.
Meets(n, members, X) ==
    LET held == {e \in members : e.src \in X}
    IN  \/ n.expr = "all" /\ members # {} /\ held = members
        \/ n.expr = "any" /\ held # {}
        \/ n.expr = "none" /\ held = {}
        \/ n.expr = "sum" /\ members # {}
        \/ n.expr = ">=" /\ Cardinality(held) >= n.k
        \/ n.expr = ">" /\ Cardinality(held) > n.k
        \/ n.expr = "<=" /\ Cardinality(held) <= n.k
        \/ n.expr = "<" /\ Cardinality(held) < n.k
        \/ n.expr = "==" /\ Cardinality(held) = n.k

\* What follows if exactly the nodes of X hold.
Follows(g, X, at) ==
    {id \in DOMAIN g.nodes :
        LET n == g.nodes[id]
            members == {e \in g.incident :
                          /\ e.type = "member_of" /\ e.dst = id /\ InWindow(e, at)
                          /\ at # NoDate /\ e.while # None => e.while \in X}
        IN  /\ InWindow(n, at)
            /\ n.while # None => n.while \in X
            /\ IF n.kind = "group"
               THEN Meets(n, members, X)
               ELSE n.status \in {"asserted", "done", "resolved"}}

\* More members satisfied never satisfies less.
Monotone(g) ==
    /\ \A id \in DOMAIN g.nodes :
          g.nodes[id].kind = "group" => g.nodes[id].expr \in {"all", "any", "sum", ">=", ">"}
    /\ Conditional(g) = {}

Acyclic(g) == \A id \in DOMAIN g.nodes : id \notin Basis(g, id)

\* "A cycle cannot establish its own truth": what the evaluator says holds is just
\* what has to.  It follows from itself, and nothing that is supported by a
\* circle alone is in it: it is the least of the sets that follow from themselves.
\* Where nothing depends on itself this is so of every kind of group; where groups
\* only ask for more members it is so whatever depends on what.
SatisfiedIsGrounded ==
    LET g == graph
    IN  Monotone(g) \/ Acyclic(g) =>
          \A at \in Dates :
            LET held == {id \in DOMAIN g.nodes : Satisfied(g, id, at)}
            IN  /\ Follows(g, held, at) = held
                /\ \A X \in SUBSET DOMAIN g.nodes : Follows(g, X, at) = X => held \subseteq X

\* "A fact can be perfectly well-attested and still not settled, because something
\* it rests on is an open question ... transitive" (taint.go): a fact that no open
\* question is found under does not come to hold, or to fail, by that question's
\* being answered.  Memberships with a condition are not searched, and excepted.
UntaintedIsSettled ==
    LET g == graph
    IN  Conditional(g) = {} =>
          \A q \in {q \in DOMAIN g.nodes : IsHole(g, q)}, at \in Dates :
            LET answered == [g EXCEPT !.nodes[q].status = "resolved"]
            IN  \A id \in DOMAIN g.nodes :
                  q \notin Taint(g, id, at) =>
                      (Satisfied(g, id, at) <=> Satisfied(answered, id, at))

-----------------------------------------------------------------------------
(* Tension. *)

\* "Mutual, because the direction of the edge is an authoring convenience and both
\* sides are equally in question" (conflict): of two supported claims in each
\* other's time, either both are reported, or, where one undercuts, the other.
ContradictionIsMutual ==
    LET g == graph
    IN  \A at \in Dates : \A e \in {e \in g.incident : e.type = "contradicts"} :
          /\ EdgeLive(g, e, at)
          /\ e.src # e.dst
          /\ SupportedClaim(g, e.src, at) /\ SupportedClaim(g, e.dst, at)
          /\ WindowsOverlap(g.nodes[e.src], g.nodes[e.dst])
          => /\ Tension(g, e.dst, at) # "none"
             /\ ~ e.one_way => Tension(g, e.src, at) # "none"

\* "One place decides what counts as attestation, which is why a human ruling an
\* edge `unsupported` needs no other wiring: the fact falls back to unattested and
\* every downstream rule - this warning, conflict, disputed - follows on its own"
\* (checkAttestation): evidence both ways needs a citation nobody has ruled out.
RulingReachesConflict ==
    LET g == graph
    IN  \A at \in Dates, id \in DOMAIN g.nodes :
          Tension(g, id, at) \in {"disputed", "impeached"} => Attested(g, rulings, id)

=============================================================================
