----------------------------- MODULE FactGraph -----------------------------
(***************************************************************************)
(* Building a graph (node.go, graph.go): the nodes and relations an index  *)
(* holds, the folding away of what `same_as` retires, the collapse of a    *)
(* relation stated twice, and the references left pointing at nothing.     *)
(*                                                                         *)
(* A date is a number and 0 an absent one, so that a window from = until   *)
(* = 0 never closes.  A source's class is its rank on the legal ladder;    *)
(* Unranked is the class of authority, which has none.                     *)
(***************************************************************************)
EXTENDS Integers, FiniteSets, Sequences

CONSTANTS
    Ids,        \* everything a fact may be called, or call another
    None        \* a reference that was left out

ASSUME NoneAssumption == None \notin Ids

NoDate == 0
Unranked == -1

\* What the evaluator never reads: the text of a node, its words and the words it
\* quotes, 0 where it has none; of a source its document, the place in it and the
\* form; of a question its options.
Plain ==
    [body |-> 0, words |-> {}, quote |-> 0, doc |-> None, anchor |-> 0, form |-> "",
     options |-> {}, exhaustive |-> FALSE, needs |-> FALSE, long |-> FALSE]

Node(kind, status) ==
    [kind |-> kind, status |-> status, while |-> None, owner |-> None, same_as |-> None,
     expr |-> "", k |-> 0, class |-> Unranked, speaker |-> None, premises |-> {},
     from |-> NoDate, until |-> NoDate, underdetermined |-> FALSE,
     at |-> NoDate, at_expr |-> << >>, has_value |-> FALSE, value |-> 0, value_expr |-> << >>,
     aliases |-> {}, says |-> Plain]

\* A name for a node; `by` is the node it was written on.
Alias(as, by, from, until) == [as |-> as, by |-> by, from |-> from, until |-> until]

Edge(type, src, dst) ==
    [type |-> type, src |-> src, dst |-> dst, while |-> None,
     from |-> NoDate, until |-> NoDate, one_way |-> FALSE]

\* What a log folds to and what it relates.
IsFact(n) ==
    /\ DOMAIN n = DOMAIN Node("claim", "asserted")
    /\ {n.while, n.owner, n.same_as} \subseteq Ids \cup {None}
    /\ n.k \in Int
Relations == [type : STRING, src : Ids, dst : Ids, while : Ids \cup {None},
              from : Int, until : Int, one_way : BOOLEAN]

-----------------------------------------------------------------------------
(* Folding duplicates away. *)

\* Where a walk along same_as that has come to an id by way of `seen` ends; None
\* for a cycle or an unknown id.
ChainEnd(nodes) ==
    LET end[walk \in Ids \X SUBSET Ids] ==
            LET cur == walk[1]
                seen == walk[2]
            IN  IF cur \in seen \/ cur \notin DOMAIN nodes THEN None
                ELSE IF nodes[cur].same_as = None THEN cur
                ELSE end[<<nodes[cur].same_as, seen \cup {cur}>>]
    IN  end

Survivor(nodes, id) == ChainEnd(nodes)[<<nodes[id].same_as, {id}>>]

\* Mutant of Retired: the chain is followed one link.
MutantOneLink(nodes) ==
    LET folded == {id \in DOMAIN nodes :
                     /\ nodes[id].same_as \in DOMAIN nodes
                     /\ nodes[nodes[id].same_as].kind = nodes[id].kind}
    IN  [id \in folded |-> nodes[id].same_as]

\* g.Retired: what is folded away, and into what.  A chain without an end, and one
\* that ends in another kind, is an error and folds nothing.
Retired(nodes) ==
    LET folded == {id \in DOMAIN nodes :
                     /\ nodes[id].same_as # None
                     /\ Survivor(nodes, id) # None
                     /\ nodes[Survivor(nodes, id)].kind = nodes[id].kind}
    IN  [id \in folded |-> Survivor(nodes, id)]

Resolve(retired, id) == IF id \in DOMAIN retired THEN retired[id] ELSE id

\* Mutant of RewrittenEdge: the condition is forgotten.
MutantKeepsCondition(retired, e) ==
    [e EXCEPT !.src = Resolve(retired, @), !.dst = Resolve(retired, @)]

\* merge rewrites the ends and the condition of a relation, and the `while` and
\* `owner` of a node; a source's speaker and premises stay as they were written.
RewrittenEdge(retired, e) ==
    [e EXCEPT !.src = Resolve(retired, @), !.dst = Resolve(retired, @),
              !.while = Resolve(retired, @)]

RewrittenNode(retired, n) ==
    [n EXCEPT !.while = Resolve(retired, @), !.owner = Resolve(retired, @)]

\* The names a survivor goes by: its own, and those of what was folded into it.
MergedAliases(nodes, retired, id) ==
    UNION {nodes[x].aliases : x \in {x \in DOMAIN nodes : Resolve(retired, x) = id}}

-----------------------------------------------------------------------------
(* The graph. *)

\* What dedupeEdges, and merge before it, takes for the same relation.
SameRelation(e, f) == [e EXCEPT !.one_way = FALSE] = [f EXCEPT !.one_way = FALSE]

\* The relations kept of a sequence of them: the first statement of each, and no
\* relation of a fact to itself that a merge has made.
KeptEdges(retired, edges) ==
    LET es == [i \in DOMAIN edges |-> RewrittenEdge(retired, edges[i])]
    IN  {es[i] : i \in {i \in DOMAIN es :
            /\ \A j \in 1..(i - 1) : ~ SameRelation(es[j], es[i])
            /\ DOMAIN retired # {} => es[i].src # es[i].dst}}

\* Every name in use, with the node it leads to.
Bindings(nodes) == UNION {{[alias |-> a, node |-> id] : a \in nodes[id].aliases} : id \in DOMAIN nodes}

\* f itself, which TLC then evaluates at every argument once and for all.
Explicit(f) == CHOOSE same \in {f} : same = f

\* buildGraph, of the nodes and the relations in document order.  `incident` are
\* the relations between nodes there are; the others are only reported.
Build(nodes, edges) ==
    LET retired == Explicit(Retired(nodes))
        left == DOMAIN nodes \ DOMAIN retired
        merged == Explicit([id \in left |-> [RewrittenNode(retired, nodes[id])
                                   EXCEPT !.aliases = MergedAliases(nodes, retired, id)]])
        kept == KeptEdges(retired, edges)
    IN  [nodes    |-> merged,
         edges    |-> kept,
         incident |-> {e \in kept : e.src \in left /\ e.dst \in left},
         retired  |-> retired,
         names    |-> Bindings(merged)]

\* checkRefs: what relations name, and what `while` and `owner` name, that is not
\* there.
DanglingRelations(g) ==
    ( (UNION {{e.src, e.dst, e.while} : e \in g.edges})
      \cup (UNION {{g.nodes[id].while, g.nodes[id].owner} : id \in DOMAIN g.nodes}) )
    \ (DOMAIN g.nodes \cup {None})

\* The rest of checkRefs: speakers and premises that are not there.
DanglingProvenance(g) ==
    (UNION {{g.nodes[id].speaker} \cup g.nodes[id].premises : id \in DOMAIN g.nodes})
    \ (DOMAIN g.nodes \cup {None})

\* overlaps: windows are half-open, and two that touch do not.
BindingsOverlap(a, b) ==
    /\ ~ (a.until # NoDate /\ b.from # NoDate /\ a.until <= b.from)
    /\ ~ (b.until # NoDate /\ a.from # NoDate /\ b.until <= a.from)

\* checkAliases: a name that is a node's id, or two things at once.
AmbiguousNames(g) ==
    {b.alias.as : b \in {b \in g.names :
        \/ b.alias.as \in DOMAIN g.nodes
        \/ \E c \in g.names \ {b} :
              c.alias.as = b.alias.as /\ BindingsOverlap(b.alias, c.alias)}}

\* Alias.Holds: an undated question sees every binding.
BindingHolds(a, at) ==
    at = NoDate \/ ((a.from # NoDate => at >= a.from) /\ (a.until # NoDate => at < a.until))

\* ResolveRef, the hits: a node's own id wins, then a retired one, then the names in
\* force.  More than one is an error, none matches nothing.
Denotes(g, ref, at) ==
    IF ref \in DOMAIN g.nodes THEN {[alias |-> None, node |-> ref]}
    ELSE IF ref \in DOMAIN g.retired THEN {[alias |-> None, node |-> g.retired[ref]]}
    ELSE {b \in g.names : b.alias.as = ref /\ BindingHolds(b.alias, at)}

\* Lookup.
Lookup(g, id) ==
    IF id \in DOMAIN g.nodes THEN id
    ELSE IF id \in DOMAIN g.retired /\ g.retired[id] \in DOMAIN g.nodes THEN g.retired[id]
    ELSE None
=============================================================================
