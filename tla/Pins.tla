-------------------------------- MODULE Pins --------------------------------
(***************************************************************************)
(* The recorded answer to a question (standing.go, declared.go), what has  *)
(* moved since (diff.go), and the scratch graphs on which a fact or the    *)
(* answer to an open question is tried before it is committed (diff.go,    *)
(* taint.go).  A hash is what it is taken of.                              *)
(***************************************************************************)
EXTENDS Query

\* SemHash: every authored field of a node, and its relations.
SemHash(g, id) == <<g.nodes[id], {e \in g.incident : id \in {e.src, e.dst}}>>

Pinned(g, ids) == [i \in DOMAIN ids |-> [id |-> ids[i], hash |-> SemHash(g, ids[i])]]

\* TaintedSet: the open questions a set of rows rests on.
TaintedSet(g, ids, at) == UNION {Taint(g, id, at) : id \in ids}

\* citedSources: the sources among the rows, and those that attest or contradict one.
CitedSources(g, ids) ==
    {s \in DOMAIN g.nodes :
        /\ g.nodes[s].kind = "source"
        /\ \/ s \in ids
           \/ \E e \in g.incident : e.src = s /\ e.dst \in ids /\ e.type \in {"attests", "contradicts"}}

\* pinOf.
PinOf(g, ids, now) ==
    [nodes      |-> Pinned(g, ids),
     unresolved |-> InOrder(TaintedSet(g, ToSet(ids), now)),
     cites      |-> Pinned(g, InOrder(CitedSources(g, ToSet(ids))))]

\* A line that is an id alone, without the hash of a node.
Bare(ids) == [i \in DOMAIN ids |-> [id |-> ids[i], hash |-> << >>]]

\* Mutant of SetHash: the open questions a set rests on are no part of it.
MutantMembersOnly(pin) == pin.nodes \o pin.cites

\* The hash of a pin is of its three lists, one after the other.
SetHash(pin) == pin.nodes \o Bare(pin.unresolved) \o pin.cites

\* Resolve, of one query: every pin there may be.
Resolutions(g, q, now) ==
    {IF a.ok THEN [ok |-> TRUE, pin |-> PinOf(g, a.ids, now)] ELSE [ok |-> FALSE] : a \in Answers(g, q, now)}

-----------------------------------------------------------------------------
(* Differences. *)

IdsOf(pinned) == {pinned[i].id : i \in DOMAIN pinned}
HashIn(pinned, id) == (CHOOSE i \in DOMAIN pinned : pinned[i].id = id)

\* Mutant of DiffPins: the order of the rows is not looked at.
MutantSets(before, after) ==
    LET was == IdsOf(before.nodes)
        is == IdsOf(after.nodes)
    IN  [added |-> is \ was, removed |-> was \ is,
         changed |-> {id \in was \cap is :
            before.nodes[HashIn(before.nodes, id)].hash # after.nodes[HashIn(after.nodes, id)].hash},
         resolved |-> ToSet(before.unresolved) \ ToSet(after.unresolved),
         holes |-> ToSet(after.unresolved) \ ToSet(before.unresolved),
         reordered |-> FALSE]

\* DiffPins.  The counts and the first and last rows, which follow, are left out.
DiffPins(before, after) ==
    LET was == IdsOf(before.nodes)
        is == IdsOf(after.nodes)
    IN  [added |-> is \ was, removed |-> was \ is,
         changed |-> {id \in was \cap is :
            before.nodes[HashIn(before.nodes, id)].hash # after.nodes[HashIn(after.nodes, id)].hash},
         resolved |-> ToSet(before.unresolved) \ ToSet(after.unresolved),
         holes |-> ToSet(after.unresolved) \ ToSet(before.unresolved),
         reordered |-> was = is /\ \E i \in DOMAIN before.nodes : before.nodes[i].id # after.nodes[i].id]

\* SetDelta.Empty: nothing is said to have moved.
NothingSaid(d) ==
    d.added \cup d.removed \cup d.changed \cup d.resolved \cup d.holes = {} /\ ~ d.reordered

-----------------------------------------------------------------------------
(* Scratch graphs. *)

\* The incidence index and the hashes, made anew; the names are the caller's to give.
Scratch(nodes, edges, names) ==
    [nodes |-> Explicit(nodes), edges |-> edges, retired |-> << >>, names |-> names,
     incident |-> {e \in edges : e.src \in DOMAIN nodes /\ e.dst \in DOMAIN nodes}]

\* Mutant of WhatIf: the relations of the facts that are replaced stay, and the new
\* ones are not walked.
MutantStaleIncidence(g, facts, relations) ==
    [g EXCEPT !.nodes = [id \in DOMAIN facts \cup DOMAIN g.nodes |->
                           IF id \in DOMAIN facts THEN facts[id] ELSE g.nodes[id]],
              !.edges = @ \cup relations]

\* WhatIf: facts are put in place of those with their ids, and relations in place of
\* those that leave them.  Clone keeps neither what was retired nor the house's
\* ladder, and the names stay those of the graph it was made of.
WhatIf(g, facts, relations) ==
    Scratch([id \in DOMAIN facts \cup DOMAIN g.nodes |->
               IF id \in DOMAIN facts THEN facts[id] ELSE g.nodes[id]],
            {e \in g.edges : e.src \notin DOMAIN facts} \cup relations,
            g.names)

\* Variants, of one option: it is asserted, the question is resolved, and reindex
\* rebuilds the rest.
Variant(g, question, option) ==
    LET nodes == [id \in DOMAIN g.nodes |->
                    CASE id = question -> [g.nodes[id] EXCEPT !.status = "resolved"]
                      [] id = option /\ id # question -> [g.nodes[id] EXCEPT !.status = "asserted"]
                      [] OTHER -> g.nodes[id]]
    IN  Scratch(nodes, g.edges, Bindings(nodes))
=============================================================================
