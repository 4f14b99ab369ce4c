----------------------------- MODULE Evaluation -----------------------------
(***************************************************************************)
(* What holds and what is open under it (eval.go, taint.go): satisfaction  *)
(* through groups and `while` chains, and the open questions a fact rests  *)
(* on.                                                                     *)
(*                                                                         *)
(* The evaluator is recursive.  It refuses a node it is already inside of, *)
(* but a relation's own `while` is asked about afresh, so an evaluation    *)
(* may come back to a question it has not answered yet and never return:   *)
(* its outcome is then "diverges".                                         *)
(***************************************************************************)
EXTENDS FactGraph

Outcomes == {"holds", "fails", "diverges"}

InWindow(x, at) ==
    at = NoDate \/ (at >= x.from /\ (x.until = NoDate \/ at <= x.until))

\* Mutant of GroupOK: `all` without the check that there is a member.
MutantEmptyAll(n, total, satisfied) ==
    \/ n.expr = "all" /\ satisfied = total
    \/ n.expr = "any" /\ satisfied >= 1
    \/ n.expr = "none" /\ satisfied = 0
    \/ n.expr = "sum" /\ total > 0
    \/ n.expr = ">=" /\ satisfied >= n.k
    \/ n.expr = ">" /\ satisfied > n.k
    \/ n.expr = "<=" /\ satisfied <= n.k
    \/ n.expr = "<" /\ satisfied < n.k
    \/ n.expr = "==" /\ satisfied = n.k

\* groupStat, of the number of members and of satisfied members.
GroupOK(n, total, satisfied) ==
    \/ n.expr = "all" /\ total > 0 /\ satisfied = total
    \/ n.expr = "any" /\ satisfied >= 1
    \/ n.expr = "none" /\ satisfied = 0
    \/ n.expr = "sum" /\ total > 0
    \/ n.expr = ">=" /\ satisfied >= n.k
    \/ n.expr = ">" /\ satisfied > n.k
    \/ n.expr = "<=" /\ satisfied <= n.k
    \/ n.expr = "<" /\ satisfied < n.k
    \/ n.expr = "==" /\ satisfied = n.k

\* Satisfied, from inside of an evaluation: a call that knows nothing of the calls
\* it is inside of, and never returns if one of them asks the same.
AskAfresh(of, id, seen, asked) ==
    IF id \in asked THEN "diverges" ELSE of[<<id, {}, asked \cup {id}>>]

\* satisfied, called on a branch or a member: it knows the nodes it is inside of.
AskWithin(of, id, seen, asked) == of[<<id, seen, asked>>]

\* groupStat, the members: relations in their window, whose condition holds.
StatedMembers(g, id, at) ==
    {e \in g.incident : e.type = "member_of" /\ e.dst = id /\ InWindow(e, at)}

\* The condition of a membership, which an undated question does not ask about.
Condition(of, e, seen, asked, at) ==
    IF at = NoDate \/ e.while = None THEN "holds" ELSE AskAfresh(of, e.while, seen, asked)

\* groupStat and what satisfied makes of it.
GroupAnswer(g, at, of, id, inside, asked) ==
    LET stated == StatedMembers(g, id, at)
        condition == [e \in stated |-> Condition(of, e, inside, asked, at)]
        members == {e \in stated : condition[e] = "holds"}
        member == [e \in members |-> AskWithin(of, e.src, inside, asked)]
        satisfied == {e \in members : member[e] = "holds"}
    IN  IF \/ \E e \in stated : condition[e] = "diverges"
           \/ \E e \in members : member[e] = "diverges"
        THEN "diverges"
        ELSE IF GroupOK(g.nodes[id], Cardinality(members), Cardinality(satisfied))
             THEN "holds" ELSE "fails"

\* satisfied, of a node whose branch holds.
OwnAnswer(g, at, of, id, inside, asked) ==
    IF g.nodes[id].kind = "group" THEN GroupAnswer(g, at, of, id, inside, asked)
    ELSE IF g.nodes[id].status \in {"asserted", "done", "resolved"} THEN "holds" ELSE "fails"

\* satisfied: of a node, the nodes it is inside of (`seen`), and the nodes that
\* calls of Satisfied further out are asked about (`asked`).
AnswerOf(g, at, of, id, seen, asked) ==
    IF id \notin DOMAIN g.nodes \/ id \in seen THEN "fails"
    ELSE IF ~ InWindow(g.nodes[id], at) THEN "fails"
    ELSE LET inside == seen \cup {id}
             branch == IF g.nodes[id].while = None THEN "holds"
                       ELSE AskWithin(of, g.nodes[id].while, inside, asked)
         IN  IF branch # "holds" THEN branch ELSE OwnAnswer(g, at, of, id, inside, asked)

Outcome(g, at) ==
    LET of[call \in Ids \X (SUBSET Ids) \X (SUBSET Ids)] ==
            AnswerOf(g, at, of, call[1], call[2], call[3])
    IN  of

\* Satisfied.
Evaluate(g, id, at) == Outcome(g, at)[<<id, {}, {id}>>]
Satisfied(g, id, at) == Evaluate(g, id, at) = "holds"

\* edgeLive.
EdgeLive(g, e, at) ==
    InWindow(e, at) /\ (at # NoDate /\ e.while # None => Satisfied(g, e.while, at))

-----------------------------------------------------------------------------
(* Taint. *)

IsHole(g, id) ==
    id \in DOMAIN g.nodes /\ g.nodes[id].kind = "question" /\ g.nodes[id].status = "open"

\* Mutant of RestsOn: a branch is not followed.
MutantIgnoresBranch(g, id, at) ==
    IF id \notin DOMAIN g.nodes \/ IsHole(g, id) THEN {}
    ELSE {e.dst : e \in {e \in g.incident :
                           e.type = "requires" /\ e.src = id /\ EdgeLive(g, e, at)}}
         \cup {e.src : e \in {e \in g.incident :
                           /\ g.nodes[id].kind = "group"
                           /\ e.type = "member_of" /\ e.dst = id /\ EdgeLive(g, e, at)}}

\* taint, one node: what it requires, a group's members, and the branch it is in.
\* What an open question waits on is not looked at.
RestsOn(g, id, at) ==
    IF id \notin DOMAIN g.nodes \/ IsHole(g, id) THEN {}
    ELSE {e.dst : e \in {e \in g.incident :
                           e.type = "requires" /\ e.src = id /\ EdgeLive(g, e, at)}}
         \cup {e.src : e \in {e \in g.incident :
                           /\ g.nodes[id].kind = "group"
                           /\ e.type = "member_of" /\ e.dst = id /\ EdgeLive(g, e, at)}}
         \cup ({g.nodes[id].while} \ {None})

\* taint: all that a search visits that has come to some nodes and seen others.
Visited(g, at) ==
    LET visit[search \in (SUBSET Ids) \X (SUBSET Ids)] ==
            LET next == search[1]
                seen == search[2]
            IN  IF next \subseteq seen THEN seen
                ELSE visit[<<UNION {RestsOn(g, x, at) : x \in next \ seen}, seen \cup next>>]
    IN  visit

\* Taint: the open questions among what the search from id visits.
Taint(g, id, at) == {q \in Visited(g, at)[<<{id}, {}>>] : IsHole(g, q)}
=============================================================================
