------------------------------- MODULE Query -------------------------------
(***************************************************************************)
(* Asking a graph (query.go, eval.go): patterns with predicates and hops,  *)
(* set operations, named queries, a date or a window pushed down into      *)
(* them, computed dates and values, and the order of the answer.           *)
(*                                                                         *)
(* A query is a record [op, ...] with its parts in it.  A date 10*m + d is *)
(* day d of month m and 10*m the month as a whole, so that numbers compare *)
(* as ISO dates do; months of eight and seven days take turns, and three   *)
(* are a year, so that a day may be missing a month or a year later as     *)
(* February 29 is.  The parser, text search and the sort by words are left *)
(* out.                                                                    *)
(***************************************************************************)
EXTENDS Tension, SequencesExt

CONSTANTS
    Alphabet,       \* the ids, as they sort
    Syntax,         \* the queries there are, each after its parts
    Library         \* the named queries: a function of their names

ASSUME AlphabetAssumption ==
    /\ Alphabet \in Seq(Ids)
    /\ IsInjective(Alphabet)
    /\ ToSet(Alphabet) = Ids

\* The members of a finite set, each once, in an order given as the pairs of the earlier
\* and the later.
Ranked(S, order) ==
    [n \in 1..Cardinality(S) |->
        CHOOSE x \in S : Cardinality({y \in S : <<y, x>> \in order}) = n - 1]

MonthLength(m) == IF m % 2 = 0 THEN 8 ELSE 7
MonthsInYear == 3
NowDate == -1           \* the word `now` among the values of a predicate
NoScope == [now |-> FALSE, from |-> NoDate, to |-> NoDate]   \* no date given: one day is from = to

Flags == {"computed", "disputed", "impeached"}
DateFields == {"at", "valid_from", "valid_until"}

-----------------------------------------------------------------------------
(* Dates. *)

IsMonth(d) == d % 10 = 0
IsDay(d) == d % 10 \in 1..MonthLength(d \div 10)
DateFloor(d) == IF IsMonth(d) THEN d + 1 ELSE d

\* A month is taken to have as many days as any may, as the code puts a 31st in each.
DateCeil(d) == IF IsMonth(d) THEN d + 9 ELSE d

OverlapsWindow(d, from, to) ==
    DateCeil(d) >= DateFloor(from) /\ DateFloor(d) <= DateCeil(to)

\* The days before a month, and the date with so many days before it.
DaysBefore(m) == 15 * (m \div 2) + 8 * (m % 2)
DateOfDay(n) == 20 * (n \div 15) + (n % 15) + (IF n % 15 < 8 THEN 1 ELSE 3)

\* time.AddDate: a day that the month does not have is one of the month after.
AddDate(d, months, days) == DateOfDay(DaysBefore((d \div 10) + months) + (d % 10) - 1 + days)
AddDays(d, days) == AddDate(d, 0, days)

\* An offset from a date, as parseOffset reads it: so many days, months or years.
Units == {"d", "mo", "y"}
Offset(d, term) ==
    LET n == IF term.minus THEN -term.n ELSE term.n
    IN  CASE term.unit = "d"  -> AddDays(d, n)
          [] term.unit = "mo" -> AddDate(d, n, 0)
          [] term.unit = "y"  -> AddDate(d, MonthsInYear * n, 0)

\* Some offsets from a date one after the other: none from a date that is not a day.
DateAfter(base, terms) ==
    LET after[n \in 0..Len(terms)] == IF n = 0 THEN base ELSE Offset(after[n - 1], terms[n])
    IN  IF IsDay(base) /\ \A n \in DOMAIN terms : terms[n].unit \in Units
        THEN after[Len(terms)] ELSE NoDate

\* Mutant of ResolveAt: a deadline stays where it was first computed from.
MutantOneStep(g, id) ==
    LET n == g.nodes[id]
    IN  IF n.at # NoDate THEN n.at
        ELSE IF n.at_expr = << >> \/ n.at_expr[1] \notin DOMAIN g.nodes THEN NoDate
        ELSE DateAfter(g.nodes[n.at_expr[1]].at, n.at_expr[2])

\* resolveAt, of a node and those it is asked for: a date is stated, or some offsets from
\* another's; NoDate for one that rests on itself, on nothing, or on a month.
ResolvedDates(g) ==
    LET of[call \in Ids \X SUBSET Ids] ==
            LET id == call[1]
                seen == call[2]
                n == g.nodes[id]
            IN  IF id \notin DOMAIN g.nodes \/ id \in seen THEN NoDate
                ELSE IF n.at # NoDate THEN n.at
                ELSE IF n.at_expr = << >> THEN NoDate
                ELSE DateAfter(of[<<n.at_expr[1], seen \cup {id}>>], n.at_expr[2])
    IN  of

\* ResolveAt.
ResolveAt(g, id) == ResolvedDates(g)[<<id, {}>>]

Absent == [there |-> FALSE, is |-> 0]
Present(v) == [there |-> TRUE, is |-> v]

\* ResolveValue: stated, the sum of a group's members, or an expression of others.
ResolveValue(g, id) ==
    LET of[x \in Ids, seen \in SUBSET Ids] ==
          IF x \notin DOMAIN g.nodes \/ x \in seen THEN Absent
          ELSE LET n == g.nodes[x]
                   parts == {e \in g.incident : e.type = "member_of" /\ e.dst = x}
                   part == [e \in parts |-> of[e.src, seen \cup {x}]]
                   term == [i \in DOMAIN n.value_expr |->
                              LET addend == n.value_expr[i]
                              IN  IF addend.of = None THEN Present(addend.n) ELSE of[addend.of, seen \cup {x}]]
               IN  IF n.has_value THEN Present(n.value)
                   ELSE IF n.kind = "group" /\ n.expr = "sum"
                   THEN [there |-> \E e \in parts : part[e].there,
                         is |-> MapThenSumSet(LAMBDA e : part[e].is, {e \in parts : part[e].there})]
                   ELSE IF n.value_expr = << >> \/ \E i \in DOMAIN term : ~ term[i].there THEN Absent
                   ELSE Present(MapThenSumSet(
                          LAMBDA i : IF i > 1 /\ n.value_expr[i].minus THEN -term[i].is ELSE term[i].is,
                          DOMAIN term))
    IN  of[id, {}]

-----------------------------------------------------------------------------
(* One node. *)

\* field, of the fields that are looked at.
Field(g, id, key, at) ==
    LET n == g.nodes[id]
        If(there, v) == IF there THEN Present(v) ELSE Absent
    IN  CASE key = "status" -> Present(n.status)
          [] key = "owner" -> If(n.owner # None, n.owner)
          [] key = "while" -> If(n.while # None, n.while)
          [] key = "speaker" -> If(n.speaker # None, n.speaker)
          [] key = "class" -> If(n.kind = "source", n.class)
          [] key = "valid_from" -> If(n.from # NoDate, n.from)
          [] key = "valid_until" -> If(n.until # NoDate, n.until)
          [] key = "underdetermined" -> If(n.underdetermined, TRUE)
          [] key = "computed" -> If(n.at_expr # << >> \/ n.value_expr # << >>, TRUE)
          [] key \in {"disputed", "impeached"} -> If(Tension(g, id, at) = key, TRUE)
          [] key = "at" -> LET day == ResolveAt(g, id) IN If(day # NoDate, day)
          [] key = "value" -> ResolveValue(g, id)

\* What matchPred makes of a field.  A computed flag is there or not, and is compared
\* as such.
PredHolds(p, got, now) ==
    LET clock(v) == IF p.key \in DateFields /\ v = NowDate THEN now ELSE v
        first == clock(p.vals[1])
    IN  IF p.key \in Flags
        THEN CASE p.op = "has" -> got.there
               [] p.op = "="   -> got.there = p.vals[1]
               [] p.op = "!="  -> got.there # p.vals[1]
        ELSE /\ got.there
             /\ CASE p.op = "has" -> TRUE
                  [] p.op = "in" -> \E i \in DOMAIN p.vals : got.is = clock(p.vals[i])
                  [] p.op = "="  -> got.is = first
                  [] p.op = "!=" -> got.is # first
                  [] p.op = "<"  -> got.is < first
                  [] p.op = "<=" -> got.is <= first
                  [] p.op = ">"  -> got.is > first
                  [] p.op = ">=" -> got.is >= first

MatchPred(g, p, id, at, now) == PredHolds(p, Field(g, id, p.key, at), now)

\* matchAtom.  With a date, the node and every `while` it is under have to hold.
MatchAtom(g, a, id, at, now) ==
    LET n == g.nodes[id]
    IN  /\ a.id # None => \E b \in Denotes(g, a.id, at) : b.node = id
        /\ a.kinds # {} => n.kind \in a.kinds
        /\ \A p \in a.preds : MatchPred(g, p, id, at, now)
        /\ at # NoDate => InWindow(n, at) /\ (n.while # None => Satisfied(g, n.while, at))

-----------------------------------------------------------------------------
(* Hops. *)

Step(g, id, h, at) ==
    UNION {(IF h.dir >= 0 /\ e.src = id THEN {e.dst} ELSE {})
           \cup (IF h.dir <= 0 /\ e.dst = id /\ (h.dir < 0 \/ e.src # id) THEN {e.src} ELSE {}) :
           e \in {e \in g.incident : e.type = h.type /\ EdgeLive(g, e, at)}}

\* Mutant of HopTargets: a star takes two steps at most.
MutantTwoSteps(g, id, h, at) ==
    LET near == Step(g, id, h, at)
    IN  IF h.star THEN near \cup UNION {Step(g, x, h, at) : x \in near} ELSE near

\* hopTargets: one hop, or with a star as many as there are.
HopTargets(g, id, h, at) ==
    LET reach[found \in SUBSET Ids] ==
            LET more == found \cup UNION {Step(g, x, h, at) : x \in found}
            IN  IF more = found THEN found ELSE reach[more]
    IN  IF h.star THEN reach[Step(g, id, h, at)] ELSE Step(g, id, h, at)

\* walk: whether some path through the hops starts at id.
Walk(g, p, id, at, now) ==
    LET after[i \in 0..Len(p.hops)] ==
            IF i = 0 THEN {id}
            ELSE {to \in UNION {HopTargets(g, x, p.hops[i], at) : x \in after[i - 1]} :
                     MatchAtom(g, p.atoms[i + 1], to, at, now)}
    IN  after[Len(p.hops)] # {}

-----------------------------------------------------------------------------
(* Order. *)

Position(id) == CHOOSE i \in DOMAIN Alphabet : Alphabet[i] = id

\* Some ids as they sort.
InOrder(ids) ==
    LET listed[n \in 0..Len(Alphabet)] ==
            IF n = 0 THEN << >>
            ELSE IF Alphabet[n] \in ids THEN Append(listed[n - 1], Alphabet[n]) ELSE listed[n - 1]
    IN  listed[Len(Alphabet)]

\* What one sort key says of two nodes: -1 when a comes first.  What is missing comes
\* last whatever the direction.
FieldOrder(k, fa, fb) ==
    IF fa.there # fb.there THEN IF fa.there THEN -1 ELSE 1
    ELSE IF ~ fa.there \/ k.key \in Flags \/ fa.is = fb.is THEN 0
    ELSE IF (fa.is < fb.is) = ~ k.desc THEN -1 ELSE 1

KeyOrder(g, k, a, b, at) ==
    IF k.key = "id" THEN IF (Position(a) < Position(b)) = ~ k.desc THEN -1 ELSE 1
    ELSE FieldOrder(k, Field(g, a, k.key, at), Field(g, b, k.key, at))

\* The first key that tells two nodes apart decides, and their ids where none does.
Precedes(says, a, b) ==
    LET decides == {i \in DOMAIN says : says[i] # 0}
    IN  IF decides = {} THEN Position(a) < Position(b) ELSE says[Min(decides)] < 0

\* A node among others that are sorted.
Placed(g, row, id, keys, at) ==
    InsertAt(row,
             1 + Cardinality({i \in DOMAIN row :
                    \E says \in {[n \in DOMAIN keys |-> KeyOrder(g, keys[n], row[i], id, at)]} :
                        Precedes(says, row[i], id)}),
             id)

\* sortIDs.
Sorted(g, ids, keys, at) ==
    LET sorted[n \in 0..Len(Alphabet)] ==
            IF n = 0 THEN << >>
            ELSE IF Alphabet[n] \in ids THEN Placed(g, sorted[n - 1], Alphabet[n], keys, at)
            ELSE sorted[n - 1]
    IN  sorted[Len(Alphabet)]

-----------------------------------------------------------------------------
(* Queries. *)

\* The dates and windows a query may be scoped to.
Scopes == [now : BOOLEAN, from : Nat, to : Nat]

\* The date a scope stands for, and whether it is a window.
AsOf(scope, now) == IF scope.now THEN now ELSE scope.from
Windowed(scope) == ~ scope.now /\ scope.to # NoDate /\ scope.to # scope.from

Forms == ToSet(Syntax)
Named == DOMAIN Library

Parts(q) ==
    CASE q.op \in {"scoped", "not"} -> {q.x}
      [] q.op \in {"inter", "union"} -> q.terms
      [] OTHER -> {}

ASSUME SyntaxAssumption ==
    /\ Syntax \in Seq(Forms)
    /\ \A n \in DOMAIN Syntax :
          LET q == Syntax[n]
          IN  /\ q.op \in {"pattern", "scoped", "ref", "not", "inter", "union"}
              /\ q.op \in {"pattern", "scoped"} => q.at \in Scopes
              /\ q.op = "pattern" =>
                    /\ q.hops \in Seq([type : STRING, dir : {-1, 0, 1}, star : BOOLEAN])
                    /\ DOMAIN q.atoms = 1..(Len(q.hops) + 1)
              /\ q.op = "inter" => q.terms # {}
              /\ Parts(q) \subseteq {Syntax[m] : m \in 1..(n - 1)}
    /\ IsFiniteSet(Named)
    /\ \A name \in Named : Library[name] \in Forms

\* What a query is answered with: an error, or rows in an order.
Refused == [ok |-> FALSE, ids |-> << >>]
Answer(ids) == [ok |-> TRUE, ids |-> ids]

\* evalPattern: the nodes the first atom is bound to.
Bound(g, p, scope, at, now) ==
    {id \in DOMAIN g.nodes :
        /\ MatchAtom(g, p.atoms[1], id, at, now)
        /\ Windowed(scope) => \E day \in {ResolveAt(g, id)} :
              day # NoDate /\ OverlapsWindow(day, scope.from, scope.to)
        /\ Walk(g, p, id, at, now)}

\* A name for two things is an error.
Ambiguous(g, p, at) ==
    \E i \in DOMAIN p.atoms :
        p.atoms[i].id # None /\ Cardinality(Denotes(g, p.atoms[i].id, at)) > 1

PatternAnswer(g, p, scope, at, now) ==
    IF Ambiguous(g, p, at) THEN Refused
    ELSE Answer(Sorted(g, Bound(g, p, scope, at, now), p.sort, at))

\* A query's own date, or the one it inherits.
Own(q, scope) == IF q.at = NoScope THEN scope ELSE q.at

\* eval, of a query inside of some names and a date: every answer there may be, for a
\* complement comes in the order a map is iterated.  `of` are the answers to its parts.
AnswersOf(g, now, of, q, inside, scope) ==
    LET result(x) == CHOOSE a \in of[<<x, inside, scope>>] : TRUE
        terms == {result(x) : x \in Parts(q)}
        rows == {ToSet(a.ids) : a \in terms}
        combined(ids) == IF \E a \in terms : ~ a.ok THEN {Refused} ELSE {Answer(InOrder(ids))}
    IN  CASE q.op = "pattern" -> {PatternAnswer(g, q, Own(q, scope), at, now) : at \in {AsOf(Own(q, scope), now)}}
          [] q.op = "scoped" ->
               {IF a.ok /\ q.sort # << >>
                THEN Answer(Sorted(g, ToSet(a.ids), q.sort, at)) ELSE a :
                   a \in of[<<q.x, inside, Own(q, scope)>>], at \in {AsOf(Own(q, scope), now)}}
          [] q.op = "ref" ->
               IF q.name \in inside \/ q.name \notin Named THEN {Refused}
               ELSE of[<<Library[q.name], inside \cup {q.name}, scope>>]
          [] q.op = "not" ->
               IF \E a \in terms : ~ a.ok THEN {Refused}
               ELSE {Answer(s) : s \in SetToSeqs(DOMAIN g.nodes \ (UNION rows))}
          [] q.op = "inter" -> combined(IF rows = {} THEN {} ELSE {id \in DOMAIN g.nodes : \A r \in rows : id \in r})
          [] q.op = "union" -> combined(UNION rows)

Evaluations(g, now) ==
    LET of[call \in Forms \X (SUBSET Named) \X Scopes] ==
            AnswersOf(g, now, of, call[1], call[2], call[3])
    IN  of

\* Eval.
Answers(g, q, now) == Evaluations(g, now)[<<q, {}, NoScope>>]
=============================================================================
