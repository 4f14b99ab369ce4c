------------------------------ MODULE MCQuery ------------------------------
(* An instance of QueryCheck for TLC: corpora about paths, dates and names. *)
EXTENDS QueryCheck

CONSTANTS c, d, j, o, P

Claim == Node("claim", "asserted")

-----------------------------------------------------------------------------
(* Claims that require one another, for a time or under a condition. *)
PathNodes ==
    {[x \in {c, d, j, o} |->
        CASE x = c -> [Claim EXCEPT !.has_value = TRUE, !.value = 3]
          [] x = d -> [Node("claim", "proposed") EXCEPT !.until = 2, !.value_expr = sum]
          [] x = j -> [Node("group", "asserted") EXCEPT !.expr = "sum"]
          [] x = o -> Node("question", "open")] :
        sum \in {<< >>, <<[of |-> c, n |-> 0, minus |-> FALSE], [of |-> None, n |-> 1, minus |-> TRUE]>>}}

PathDraft ==
    << Edge("requires", c, d),
       [Edge("requires", d, o) EXCEPT !.until = 1],
       Edge("requires", o, c),
       [Edge("requires", d, j) EXCEPT !.while = o],
       Edge("member_of", c, j),
       Edge("member_of", d, j) >>

-----------------------------------------------------------------------------
(* An event, and what is dated from it. *)
Plus(n, unit) == [n |-> n, unit |-> unit, minus |-> FALSE]
Minus(n, unit) == [n |-> n, unit |-> unit, minus |-> TRUE]

DateNodes ==
    {[x \in {c, d, j, o} |->
        CASE x = c -> [Claim EXCEPT !.at = basis]
          [] x = d -> [Claim EXCEPT !.at_expr = <<c, <<Plus(2, "d")>>>>]
          [] x = j -> [Node("event", "asserted") EXCEPT !.at_expr = <<from, offset>>, !.until = until]
          [] x = o -> [Node("event", "asserted") EXCEPT !.at_expr = <<back, <<Plus(1, "y"), Minus(3, "d")>>>>]] :
        basis \in {11, 18, 20, 26}, from \in {d, o}, back \in {d, j}, until \in {NoDate, 12},
        offset \in {<<Plus(7, "d")>>, <<Plus(1, "mo")>>, <<Plus(7, "m")>>}}

-----------------------------------------------------------------------------
(* Two lots that one number stands for, one after the other. *)
NameNodes ==
    {[x \in {c, d, j} |->
        CASE x = c -> [Node("entity", "asserted") EXCEPT !.aliases = {Alias(P, c, NoDate, 2)}]
          [] x = d -> [Node("entity", "asserted") EXCEPT !.aliases = {Alias(P, d, from, NoDate)}]
          [] x = j -> [Claim EXCEPT !.same_as = same]] :
        from \in {1, 2, 3}, same \in {None, o}}
    \cup {[x \in {c, d, j} |->
        CASE x = c -> [Node("entity", "asserted") EXCEPT !.aliases = {Alias(P, c, 2, NoDate)}]
          [] x = d -> [Node("entity", "asserted") EXCEPT !.aliases = {Alias(P, d, 1, 2)}]
          [] x = j -> [Node("entity", "asserted") EXCEPT !.aliases = {Alias(P, j, NoDate, until)}]] :
        until \in {1, 2}}

NameDraft == << Edge("about", j, d), Edge("about", d, c) >>

SomeCorpora ==
    [nodes : PathNodes, draft : {PathDraft}]
    \cup [nodes : DateNodes, draft : {<< >>}]
    \cup [nodes : NameNodes, draft : {NameDraft}]

-----------------------------------------------------------------------------
(* Questions. *)
OfKinds(kinds) == [id |-> None, kinds |-> kinds, preds |-> {}]
Having(kinds, preds) == [id |-> None, kinds |-> kinds, preds |-> preds]
Called(id) == [id |-> id, kinds |-> {}, preds |-> {}]
Is(key, op, v) == [key |-> key, op |-> op, vals |-> <<v>>]
Hop(type, dir, star) == [type |-> type, dir |-> dir, star |-> star]
By(key, desc) == [key |-> key, desc |-> desc]
On(day) == [now |-> FALSE, from |-> day, to |-> day]
Today == [now |-> TRUE, from |-> NoDate, to |-> NoDate]
Between(from, to) == [now |-> FALSE, from |-> from, to |-> to]
Pattern(atoms, hops, sort, at) == [op |-> "pattern", atoms |-> atoms, hops |-> hops, sort |-> sort, at |-> at]
All(kinds, at) == Pattern(<<OfKinds(kinds)>>, << >>, << >>, at)
Not(x) == [op |-> "not", x |-> x]
Inter(x, y) == [op |-> "inter", terms |-> {x, y}]
Union2(x, y) == [op |-> "union", terms |-> {x, y}]
Scoped(x, at, sort) == [op |-> "scoped", x |-> x, at |-> at, sort |-> sort]
Ref(name) == [op |-> "ref", name |-> name]

NeedsStar == Pattern(<<OfKinds({"claim", "question"}), OfKinds({"question", "group"})>>,
                     <<Hop("requires", 1, TRUE)>>, <<By("value", TRUE)>>, Today)

NeedsAsserted ==
    Pattern(<<OfKinds({}), Having({}, {Is("status", "=", "asserted")}), Called(j)>>,
            <<Hop("requires", -1, TRUE), Hop("member_of", 0, FALSE)>>, << >>, NoScope)
DatedByNow == Pattern(<<Having({"claim", "event"}, {Is("at", "<=", NowDate)})>>, << >>, <<By("at", FALSE)>>, NoScope)
Undisputed == Pattern(<<Having({}, {Is("disputed", "=", FALSE), Is("value", ">", 1)})>>, << >>, << >>, Today)
AboutLot == Pattern(<<OfKinds({}), Called(P)>>, <<Hop("about", 0, TRUE)>>, << >>, On(2))
Lot == Pattern(<<Called(P)>>, << >>, << >>, NoScope)
NotClaims == Scoped(Not(All({"claim"}, On(1))), Today, <<By("at", TRUE)>>)
Dated == All({"event", "claim"}, NoScope)
LaterUngrouped == Inter(Ref("later"), Not(All({"group"}, NoScope)))
InAWindow == Scoped(Union2(All({"claim"}, On(3)), LaterUngrouped), Between(11, 20), << >>)
Later == Inter(Dated, Not(All({"claim"}, On(2))))
Backwards == All({"claim"}, Between(26, 22))
Round == Union2(Ref("later"), Ref("round"))

SomeLibrary == [later |-> Later, round |-> Round]

SomeQueries ==
    {NeedsStar, NeedsAsserted, DatedByNow, Undisputed, AboutLot, Lot, Not(Dated), NotClaims,
     InAWindow, Backwards, Ref("later"), Ref("round"), Ref("lost")}

SomeSyntax ==
    << NeedsStar, NeedsAsserted, DatedByNow, Undisputed, AboutLot, Lot, Dated, Not(Dated),
       All({"claim"}, On(1)), NotClaims.x, NotClaims,
       All({"group"}, NoScope), Not(All({"group"}, NoScope)), Ref("later"), LaterUngrouped,
       All({"claim"}, On(3)), InAWindow.x, InAWindow,
       All({"claim"}, On(2)), Not(All({"claim"}, On(2))), Later,
       Backwards, Ref("round"), Round, Ref("lost") >>

SomeFragments ==
    {[facts |-> [id \in {P} |-> [Claim EXCEPT !.value_expr = <<[of |-> j, n |-> 0, minus |-> FALSE]>>]],
      relations |-> <<Edge("requires", c, P), Edge("requires", P, o), Edge("member_of", P, j)>>],
     [facts |-> [id \in {o} |-> [Claim EXCEPT !.at_expr = <<c, <<Plus(2, "d")>>>>]],
      relations |-> <<Edge("about", o, c), Edge("contradicts", o, j)>>],
     [facts |-> [id \in {o} |-> [Claim EXCEPT !.aliases = {Alias(P, o, NoDate, NoDate)}]],
      relations |-> << >>],
     [facts |-> [id \in {P} |-> [Claim EXCEPT !.same_as = c]],
      relations |-> <<Edge("requires", P, o)>>]}

SomeAlphabet == <<c, d, j, P, o>>
SomeRestatements == {<<"question", "resolved">>}
=============================================================================
