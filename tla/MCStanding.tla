----------------------------- MODULE MCStanding -----------------------------
(* An instance of Standing for TLC: a claim, an open question and a source     *)
(* that may attest the claim; and two claims, one worth what an event is.      *)
EXTENDS Standing
TLC_ == INSTANCE TLC

CONSTANTS c, d, o, s, ask, one, two

Claim == Node("claim", "asserted")

SomeCorpora ==
    {[nodes |-> [id \in {c, o, s} |->
                   CASE id = c -> [Claim EXCEPT !.until = 2]
                     [] id = o -> Node("question", "open")
                     [] id = s -> [Node("source", "asserted") EXCEPT !.class = 1]],
      draft |-> << Edge("requires", c, o), Edge("attests", s, c) >>],
     [nodes |-> [id \in {c, d, o, s} |->
                   CASE id = c -> [Claim EXCEPT !.value_expr = <<[of |-> s, n |-> 0, minus |-> FALSE]>>]
                     [] id = d -> [Claim EXCEPT !.has_value = TRUE, !.value = 1]
                     [] id = o -> [Node("event", "asserted") EXCEPT !.has_value = TRUE, !.value = 2]
                     [] id = s -> [Node("group", "asserted") EXCEPT !.expr = "sum"]],
      draft |-> << Edge("member_of", o, s) >>]}

Pattern(atoms, hops, sort, at) == [op |-> "pattern", atoms |-> atoms, hops |-> hops, sort |-> sort, at |-> at]
Today == [now |-> TRUE, from |-> NoDate, to |-> NoDate]
Claims(preds) == [id |-> None, kinds |-> {"claim"}, preds |-> preds]
Settled == {[key |-> "status", op |-> "!=", vals |-> <<"proposed">>]}

SomeTexts ==
    << Pattern(<<Claims({})>>, << >>, <<[key |-> "value", desc |-> TRUE]>>, Today),
       Pattern(<<Claims(Settled)>>, << >>, << >>, NoScope) >>

NoLibrary == << >>

Interchangeable == TLC_!Permutations({one, two})

SomeAlphabet == <<c, d, o, s>>
SomeRestatements == {<<"question", "resolved">>, <<"claim", "proposed">>}
=============================================================================
