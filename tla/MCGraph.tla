------------------------------- MODULE MCGraph -------------------------------
(* Instances of GraphCheck for TLC: corpora about groups, about evidence, and   *)
(* about duplicates.                                                            *)
EXTENDS GraphCheck

CONSTANTS c, d, j, h, p, q, s, t

-----------------------------------------------------------------------------
(* Two groups, a claim and an open question. *)
Group(expr, k) == [Node("group", "asserted") EXCEPT !.expr = expr, !.k = k]

GroupNodes ==
    {[x \in {c, j, h, q} |->
        CASE x = c -> [Node("claim", "asserted") EXCEPT !.while = branch, !.until = 1]
          [] x = j -> outer
          [] x = h -> [inner EXCEPT !.while = gate]
          [] x = q -> Node("question", "open")] :
        <<branch, gate>> \in {<<None, None>>, <<q, None>>, <<None, j>>},
        outer \in {Group("all", 0), Group(">=", 2), Group("none", 0)},
        inner \in {Group("any", 0), Group("<=", 1)}}

GroupDraft ==
    << Edge("member_of", c, j),
       Edge("member_of", h, j),
       Edge("member_of", j, h),
       Edge("member_of", q, h),
       Edge("member_of", c, h),
       Edge("requires", c, q),
       [Edge("member_of", q, j) EXCEPT !.while = h],
       [Edge("member_of", c, j) EXCEPT !.from = 2],
       [Edge("member_of", c, h) EXCEPT !.while = j] >>

-----------------------------------------------------------------------------
(* Two claims, two sources, and whoever speaks in them. *)
EvidenceNodes ==
    {[x \in {c, d, p, s, t} |->
        CASE x = c -> [Node("claim", "asserted") EXCEPT !.until = until]
          [] x = d -> [Node("claim", "asserted") EXCEPT !.from = from]
          [] x = p -> Node("entity", "asserted")
          [] x = s -> [Node("source", "asserted") EXCEPT !.class = one, !.speaker = who]
          [] x = t -> [Node("source", "asserted") EXCEPT !.class = 1, !.speaker = p]] :
        <<until, from>> \in {<<NoDate, NoDate>>, <<1, 1>>},
        one \in {1, 6, Unranked}, who \in {None, p}}

EvidenceDraft ==
    << Edge("attests", s, c),
       Edge("attests", t, d),
       Edge("attests", t, c),
       Edge("attests", s, d),
       [Edge("contradicts", d, c) EXCEPT !.one_way = TRUE],
       Edge("contradicts", c, d),
       Edge("contradicts", d, c),
       Edge("contradicts", s, c) >>

-----------------------------------------------------------------------------
(* Three claims and an event, one of which somebody may find is another. *)
DuplicateNodes ==
    {[x \in {c, d, h, q} |->
        CASE x = c -> [Node("claim", "asserted") EXCEPT !.while = branch, !.same_as = same]
          [] x = d -> [Node("claim", "asserted") EXCEPT !.owner = owner]
          [] x = h -> Node("claim", "asserted")
          [] x = q -> Node("event", "asserted")] :
        branch \in {None, h}, owner \in {None, c, h}, same \in {None, d}}

DuplicateDraft ==
    << Edge("supports", c, d),
       Edge("supports", d, h),
       [Edge("supports", h, q) EXCEPT !.while = c],
       Edge("contradicts", c, h),
       [Edge("about", c, q) EXCEPT !.while = d] >>

SomeCorpora ==
    [nodes : GroupNodes, draft : {GroupDraft}]
    \cup [nodes : EvidenceNodes, draft : {EvidenceDraft}]
    \cup [nodes : DuplicateNodes, draft : {DuplicateDraft}]

Evidence == [nodes : EvidenceNodes, draft : {EvidenceDraft}]

SomeRestatements == {<<"question", "resolved">>, <<"claim", "proposed">>}
=============================================================================
