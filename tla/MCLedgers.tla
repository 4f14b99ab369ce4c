----------------------------- MODULE MCLedgers -----------------------------
(* An instance of Ledgers for TLC: facts two sources of one document may       *)
(* attest, claims that contradict or replace one another, and facts in the     *)
(* same words.                                                                 *)
EXTENDS Ledgers

CONSTANTS c, d, e, f, h, s, t, D, ann, bot

Text(body, words) == [Plain EXCEPT !.body = body, !.words = words]
Claim == Node("claim", "asserted")

-----------------------------------------------------------------------------
(* Quotations from a document: c may be folded into f. *)
Quoting(body, words, quote) ==
    [Claim EXCEPT !.says = [Text(body, words) EXCEPT !.quote = quote]]

Paper(anchor, class, speaker) ==
    [Node("source", "asserted") EXCEPT !.class = class, !.speaker = speaker,
        !.says = [Plain EXCEPT !.doc = D, !.anchor = anchor]]

EvidenceNodes ==
    {[x \in {c, f, s, t} |->
        CASE x = c -> Quoting(1, {1, 2, 3}, 1)
          [] x = f -> Quoting(2, {1, 2, 3}, 2)
          [] x = s -> Paper(1, 1, None)
          [] x = t -> Paper(0, 0, f)]}

EvidenceDraft == << Edge("attests", s, c), Edge("attests", t, c), Edge("attests", s, f) >>

-----------------------------------------------------------------------------
(* Claims in tension: one declared set carries c and the other d. *)
TensionNodes ==
    {[x \in {c, d, t} |->
        CASE x = c -> Claim
          [] x = d -> Node("event", "proposed")
          [] x = t -> Node("source", "asserted")]}

TensionDraft ==
    << Edge("attests", t, c), Edge("attests", t, d),
       [Edge("contradicts", c, d) EXCEPT !.one_way = TRUE],
       [Edge("contradicts", d, c) EXCEPT !.one_way = TRUE],
       Edge("contradicts", c, d) >>

-----------------------------------------------------------------------------
(* Facts in many of the same words, and sources of one document. *)
WordSets == { {}, {1, 2, 3, 4}, {1, 2, 3, 5} }

Still(kind, words, doc, anchor) ==
    [Node(kind, "withdrawn") EXCEPT !.says =
        [Text(anchor, words) EXCEPT !.doc = doc, !.anchor = anchor]]

\* The last of four is apart from the others, or not: a word all others have is common.
StillNodes ==
    {[x \in {d, e, h, s} |->
        CASE x = d -> Still("claim", {1, 2, 3, 4}, None, 1)
          [] x = e -> Still("claim", ew, None, 2)
          [] x = h -> Still("claim", hw, None, IF same /\ hw = ew THEN 2 ELSE 3)
          [] x = s -> Still("claim", sw, None, 4)] :
        ew, hw \in {{1, 2, 3, 4}, {1, 2, 3, 5}}, sw \in {{}, {1, 2, 3, 5}, {1, 6, 7}}, same \in BOOLEAN}
    \cup
    {[x \in {d, e, h, s, t} |->
        Still("source", IF x \in odd THEN {1, 2, 3, 5} ELSE {1, 2, 3, 4},
              IF x \in filed THEN D ELSE None, Position(x))] :
        odd \in {{e}, {e, h}, {h, t}, {e, s, t}}, filed \in {{}, {e, s}, {d, t}}}

SomeCorpora ==
    [nodes : EvidenceNodes, draft : {EvidenceDraft}]
    \cup [nodes : TensionNodes, draft : {TensionDraft}]
    \cup [nodes : StillNodes, draft : {<< >>}]

-----------------------------------------------------------------------------
SomeRules == {[x \in {"unreferenced-source", "split-contradiction"} |->
                  IF x = "split-contradiction" THEN "error" ELSE "off"]}

All(kind, status) ==
    [op |-> "pattern", atoms |-> <<[id |-> None, kinds |-> {kind}, preds |->
       {[key |-> "status", op |-> "=", vals |-> <<status>>]}]>>,
     hops |-> << >>, sort |-> << >>, at |-> NoScope]

SomeSyntax == << All("claim", "asserted"), All("event", "proposed") >>
SomeDeclared == {{form} : form \in ToSet(SomeSyntax)}

NoLibrary == << >>

SomeRewordings == {<<c, [Text(1, {1, 2, 3}) EXCEPT !.quote = 2]>>}
ReadAtFirst == [x \in {D} |-> {1, 2}]
SomeRuled == {<<c, s>>}
SomeFoldings == {<<c, f>>}
SomeReadings == [{D} -> {{2}, {}}]
SomeAlphabet == <<c, d, e, f, h, s, t>>
=============================================================================
