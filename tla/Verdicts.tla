------------------------------ MODULE Verdicts ------------------------------
(***************************************************************************)
(* What people and machines have ruled on citations (attest.go): the log   *)
(* of verdicts, what of it counts, the list of what a person still has to  *)
(* look at, and verdicts whose words have moved (excerpt.go).              *)
(*                                                                         *)
(* `corrected`, `affirmed` and `unclear` do what `confirmed` does and are   *)
(* left out.                                                               *)
(***************************************************************************)
EXTENDS Pins

CONSTANTS
    People,     \* signatures of people
    Machines    \* signatures with a machine's prefix

Unsigned == None

Verdict(fact, source, verdict, by, excerpt) ==
    [fact |-> fact, source |-> source, verdict |-> verdict, by |-> by, excerpt |-> excerpt]

\* Subtracts: only a person's `unsupported` takes a citation away.
Subtracts(a) == a.verdict = "unsupported" /\ a.by \in People

\* AppendAttestation writes no other.
MayBeRecorded(a) == a.verdict = "unsupported" => Subtracts(a)

\* ReadAttestations: the last line on each fact and source.
ResolvedVerdicts(log) ==
    [key \in {<<log[i].fact, log[i].source>> : i \in DOMAIN log} |->
        log[Max({i \in DOMAIN log : <<log[i].fact, log[i].source>> = key})]]

\* LastHumanSigner.
LastHumanSigner(log) ==
    LET signed == {i \in DOMAIN log : log[i].by \in People}
    IN  IF signed = {} THEN Unsigned ELSE log[Max(signed)].by

\* What Tension takes for the rulings.
RulingsOf(set) == [key \in DOMAIN set |-> IF Subtracts(set[key]) THEN "unsupported" ELSE "confirmed"]

\* checkAttestVerdicts: what is in the log and not honoured.
Ignored(set) == {key \in DOMAIN set : set[key].verdict = "unsupported" /\ ~ Subtracts(set[key])}

\* The citations of sources.
AllCitations(g) == {e \in g.edges : e.type = "attests" /\ e.src \in DOMAIN g.nodes
                                    /\ g.nodes[e.src].kind = "source"}

\* Mutant of PendingHuman: a citation anyone has ruled on is done with.
MutantAnySignature(g, set) ==
    {key \in {<<e.dst, e.src>> : e \in {e \in AllCitations(g) :
        e.dst \in DOMAIN g.nodes /\ g.nodes[e.dst].status # "withdrawn"}} : key \notin DOMAIN set}

\* PendingHuman: the citations of live facts that no person has the last word on.
PendingHuman(g, set) ==
    {key \in {<<e.dst, e.src>> : e \in {e \in AllCitations(g) :
        e.dst \in DOMAIN g.nodes /\ g.nodes[e.dst].status # "withdrawn"}} :
            key \in DOMAIN set => set[key].by \notin People}

\* FactsUsedByDeclarations, of the answers to the declared queries: their rows, and the
\* sources those cite.
UsedBy(g, answers) == UNION {ToSet(ids) \cup CitedSources(g, ToSet(ids)) : ids \in answers}

\* Mutant of Sole: the citations nobody has looked at are counted.
MutantSolePending(g, pending, key) == Cardinality({k \in pending : k[1] = key[1]}) = 1

\* The only citation of its fact, ruled on or not.
Sole(g, pending, key) == Cardinality({e \in AllCitations(g) : e.dst = key[1]}) = 1

\* The bands, 1 the most urgent: words that are nowhere, a contested fact, the only
\* citation of a fact in use, a fact in use, an only citation, and the rest.
Band(g, pending, key, absent, used) ==
    CASE key \in absent -> 1
      [] key \notin absent /\ Tension(g, key[1], NoDate) # "none" -> 2
      [] OTHER -> IF key[1] \in used THEN IF Sole(g, pending, key) THEN 3 ELSE 4
                  ELSE IF Sole(g, pending, key) THEN 5 ELSE 6

\* RankPending: the queue, as it is listed.
InBands(banded) ==
    LET before(j, k) ==
            \/ j[1] < k[1]
            \/ /\ j[1] = k[1]
               /\ \/ Position(j[2][1]) < Position(k[2][1])
                  \/ j[2][1] = k[2][1] /\ Position(j[2][2]) < Position(k[2][2])
        listed == Ranked(banded, {p \in banded \X banded : before(p[1], p[2])})
    IN  [i \in DOMAIN listed |-> listed[i][2]]

RankPending(g, pending, absent, used) ==
    InBands({<<Band(g, pending, key, absent, used), key>> : key \in pending})

-----------------------------------------------------------------------------
(* The words a verdict was given over. *)

\* Mutant of ExcerptState: only the document is looked at.
MutantDocumentOnly(g, texts, a) ==
    LET source == Lookup(g, a.source)
    IN  IF a.excerpt = 0 \/ source = None \/ g.nodes[source].says.doc = None THEN "unpinned"
        ELSE IF a.excerpt \in texts[g.nodes[source].says.doc] THEN "intact"
        ELSE "document-moved"

\* CheckAttestedExcerpts, of one verdict; `texts` are the passages every
\* document holds now, {} for one nobody can read.
ExcerptState(g, texts, a) ==
    LET fact == Lookup(g, a.fact)
        source == Lookup(g, a.source)
    IN  IF a.excerpt = 0 THEN "unpinned"
        ELSE IF fact # None /\ g.nodes[fact].says.quote \notin {0, a.excerpt} THEN "fact-moved"
        ELSE IF source = None \/ g.nodes[source].kind # "source" \/ g.nodes[source].says.doc = None
             THEN "unpinned"
        ELSE IF texts[g.nodes[source].says.doc] = {} THEN "unreadable"
        ELSE IF a.excerpt \in texts[g.nodes[source].says.doc] THEN "intact"
        ELSE "document-moved"

\* CheckQuotes: what a quotation is found in, of the documents its fact cites that
\* anybody can read.  One is enough.
Readable(g, texts, fact) ==
    {e.src : e \in {e \in AllCitations(g) : e.dst = fact /\ g.nodes[e.src].says.doc # None
                                          /\ texts[g.nodes[e.src].says.doc] # {}}}

QuoteState(g, texts, fact) ==
    IF Readable(g, texts, fact) = {} THEN "unreadable"
    ELSE IF \E s \in Readable(g, texts, fact) : g.nodes[fact].says.quote \in texts[g.nodes[s].says.doc]
         THEN "present"
    ELSE "absent"

\* AbsentQuotes: a quotation that is nowhere is reported against the first document that
\* was read.  Relations have no order here, so every set there may be.
AbsentQuotes(g, texts) ==
    LET lost == {id \in DOMAIN g.nodes :
                    /\ g.nodes[id].kind = "claim" /\ g.nodes[id].status # "withdrawn"
                    /\ g.nodes[id].says.quote # 0
                    /\ QuoteState(g, texts, id) = "absent"}
    IN  {{<<id, first[id]>> : id \in lost} :
            first \in {f \in [lost -> DOMAIN g.nodes] : \A id \in lost : f[id] \in Readable(g, texts, id)}}
=============================================================================
