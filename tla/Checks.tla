------------------------------- MODULE Checks -------------------------------
(***************************************************************************)
(* What a load reports about a graph (graph.go, scan.go), what an index    *)
(* makes of it (dialect.go ApplyRules), and what of it people have         *)
(* accepted (accepted.go).                                                 *)
(*                                                                         *)
(* A finding is [check, severity, subjects, says]: the rule, the facts its *)
(* key is made of, and what its message tells apart.  A check without a    *)
(* name has no key.  The order findings are listed in is left out.         *)
(***************************************************************************)
EXTENDS Duplicates, Verdicts

CONSTANT SpeakerClasses     \* the classes that mean nothing without a speaker

Finding(check, severity, subjects, says) ==
    [check |-> check, severity |-> severity, subjects |-> subjects, says |-> says]

Warning(check, subjects, says) == Finding(check, "warn", subjects, says)
Notice(says) == Finding("", "warn", {}, says)
Error(says) == Finding("", "error", {}, says)

Of(g, kind) == {id \in DOMAIN g.nodes : g.nodes[id].kind = kind}
Dead == {"withdrawn", "false"}

-----------------------------------------------------------------------------
(* The graph. *)

\* checkAliases.
CheckAliases(g) ==
    {Error(<<"ambiguous", {a}>>) : a \in AmbiguousNames(g)}
    \cup LET of(a) == {b.node : b \in {b \in g.names : b.alias.as = a}}
         IN  {Warning("alias-ambiguous", of(a), <<"over time", {a}>>) :
                a \in {b.alias.as : b \in {b \in g.names :
                    \E c \in g.names \ {b} : c.alias.as = b.alias.as}}}

\* checkDuplicates: the near pairs, as many as are listed, and what is left out.
NearFindings(pairs) ==
    {Warning("near-duplicate", {pairs[i][1], pairs[i][2]}, <<"may be one", {}>>) :
        i \in {i \in DOMAIN pairs : i <= MaxNearReports}}
    \cup (IF Len(pairs) > MaxNearReports THEN {Notice(<<"more not listed", {}>>)} ELSE {})

ComparisonFindings(g, comparison) ==
    NearFindings(Closest(g, comparison.pairs))
    \cup (IF comparison.left > 0 THEN {Notice(<<"not everything compared", {}>>)} ELSE {})

CheckDuplicates(g) ==
    {Error(<<"entered twice", twins>>) : twins \in EnteredTwice(g)}
    \cup ComparisonFindings(g, Comparison(g))

\* checkSameDocument.
CheckSameDocument(g) ==
    {Warning("same-file-sources", ids,
             <<"no anchor", {id \in ids : g.nodes[id].says.anchor = 0},
               {g.nodes[id].says.form : id \in ids} \ {""}>>) : ids \in SameDocument(g)}

\* checkAttestation.
CheckAttestation(g, set) ==
    {Warning("unsourced-fact", {id},
             IF \E e \in g.incident : e.type = "attests" /\ e.dst = id /\ g.nodes[e.src].kind = "source"
             THEN <<"ruled out", {}>>
             ELSE <<"name a source",
                    {e.src : e \in {e \in g.incident : e.dst = id /\ e.type \in {"supports", "causes", "implies"}}}>>) :
        id \in {id \in Of(g, "claim") \cup Of(g, "event") :
                  /\ g.nodes[id].status \in {"asserted", "proposed"}
                  /\ ~ Attested(g, RulingsOf(set), id)}}

CheckAttestVerdicts(set) == {Notice(<<"ignored", {key}>>) : key \in Ignored(set)}

\* checkUnderdetermined: a claim known to be two, until it is split and withdrawn.
CheckUnderdetermined(g) ==
    {Notice(<<IF Cardinality({e \in g.incident : e.type = "supersedes" /\ e.dst = id}) >= 2
              THEN "split but live" ELSE "not one fact", {id}>>) :
        id \in {id \in DOMAIN g.nodes : g.nodes[id].underdetermined /\ g.nodes[id].status \notin Dead}}

\* checkSupersession: what was replaced and is still open-ended.
CheckSupersession(g) ==
    {Notice(<<"superseded and open", {e.src, e.dst}>>) :
        e \in {e \in g.incident : /\ e.type = "supersedes"
                                  /\ g.nodes[e.dst].status \notin Dead
                                  /\ g.nodes[e.dst].until = NoDate}}

\* checkInference: an analysis with no premises, or with one that it attests itself.
CheckInference(g) ==
    LET inferences == {id \in Of(g, "source") : g.nodes[id].says.form = "inference"}
        rests(id) == {e.dst : e \in {e \in g.incident : e.type = "attests" /\ e.src = id}}
    IN  {Warning("inference-no-premises", {id}, <<"resting", rests(id)>>) :
            id \in {id \in inferences : g.nodes[id].premises = {}}}
        \cup UNION {{Error(<<"supports itself", {id, premise}>>) :
                        premise \in g.nodes[id].premises \cap rests(id)} : id \in inferences}

\* checkSources.
CheckSources(g) ==
    {Error(<<"not a source", {e.src}>>) :
        e \in {e \in g.edges : /\ e.type = "attests" /\ e.src \in DOMAIN g.nodes
                               /\ g.nodes[e.src].kind # "source"}}
    \cup {Warning("interested-no-speaker", {id}, <<"whose", {}>>) :
            id \in {id \in Of(g, "source") :
                g.nodes[id].class \in SpeakerClasses /\ g.nodes[id].speaker = None}}
    \cup {Warning("long-description", {id}, <<"long", {}>>) :
            id \in {id \in Of(g, "source") : g.nodes[id].says.long /\ g.nodes[id].class # Unranked}}
    \cup {Warning("unreferenced-source", {id}, <<"unused", {}>>) :
            id \in {id \in Of(g, "source") :
                g.nodes[id].status # "false" /\ \A e \in g.edges : e.src # id}}

\* checkQuestions.
CheckQuestions(g) ==
    LET open == {id \in Of(g, "question") : g.nodes[id].status = "open"}
    IN  {Notice(<<"needs what", {id}>>) : id \in {id \in open : ~ g.nodes[id].says.needs}}
        \cup {Notice(<<"whose and about what", {id}>>) :
                id \in {id \in open : /\ g.nodes[id].owner = None
                                      /\ \A e \in g.incident : ~ (e.type = "about" /\ e.src = id)}}

\* checkBranches: the options of a question exclude one another, and each is planned for.
CheckBranches(g) ==
    LET options(id) == g.nodes[id].says.options \cap DOMAIN g.nodes
        asserted(id) == {o \in options(id) : g.nodes[o].status = "asserted"}
        asked == {id \in DOMAIN g.nodes : g.nodes[id].says.options # {}}
    IN  (UNION {{Notice(<<"no plan", {id, o}>>) :
                  o \in {o \in options(id) : \A x \in DOMAIN g.nodes : g.nodes[x].while # o}} : id \in asked})
        \cup {Error(<<"both", {id}>>) : id \in {id \in asked : Cardinality(asserted(id)) > 1}}
        \cup {Error(<<"neither", {id}>>) :
                id \in {id \in asked : /\ g.nodes[id].says.exhaustive
                                       /\ g.nodes[id].status = "resolved" /\ asserted(id) = {}}}

\* checkGroups.
CheckGroups(g) ==
    {Error(<<"no expression", {id}>>) : id \in {id \in Of(g, "group") : g.nodes[id].expr = ""}}
    \cup {Notice(<<"no members", {id}>>) :
            id \in {id \in Of(g, "group") : \A e \in g.edges : ~ (e.type = "member_of" /\ e.dst = id)}}

\* Everything buildGraph reports of a graph that has no reference to nothing.
GraphFindings(g, set) ==
    UNION {CheckAliases(g), CheckQuestions(g), CheckDuplicates(g), CheckSameDocument(g),
           CheckAttestation(g, set), CheckAttestVerdicts(set), CheckUnderdetermined(g),
           CheckSupersession(g), CheckInference(g), CheckSources(g), CheckBranches(g), CheckGroups(g)}

Errors(findings) == {f \in findings : f.severity = "error"}

-----------------------------------------------------------------------------
(* The declared queries. *)

\* What is in a document made of these rows: them, and the sources they cite.
Carried(g, rows) ==
    rows \cup {e.src : e \in {e \in g.edges : e.type = "attests" /\ e.dst \in rows}}

\* Mutant of SplitContradictions: a correction that goes one way is looked for at the
\* end that was authored.
MutantWrongEnd(g, rows) ==
    LET at == Carried(g, rows)
        live(id) == Lookup(g, id) # None => g.nodes[Lookup(g, id)].status \notin Dead
        split == {e \in g.edges : /\ e.type \in {"contradicts", "supersedes"}
                                  /\ (e.src \in at) # (e.dst \in at)
                                  /\ live(e.src) /\ live(e.dst)
                                  /\ e.type = "supersedes" \/ e.one_way => e.src \in at}
    IN  {Warning("split-contradiction", {e.src, e.dst}, <<"carried alone", {e.src, e.dst} \cap at>>) :
            e \in split}

\* CheckSplitContradiction, of the rows of one declared set.  Of a correction that goes
\* one way only the corrected end standing alone is reported.
SplitContradictions(g, rows) ==
    LET at == Carried(g, rows)
        live(id) == Lookup(g, id) # None => g.nodes[Lookup(g, id)].status \notin Dead
        split == {e \in g.edges : /\ e.type \in {"contradicts", "supersedes"}
                                  /\ (e.src \in at) # (e.dst \in at)
                                  /\ live(e.src) /\ live(e.dst)
                                  /\ e.type = "supersedes" \/ e.one_way => e.dst \in at}
    IN  {Warning("split-contradiction", {e.src, e.dst}, <<"carried alone", {e.src, e.dst} \cap at>>) :
            e \in split}

-----------------------------------------------------------------------------
(* Rules and acceptance. *)

\* ApplyRules: a rule may raise or silence a warning, and never touches an error.
ApplyRules(rules, findings) ==
    {IF f.severity = "warn" /\ f.check \in DOMAIN rules /\ rules[f.check] = "error"
     THEN [f EXCEPT !.severity = "error"] ELSE f :
        f \in {f \in findings :
            ~ (f.severity = "warn" /\ f.check \in DOMAIN rules /\ rules[f.check] = "off")}}

\* Mutant of FindingKey: a finding is known by what it names.
MutantNamesOnly(g, f) == <<f.check, f.subjects>>

\* findingKey: the rule, and the hash of every subject.
FindingKey(g, f) ==
    <<f.check, f.subjects, [id \in f.subjects \cap DOMAIN g.nodes |-> SemHash(g, id)]>>

Keyed(f) == f.check # ""

\* Honoured.
Honoured(a) == a.by \in People

\* Partition: the findings somebody's acceptance hides.  The last line on a key counts.
Accepted(g, ledger, findings) ==
    {f \in findings :
        /\ f.severity = "warn" /\ Keyed(f)
        /\ \E i \in DOMAIN ledger :
              /\ ledger[i].key = FindingKey(g, f) /\ Honoured(ledger[i])
              /\ \A j \in (i + 1)..Len(ledger) : ledger[j].key # ledger[i].key}
=============================================================================
