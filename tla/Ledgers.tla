------------------------------ MODULE Ledgers ------------------------------
(***************************************************************************)
(* The ledgers beside a corpus (attest.go, accepted.go): verdicts on       *)
(* citations, given at the command line, at the workbench (verify.go) or   *)
(* on another machine, and warnings people have accepted; while the facts  *)
(* are written to and documents are read again.                            *)
(*                                                                         *)
(* The corpus is GraphCheck's.  A write is refused when the graph would    *)
(* not build (Builds) or a check reports an error.                         *)
(***************************************************************************)
EXTENDS GraphCheck, Checks

CONSTANTS
    Rules,          \* the rules an index may have
    Declared,       \* its standing queries, in the groups that make a document
    Rewordings,     \* what may become of a text: pairs of a node and what it says
    FirstReading,   \* what is read in each document at first
    Readings,       \* and what may be read there later
    Foldings,       \* bound: pairs of a node and what it may be folded into
    Ruled,          \* bound: pairs of a fact and a source that are ruled on
    MaxTouches,     \* bound: verdicts, edits of the corpus and documents read again
    MaxAccepts      \* bound: acceptances

ASSUME DeclaredAssumption == Declared \subseteq SUBSET Forms

ASSUME TextsAssumption ==
    /\ \A corpus \in Corpora : \A id \in DOMAIN corpus.nodes :
          corpus.nodes[id].kind \in ToSet(Kinds) /\ IsText(corpus.nodes[id].says)
    /\ \A r \in Rewordings : IsText(r[2])

VARIABLES
    rules,      \* the rules of this index
    texts,      \* what is read in each document
    verdicts,   \* attestations.jsonl
    ledger,     \* accepted.jsonl
    printed     \* the findings of the last scan, until one is accepted

ledgerVars == <<rules, texts, verdicts, ledger, printed>>
corpusAndLedgers == <<vars, ledgerVars>>

Set == ResolvedVerdicts(verdicts)

-----------------------------------------------------------------------------
(* What a load and a scan report. *)

Clean(g) == Errors(GraphFindings(g, Set)) = {}

\* The answers to declared queries, of those that have one.
AnswersTo(g, queries) ==
    {a.ids : a \in {a \in UNION {Answers(g, q, NoDate) : q \in queries} : a.ok}}

DeclaredAnswers(g) == AnswersTo(g, UNION Declared)

\* DeclaredSets: what each group's document holds.
DeclaredSets(g) == {UNION {ToSet(ids) : ids \in AnswersTo(g, group)} : group \in Declared}

\* loadIn: the rules are applied to what the load itself reports.
LoadFindings(g) ==
    ApplyRules(rules, GraphFindings(g, Set)
                      \cup (UNION {SplitContradictions(g, rows) : rows \in DeclaredSets(g)}))

\* ExcerptDiags.
ExcerptFindings(g) ==
    LET state == [key \in DOMAIN Set |-> ExcerptState(g, texts, Set[key])]
    IN  {Finding("attested-excerpt-moved", IF state[key] = "unreadable" THEN "warn" ELSE "error",
                 {key[1], key[2]}, <<state[key], {key[1]}>>) :
            key \in {key \in DOMAIN Set : state[key] \notin {"unpinned", "intact"}}}

\* cmdScan adds what it finds itself to what its load reported, past the rules.
ScanFindings(g, reported) == reported \cup ExcerptFindings(g)

\* What a finding says, of which facts and relations.  Which end of a dispute a document
\* carries is not of the facts alone, and which name they share, when a third one had it too.
Situation(g, f) ==
    [check |-> f.check, subjects |-> f.subjects,
     words |-> IF f.check \in {"split-contradiction", "alias-ambiguous"} THEN << >> ELSE f.says,
     facts |-> [id \in f.subjects \cap DOMAIN g.nodes |-> g.nodes[id]],
     relations |-> {e \in g.incident : {e.src, e.dst} \cap f.subjects # {}}]

-----------------------------------------------------------------------------
(* Actions. *)

InitLedgers ==
    /\ Init
    /\ rules \in Rules
    /\ texts = FirstReading
    /\ verdicts = << >>
    /\ ledger = << >>
    /\ printed = {}
    /\ Clean(graph)

\* A write to the corpus.
Rewrite ==
    /\ \/ \E p \in DOMAIN draft : Relate(p)
       \/ \E id \in DOMAIN nodes :
            \/ nodes[id].status # "withdrawn" /\ Withdraw(id)
            \/ \E into \in DOMAIN nodes : <<id, into>> \in Foldings /\ Retire(id, into)
            \/ \E r \in Rewordings : r[1] = id /\ nodes[id].says # r[2]
                                     /\ Write(id, [nodes[id] EXCEPT !.says = r[2]])
    /\ acts' + Len(verdicts) <= MaxTouches
    /\ UNCHANGED ledgerVars
    /\ \E written \in {graph'} : Clean(written)

Record(a) ==
    /\ acts + Len(verdicts) < MaxTouches
    /\ verdicts' = Append(verdicts, a)
    /\ UNCHANGED <<vars, rules, texts, ledger, printed>>

\* `kg attest`: any id the graph knows, and without a signature the last person's.
Attest(key, verdict, by) ==
    /\ Lookup(graph, key[1]) # None
    /\ Lookup(graph, key[2]) # None
    /\ graph.nodes[Lookup(graph, key[2])].kind = "source"
    /\ LET a == Verdict(key[1], key[2], verdict,
                        IF by = Unsigned THEN LastHumanSigner(verdicts) ELSE by,
                        graph.nodes[Lookup(graph, key[1])].says.quote)
       IN  MayBeRecorded(a) /\ Record(a)

\* The workbench: a citation of the queue, under the session's signature, which no
\* machine's may be; the words it is about are not recorded.
RuleAtWorkbench(key, verdict, session) ==
    /\ key \in PendingHuman(graph, Set)
    /\ LET a == Verdict(key[1], key[2], verdict, session, 0)
       IN  MayBeRecorded(a) /\ Record(a)

\* A line of another machine, which may run an old binary, is synced in.
Sync(key, by) ==
    /\ key \in {<<e.dst, e.src>> : e \in AllCitations(graph)}
    /\ Record(Verdict(key[1], key[2], "unsupported", by, 0))

\* A document is read again.
Reread(reading) ==
    /\ acts < MaxActs
    /\ acts + Len(verdicts) < MaxTouches
    /\ acts' = acts + 1
    /\ texts # reading
    /\ texts' = reading
    /\ UNCHANGED <<nodes, draft, stated, graph, rulings, rules, verdicts, ledger, printed>>

\* `kg scan`, as long as something may still be accepted.
Scan(reported) ==
    /\ Len(ledger) < MaxAccepts
    /\ printed' = {[key |-> FindingKey(graph, f), situation |-> Situation(graph, f)] :
                     f \in {f \in ScanFindings(graph, reported) : Keyed(f)}}
    /\ UNCHANGED <<vars, rules, texts, verdicts, ledger>>

\* What can be accepted: a key that a load reports now, as a warning.
Acceptable(reported) ==
    {FindingKey(graph, f) : f \in {f \in reported : Keyed(f) /\ f.severity = "warn"}}

\* `kg accept`, of a key that was printed.  Whoever accepts again scans again.
Accept(reported) ==
    /\ Len(ledger) < MaxAccepts
    /\ printed # {}
    /\ \E key \in {p.key : p \in printed} \cap Acceptable(reported), by \in People \cup Machines :
          ledger' = Append(ledger, [key |-> key, by |-> by,
                       saw |-> {p.situation : p \in {p \in printed : p.key = key}}])
    /\ printed' = {}
    /\ UNCHANGED <<vars, rules, texts, verdicts>>

NextLedgers ==
    \/ Rewrite
    \/ \E reading \in Readings : Reread(reading)
    \/ \E key \in Ruled, verdict \in {"confirmed", "unsupported"} :
          \/ \E by \in People \cup Machines \cup {Unsigned} : Attest(key, verdict, by)
          \/ \E by \in People \cup {Unsigned} : RuleAtWorkbench(key, verdict, by)
    \/ \E key \in Ruled, by \in Machines \cup {Unsigned} : Sync(key, by)
    \/ \E reported \in {LoadFindings(graph)} : Scan(reported) \/ Accept(reported)

LedgersSpec == InitLedgers /\ [][NextLedgers]_corpusAndLedgers

-----------------------------------------------------------------------------
(* Properties. *)

\* "Accepting is accepting THIS SITUATION, so any edit to a fact the finding names yields
\* a different key and the finding returns on its own" (findingKey): whatever a scan does
\* not print because it was accepted, a person accepted who had been shown it, of these
\* very facts and relations and in the same words.
SilencedIsWhatWasSeen ==
    LET g == graph
    IN  \A f \in Accepted(g, ledger, ScanFindings(g, LoadFindings(g))) :
          \E i \in DOMAIN ledger :
             ledger[i].by \in People /\ Situation(g, f) \in ledger[i].saw

\* "Everything read by machine accumulates here, and the list only shrinks when a human
\* works it" (PendingHuman): a citation leaves the list when a person rules on it, or when
\* its fact is withdrawn or something it is stated of comes to be another.  A source that
\* cites itself is left out: any merge drops what relates a fact to itself.
QueueShrinksByHand ==
    [][\A key \in PendingHuman(graph, Set) \ PendingHuman(graph', Set') :
          \/ /\ Len(verdicts') > Len(verdicts)
             /\ LET a == verdicts'[Len(verdicts')]
                IN  <<a.fact, a.source>> = key /\ a.by \in People
          \/ nodes'[key[1]].status = "withdrawn"
          \/ \E id \in DOMAIN nodes : /\ Lookup(graph, id) \in {key[1], key[2]}
                                      /\ Lookup(graph', id) # Lookup(graph, id)
          \/ key[1] = key[2]]_corpusAndLedgers

Ahead(list, j, k) ==
    \E m \in DOMAIN list : \E n \in DOMAIN list : m < n /\ list[m] = j /\ list[n] = k

\* "A queue that reorders between runs cannot be worked down a screen at a time"
\* (RankPending): a ruling leaves what else is on the list in the order it was in.
QueueKeepsItsOrder ==
    [][graph' = graph /\ texts' = texts =>
          LET before == PendingHuman(graph, Set)
              after == PendingHuman(graph, Set')
          IN  \A absent \in AbsentQuotes(graph, texts), used \in {UsedBy(graph, DeclaredAnswers(graph))} :
                \A was \in {RankPending(graph, before, absent, used)},
                   is \in {RankPending(graph, after, absent, used)} :
                  \A j, k \in before \cap after :
                     /\ Ahead(is, j, k) <=> Ahead(was, j, k)
                     /\ j # k => Ahead(was, j, k) # Ahead(was, k, j)]_<<vars, texts, verdicts>>

\* "WITHOUT IT A VERDICT OUTLIVES THE WORDS IT WAS ABOUT" (Attestation): of a verdict that
\* was recorded with its words and that a scan does not report, the fact has not come to
\* quote others, whatever it was folded into, and the document is not read otherwise.
VerdictStandsOverItsWords ==
    LET g == graph
        reported == {f.says[2] : f \in ExcerptFindings(g)}
    IN  \A key \in DOMAIN Set :
          LET fact == Lookup(g, key[1])
              source == Lookup(g, key[2])
          IN  Set[key].excerpt # 0 /\ {key[1]} \notin reported =>
                /\ g.nodes[fact].says.quote \in {0, Set[key].excerpt}
                /\ g.nodes[source].says.doc # None =>
                      Set[key].excerpt \in texts[g.nodes[source].says.doc]

\* "Two copies of one fact share their whole token set, so they share their rarest tokens,
\* so they always meet in a bucket", and the bounds that lose coverage "SAY SO"
\* (checkDuplicates): two facts of a kind with the same words, and not related, are each
\* named in a warning, unless it is said that not everything is listed or compared.
TwinsAreNamed ==
    LET g == graph
        findings == CheckDuplicates(g)
    IN  \/ \E f \in findings : f.says[1] \in {"more not listed", "not everything compared"}
        \/ \A id, x \in DOMAIN g.nodes :
              /\ id # x
              /\ g.nodes[id].kind = g.nodes[x].kind
              /\ g.nodes[id].says.words = g.nodes[x].says.words
              /\ g.nodes[id].says.words # {}
              /\ ~ Linked(g, <<id, x>>)
              => \E f \in findings : id \in f.subjects \cup (IF f.severity = "error" THEN f.says[2] ELSE {})

\* "A person rules on a THING rather than on a pair" (DupCluster): two records are in one
\* cluster just when a chain of pairs leads from one to the other, so that each is in every
\* set that has the other and, of any pair, both or neither.
ClustersAreThings ==
    LET g == graph
        pairs == {{p[1], p[2]} : p \in ToSet(PairsToRule(g))}
        ids == UNION pairs
        closed(S) == \A p \in pairs : p \cap S # {} => p \subseteq S
        thing(id) == {x \in ids : \A S \in SUBSET ids : id \in S /\ closed(S) => x \in S}
    IN  Clusters(g) = {thing(id) : id \in ids}

\* Of the claims in a set that another contests, the other is in the set or the pair
\* is among those reported.
CarriedOrReported(g, rows, carried, reported) ==
    \A id \in rows : \A o \in Opponents(g, id, NoDate) :
        g.nodes[id].status \notin Dead => o \in carried \/ {id, o} \in reported

DisputeIsCarriedIn(g, rows) ==
    CarriedOrReported(g, rows, Carried(g, rows), {f.subjects : f \in SplitContradictions(g, rows)})

\* "The defect is one LIVE fact whose live correction the reader cannot see"
\* (CheckSplitContradiction): of a claim in a declared set that another contests
\* (conflict), the other is carried in that set too, or the pair is reported: that
\* another set carries it does not count.
DisputeIsCarried == \A rows \in DeclaredSets(graph) : DisputeIsCarriedIn(graph, rows)
=============================================================================
