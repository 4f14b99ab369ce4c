# A verification development for kgraph

kgraph keeps facts as an append-only log of assertions, folds the log into a
graph of claims, questions, sources and relations, and answers queries over it
from a command line, a review server and a long-lived daemon.  This directory
holds TLA+ modules of the parts where order, concurrency or failure decide
whether that is right, the TLC configurations that check them, and proofs for
TLAPS.  `PROJECT.json` lists every run, the source lines each definition stands
for, the hazards of the code and the divergences found.

To check a run: `tlc -config WriteOps.cfg MCWriteOps.tla`; to check the proofs of a
module: `tlapm CorpusProofs.tla`, and likewise the other modules named `...Proofs`.

## 1. The system

| Component | State it keeps | Operations | Hard behaviour | What makes it correct |
|---|---|---|---|---|
| Store (`store.go`) | table `assertion(idx, seq, at, ...)` | `Append`, `All`, open, migrate | several processes share the database; `MAX(seq)+1` races; lost replies | numbers dense and unique per index, nothing acknowledged is lost, nothing is rewritten, every call ends |
| Log and fold (`assert.go`, `graph.go`) | none: pure | `FoldAssertions`, `LastFields`, `buildGraph` | clocks that disagree, arrival order, repeated lines | last write per id wins by (at, position), whatever the arrival order |
| Write operations (`write.go`, `Amend`) | none between calls | assert, withdraw, retire, correct, answer, amend | validation and append are two steps, a batch is several appends | a log that loads still does after a write that met nobody; the lines of a batch that broke off are the first ones |
| Export and import (`store.go`) | `facts.jsonl` | `ExportJSONL`, `ImportJSONL` | racing exporters, power loss, broken-off imports | the file is whole, is a past state of the store; an export over its own file loses no line |
| Scope cache (`registry.go`) | loaded scopes and their fingerprints | `Get` | files change while they are loaded | an answer from the cache is what a load would give |
| Change notification (`watch.go`, `ui.go`) | watchers, subscribers' channels | `Watch`, cancel, the poller | two locks, channels closed by their readers, full channels | one poller per scope while it is wanted, no change unnoticed, no panic |
| Graph build (`graph.go`, `kfacts.go`, `dupes.go`) | the graph | merge, references, aliases, duplicates and their clusters, groups, branches, findings | retirements and references interact; comparisons are cut short | folding duplicates loses no fact and no reference; twins are named or the cut is |
| Evaluation and queries (`query.go`, `eval.go`) | none: pure | patterns, set operations, named queries, dates, sums, groups | nesting, cycles, lapsed and withdrawn members, the order sets are combined in | an answer is what the query describes, in one order; nothing holds by a circle alone |
| Conflict and taint (`conflict.go`, `taint.go`) | none: pure | tension, impeachment, taint | circles, two ends of one relation | a contradiction is seen from both ends, an open question is not missed |
| Pins and what-if (`diff.go`) | none: pure | `DiffPins`, `Clone`, `WhatIf`, variants | retired and re-stated nodes, a clone that copies only some fields | what moved is said; what is tried is what would be |
| Standing queries (`standing.go`) | `standing.yaml` | add, rm, `Ask`, `Acknowledge` | read-modify-write of a file by two commands, a file emptied by one that died | an answer reported fresh was accepted as it is |
| Ledgers (`attest.go`, `accepted.go`, `verify.go`, `excerpt.go`) | `attestations.jsonl`, `accepted.jsonl` | append, fold, triage, silence | last line wins between people and machines; keys outlive what they were about | only a person takes work off the list, and only what was seen is silenced |
| Loading (`scan.go`, `index.go`) | fact files, exports, databases, markers | discovery, the choice between store and export | nested indexes; each of three sources may be missing | a corpus that has gone dark says so |
| High-water mark (`highwater.go`) | one file | write, check | unlocked read-compare-write | as above |
| Source locks (`sources.go`, `repair.go`) | `sources.lock` files | lock, state, relocate | documents change, move, vanish | drift is not cleared by accident, a moved document is found |
| Migration (`store.go`, `migrate.go`) | the schema and the rows | open, migrate facts | opening creates; fact files stay | every entry is in the store once it is read from there |
| Front ends (`cmd/kg`, `daemon.go`, `mcp.go`) | none | flags, HTTP, JSON | - | call the operations above |
| Document text (`quotes.go`, `have.go`, ...) | none | matching | natural language | only where it decides what is reported |

How they meet: the write operations read the log through the store, fold it and
build the graph to validate, and append through the store; after a write the
command exports the log; a load folds the store (or the exported file where
there is no store) and builds the graph; the daemon caches what a load gave and
compares fingerprints of files; watchers poll the same fingerprints and ask the
cache which documents the loaded graph declares.

## 2. Modules

| Module | Models | Used by |
|---|---|---|
| `AppendOnlyLog` | what the store promises: one append-only sequence per index | `SeqAppend` (refinement) |
| `SeqAppend` | `sqlStore.Append`, a step per SQL statement | run `seq_append` |
| `SeqAppendProofs` | theorems about `SeqAppend` | TLAPS |
| `FoldOrder` | the order a log is read in: by time, then by arrival | `FactLog`, `LogExport` |
| `FoldOrderProofs` | lemmas: that order is a permutation, sorted, stable, and grows as the log does; induction over the naturals | the proof modules that need them |
| `FactLog` | a log, its fold, `LastFields`, whether the document builds | `FoldCheck` |
| `FoldCheck` | every log of any lines | run `fold`; `WriteOps` |
| `WriteOps` | `write.go` and `Amend`: prepare, stamp, check, append line by line | run `write_ops` and four divergences |
| `WriteOpsProofs` | theorems about `FoldCheck` and `WriteOps` | TLAPS |
| `LogExport` | `ExportJSONL`, `ImportJSONL`, the file and the disk under it | run `log_export` and one divergence |
| `LogExportProofs` | theorems about `LogExport` | TLAPS |
| `ScopeCache` | `Registry.Get`: fingerprint, load, second fingerprint | `Watch` |
| `Watch` | `watch.go` composed with `ScopeCache` | run `daemon` and three divergences |
| `WatchProofs` | theorems about `Watch` and the cache in it | TLAPS |
| `FactGraph` | `merge`, `dedupeEdges`, `checkRefs`, `Lookup`, names: nodes and relations as one record | `Evaluation` |
| `Evaluation` | satisfaction, `edgeLive` and `Taint` on such a graph | `Tension` |
| `Tension` | conflict, impeachment, and what a ruling on a citation takes away | `GraphCheck`, `Query` |
| `GraphCheck` | a graph that is written to, one assertion or ruling at a time | run `graph`; `QueryCheck`, `Standing`, `Ledgers` |
| `Query` | patterns, hops, set operations, names, dates, sums, order of an answer | `Pins` |
| `Pins` | pins and their differences, `Clone`, `WhatIf`, variants | `QueryCheck`, `Standing`, `Verdicts` |
| `QueryCheck` | questions asked of the graphs of `GraphCheck` | run `query` and two divergences |
| `Standing` | `standing.yaml` and the commands that rewrite it, over `GraphCheck` | run `standing` |
| `Duplicates` | the search for near twins, same documents, clusters | `Checks` |
| `Verdicts` | verdicts on citations, what a person still has to look at, quotations and excerpts | `Checks` |
| `Checks` | every finding about a graph, rules over findings, acceptance of findings | `Ledgers` |
| `Ledgers` | people, machines and documents around both ledgers, over `GraphCheck` | run `ledgers` |
| `CorpusProofs` | theorems about `GraphCheck`, `Standing` and `Ledgers` | TLAPS; `AskingProofs` |
| `AskingProofs` | theorems about `QueryCheck` | TLAPS |
| `Loading` | which index a file belongs to, store or export, the high-water mark | `Sources` |
| `Sources` | where documents are, locks, states, relocation | `Project` |
| `Project` | the commands on a project's files, and what happens to the files | run `project` and two divergences |
| `ProjectProofs` | theorems about `Project` | TLAPS |

`MC*` modules give the constants values.  Definitions named `Mutant...` are
plausible bugs of the definition below them; each property is violated when the
one named in `PROJECT.json` takes that definition's place.

### Correspondence

**SeqAppend.**  `rows` is the table; `next` and `attempt` are the locals of
`Append`; `pc` is the statement about to run.  `Begin`, `ReadMax`, `Insert`,
`Duplicate` and `Reread` follow the loop; `Fail` is any other error of a
statement, the death of the process, and the INSERT whose reply is lost.
`outcome` and `base` are history.  What a row says is opaque, so it carries the
call that wrote it.

**FactLog.**  Fields are reduced to kind, words, status, `supersedes`, `answers`
and `same_as`: what the write operations author and the checks they can fail
read.  `ApplyLine` is one turn of the loop of `FoldAssertions`; `Builds` is what
`buildGraph` reports as errors for those fields (`checkIdiom`, `merge`,
`checkRefs`, `checkDuplicates`).

**WriteOps.**  An operation prepares a batch (`Correct` stamps its own lines,
`AnswerQuestion` and `Amend` read the log for it), `Stamp` is the loop of
`Apply` that fills in times and validates, `Check` its fold and build,
`AppendLine` one `Store.Append`, and `AppendFails`/`Crash` what may happen
instead.  `read` in a record of `act` is history: how long the log was when the
operation began.

**LogExport.**  `file` is what a reader sees, `disk` what a power loss leaves;
an entry is a line and the hand that spelled it.  `ReadStore` to `Rename` are
the steps of `ExportJSONL`; `Content` is `keptPrefix` and what is written after
it.  A corpus begins with any store beside any file (`Starts`): this store's export,
one that was edited, a clone's whose store is empty, or none.  `Projects` says that a
file is this store's export.  `found` is history: the file an export began over, where
it was such a one.

**ScopeCache and Watch.**  A file is a version number.  `Declaring` says which
versions of the facts declare the evidence document; `Fingerprint` takes the
document into account only where it is known to be declared.  `lock` is the
registry's mutex; steps under a watcher's mutex are atomic.  A poller asks the
registry which documents are declared (`Ask`), fingerprints the files with no lock held
(`Sweep`), compares and takes the snapshot of its subscribers (`Compare`); `Send` is one send of the loop after the mutex was let go.  A call of
`Get` that hits changes nothing, so it is no action: `WouldHit` says when.
Resolving a directory to a key, and remembering the project for the next start
(`Remember`), are left out: the module has one key.  `torn` and `looked` are
history.

**FactGraph, Evaluation, Tension.**  A graph is the record `Build` makes of the
nodes and of the relations in document order; `incident` holds the relations
between nodes there are, which is what every algorithm walks.  Dates are small
numbers with 0 for none, a source's class is its rank.  The evaluator is a
recursive function with its `seen` set as in the code; `asked` is the stack of
`Satisfied` calls in progress, since `edgeLive` starts a new one with an empty
`seen`: a question that is asked again below itself is one whose recursion does
not return, and its outcome is "diverges".  What a node says (`says`) is a few
numbers: equal texts are equal numbers, words are members of a set.  Left out:
relations of a fact to itself.

**GraphCheck.**  `nodes` is what the log folds to and `stated` which relations of
`draft` it holds; every action is one accepted assertion (`Relate`, `Withdraw`,
`AssertAgain`, `Retire`) or one line of the attestation ledger (`Rule`).  A write whose
graph has an error is refused, as `Apply` does, so `graph` is always one that
builds; it is kept in a variable because every property reads it.  A relation is
never taken back: withdrawing one gives the state before it was stated.
`Depends`, `Follows`, `Basis` and `Acyclic` are the declarative side of the
properties and model no code.

**Query, Pins, QueryCheck.**  A query is its syntax tree, and `Syntax` lists the
queries there are, each after its parts; the evaluator is a recursive function of a
query, the names it is inside of and the date it inherits.  The calendar is a small
one with what matters of the real one: months of eight and of seven days, three to a
year, so that a day may be missing from the month, or the year, that an offset leads
to and is then one of the month after, as `time.AddDate` has it.  A date `10*m + d` is
a day of month m and `10*m` the whole month.  An offset is a sequence of signed terms
in days, months and years, added in turn; one in another unit gives no date.  A set of answers stands for what the map
iteration of a complement may give; a query whose names go round is refused and
its answer is not ok.  `AnswersMeanWhatTheySay` compares the evaluator, which
pushes scopes down and combines sets as the query is written, with `Means`, a
predicate on one node at a time.  A window may be written to end before it begins, as
the parser takes it; nothing is in it but a month that holds both its ends.  `WhatIf` and `Variant` are compared with the
graph a later write would load.

**Standing.**  A command loads, reads the file and decides (`Edit`), then empties
the file (`Empty`: `os.WriteFile` truncates) and fills it (`Fill`); it may die in
between.  Two may run at once.  `accepted` is history.  A hash is what it is
taken of.

**Duplicates, Verdicts, Checks, Ledgers.**  A finding is the check, its severity,
the facts its key is made of and what its message tells apart.  `Record` is
`AppendAttestation` from wherever it is called: the command line records the
words the citation has, the workbench none, another machine whatever it likes.
`printed` is what the last scan showed; `Accept` accepts one of those.  The four
bounds of the comparison (`IndexTokens` to `MaxNearReports`) are constants of the
code, made small enough to be reached.

**Loading, Sources, Project.**  A directory is a sequence of names, a document a
path and its bytes.  `DirLength` is how long a directory's path is written, by which
the code chooses the one an index is in (`IndexDirOf`); no two of them are as long here,
since which of those the code takes is left to the order of a map.  A log of this module
holds assertions and no withdrawals, folded by time and place.  The three sources of facts of each index (fact files,
exported logs, the database) may each be there or not; `Opened` is the empty
database every command that opens the store leaves behind.  A scan raises the
mark in two steps (`ReadMark`, `WriteMark`), every other command is one: one
person works on a project's files at a time.  `marked` is history.

## 3. What the runs show

| Run | Bounds | Shows |
|---|---|---|
| `seq_append` | 3 handles, 2 of them on one of 2 indexes; 2 calls each; 1 retry | types, density and uniqueness, no loss, giving up only on real contention, append-only, refinement of `AppendOnlyLog`, every call returns |
| `fold` | all logs of up to 4 lines, 2 ids, 2 timestamps, 2 facts | last write wins, whatever the arrival order; a repeated or broken-off import changes nothing |
| `write_ops` | 2 writers, 2 ids, a claim and a question, acts start on logs up to 3 lines (up to 1 line beside another writer), 2 seconds, timestamps to 3 | of a batch that broke off, beside any other writer, the first lines are in the log and no later one without them; a batch that met nobody, and takes no question's id, keeps the log loadable; a correction that met nobody, and that no line about its facts is stamped after, takes effect |
| `log_export` | 2 exporters, 1 importer, store of up to 3 rows; over its own export spelled by another hand, an edited file, a clone's and none | the file is the first one or whole and a past state of the store; an export over the store's own export that met no other loses no line, and moves no byte while the log begins with the file's lines |
| `daemon` | 3 subscribers, 2 pollers, 1 request, channel of 1, 1 edit of each file | at most the registered poller runs, and only while wanted; no change is lost to a full channel; a cached scope is current unless files moved during its load |
| `graph` | up to 5 nodes, 3 relations out of 5 to 9, 1 further act, dates 0 to 2; corpora about groups in circles, evidence both ways, duplicates | folding loses nothing; what holds is the least set that follows from itself; only a membership's own condition can make the evaluator recurse for ever; an unreported question decides nothing; a contradiction is mutual |
| `query` | 4 or 5 nodes, up to 3 relations, 1 further act, 13 queries on 3 days, 4 fragments tried; windows both ways; offsets of days, months, a year less three days, and one that does not parse | answers, computed dates and scratch graphs, against what they should mean |
| `standing` | 2 commands, 1 question in 2 wordings, 2 days, 2 relations, 3 edits | nothing reported fresh was not accepted; nothing but a source's own words moves unsaid |
| `ledgers` | up to 5 nodes, 3 relations, 2 verdicts, edits or readings, 1 acceptance; comparison cut at 2 lists, 4 records, 4 comparisons; 2 declared sets | silence, the queue, excerpts, twins, clusters, carried disputes |
| `project` | 2 nested indexes in 3 directories, 3 sources, 5 places, one of them in a directory the repair skips, 3 acts, 2 scanners; an unmigrated corpus, a clone, one in use | dark corpora, drift, vanished documents, moved documents |

Each bound is the smallest at which the case in question happens and one more
where time allows: a correction of a correction needs a log of three lines before it, and a
clock of 2 to be settled; an answer under another question's id needs two ids; giving up with one retry needs two rows of another handle during
one call; two groups that contain each other and a member, or two attested
claims that contradict each other, need three relations; a lapse needs a date
before and one after; a watcher taken out of the registry by the wrong subscriber needs
three subscribers and two pollers; a full channel needs a capacity of 1 and two
notices; a text that goes to and fro between two wordings needs three edits of
`standing.yaml`; a third act is needed to lose a database after a migration and
a scan.  `CHECK_DEADLOCK FALSE` is set where the bounds (calls, lines, edits)
let a run end; `log_export` never ends.

Symmetry: the exporters, the subscribers, the writers, the commands on
`standing.yaml` and the ids of the log are interchangeable in the runs that say
so; those runs check no liveness.

Fairness is assumed in one place: `SeqAppend!FairSpec` has weak fairness on the
steps of a call in flight (the Go runtime runs it and the database answers).
Nothing makes anybody call.

### Divergences

Twelve properties state what a comment of the code says and what the code does not
do.  Two are runs of `PROJECT.json`; the others are checked by hand,
`tlc -config X.cfg M.tla`, which ends in a counterexample.  "In place of" means in a
copy of the configuration, where the property named replaces those there.

| Configuration, module, property | What the code does | What it says |
|---|---|---|
| `WatchPanic.cfg`, `MCWatch`, `PollerSurvivesLeaving` (run `daemon_panic`) | a subscriber leaving during a notification panics the daemon: a send on the channel it closed | `watch.go`, see the finding |
| `ExportOverClone.cfg`, `MCProject`, `ExportLosesNothing` (run `export_over_clone`) | an export of an index that loads from its exported log replaces that log by an empty one, since opening the store has just created one; that a log is replaced by a store with rows of its own is meant (`exportappend_test.go:84-108`) | `main.go:2157`: "an audit trail, a backup, and the portable form" |
| `WriteOps.cfg`, `MCWriteOps`, `LogBuilds` in place of the invariant | two writers each validate against a log without the other's line (`write.go:58`) and both append: the index does not load | `write.go:38-39` |
| `WriteOps.cfg`, `MCWriteOps`, `BatchesLandWhole` in place of the properties | a batch whose second append fails, or whose process dies, stays in the log by half: a fact withdrawn with nothing in its place, a question answered and still open (`write.go:72-79` appends line by line and says so at `write.go:75-78`) | `write.go:41-44`: "ALL OR NOTHING ... a half-applied correction leaves a fact withdrawn with nothing standing in its place, which is strictly worse than the wrong fact it was fixing.  So the whole batch is validated together and written together" |
| `WriteOps.cfg`, `MCWriteOps`, `EveryUncontendedWriteBuilds` in place of the properties | an answer may be given under the id of the question (`write.go:164-186` does not refuse it); the half of that batch that a failure leaves is a log that does not load | `write.go:38-39`: "appends them only if the resulting graph builds" |
| `WriteOps.cfg`, `MCWriteOps`, `CorrectionTakesEffect` in place of the properties | a line stamped later than the correction's withdrawal sorts after it and the old fact stands: another writer's, or the replacement that an earlier correction stamped a second ahead (`write.go:134`) | `write.go:102-103` |
| `LogExportStale.cfg`, `MCLogExport`, `ExportKeepsLines` | an exporter holding an old snapshot takes lines out of the file (`store.go:631`) | `store.go:525-527` |
| `ScopeStale.cfg`, `MCWatch`, `HitIsCurrent` | an assertion does not move the fingerprint (`registry.go:150`), so the daemon serves the old graph | `registry.go:115` |
| `Watch.cfg`, `MCWatch`, `HitIsCurrent` in place of the invariants | a file changes between its load and the second fingerprint (`registry.go:254`): the old scope is served under the new fingerprint until the next change | `registry.go:115` |
| `Query.cfg`, `MCQuery`, `EveryDeadlineMoves` in place of the invariants | a month or a year from the last day of a month may be the same day as from the day after it (`eval.go:873-919`, `time.AddDate`): 2024-02-29 and 2024-03-01 and a year are both 2025-03-01, and the deadline stays | `eval.go:837-838`: "A deadline derived from its basis moves when the basis is corrected" |
| `Query.cfg`, `MCQuery`, `EveryScratchForetells` in place of the invariants | `Clone` and `WhatIf` (`diff.go:202-273`) neither fold a proposed fact into another nor register its names, as the graph built after the commit does | `diff.go:232-233`: "the blast radius of a fact can be seen BEFORE it is committed" |
| `Project.cfg`, `MCProject`, `ProposalsStayInside` in place of the invariant | the repair of an outer index walks into the indexes nested in it (`repair.go:95-104`), and that of an index without fact files or exports of its own walks the root: it proposes documents of another index | `repair.go:50-53`: "Only files INSIDE the index are considered ... citing across that seam is the thing indexes exist to prevent" |
| `GraphRuling.cfg`, `MCGraph`, `RulingReachesConflict` | a citation ruled unsupported still makes a fact disputed (`conflict.go:280`) | `graph.go:1094-1097`, `attest.go:265-267` |

The passing runs say what does hold beside each: `UncontendedWriteBuilds`,
`SettledCorrectionTakesEffect`, `HalvesComeInOrder`, `UnracedExportExtends`,
`HitIsCurrentUnlessTorn`, `DeadlinesMoveWithTheirBasis`, `ScratchForetells`,
`MoveIsFound`.

Behaviours the modules have, or that were met while modelling, and no property
calls wrong:

- Writing.  `Amend` of a withdrawn fact makes it live again (it restates the last
  assert).  A failed batch reports "wrote n of n" however many lines landed
  (`write.go:78`).  The review page's cite reads the last fields and amends outside
  a transaction (`verify.go:377-396`).  A write is followed by no automatic export.
- Evaluation.  A membership whose own `while` rests on the group it is a membership
  of sends the evaluator into an endless recursion.  A source whose speaker or
  premise is to be retired makes the retirement refused, because `merge` rewrites
  neither.  Named queries are validated under the legal dialect.  `Clone` keeps neither the retired ids nor the
  ladder, and leaves the names as they were.
- Loading.  Attestations and relations are read beside the fact files (the root when
  there are none) and written beside the graph's nodes (`scan.go:193-223`).  An index
  with a marker and a store and nothing else has no home, so what is exported or
  ruled there lands with the default index (`scan.go:150`).  An index declared under
  the name `default` shares the default index's database (`store.go:114`).  A mark
  that does not parse is an error of the load, and of two scans at once the smaller
  count can be the one that stays, though the mark "only ever goes UP"
  (`highwater.go:27`).
- Documents.  Migrating moves where a source is declared from, so a relative
  document may lead elsewhere, while `main.go:1776` has prose as the one thing not
  carried.  `../a` and `a` seen from one directory have one lock key.  Two locks at
  once lose one.  Repair may propose another source's copy of the same bytes; what it
  proposes is a text edit that finds no line where the facts are in the store (`main.go:555`).
- Standing questions.  `ask add` drops the ladder, the group and the purpose of a
  question that is there (`main.go:1616-1622`); `ask ack` asks again and records what
  comes back, not what was shown (`main.go:1641-1667`); a file emptied by a command
  that died reads as no questions.  `Invalidate` has no caller, and `evalCached`
  fills a map of the graph unsynchronised (`standing.go:363`).
- Ledgers.  A machine's later line replaces a person's ruling in the fold
  (`attest.go:307`).  The workbench records no words with a verdict
  (`verify.go:275-290`).  Keys are ids as they were given and are not rewritten when
  an id is folded (`main.go:1291-1300`).  `kg scan` adds findings after the rules were
  applied (`main.go:787-812`), and `kg accept` looks only among those of a load
  (`main.go:2042-2051`).  Two names that the same facts share make one key, since the
  key leaves out which name it is (`accepted.go:237-274`): with the first accepted, the
  second is never shown when the third bearer that made it another key goes away.
  Which end of a contradiction is carried is left out of the key likewise.  The order of the queue counts all citations of a source, dead
  ones among them (`attest.go:687`).

## 4. What is proved

Every theorem is of a specification as it stands, for every value of its constants
that the named assumptions of its module allow.  The bounds of section 3 are
constants too: the theorems hold for all of them.

| Module | Theorems | Assumptions | Is about |
|---|---|---|---|
| `SeqAppendProofs` | `TypeCorrect`, `NumbersAreDense`, `NoCallIsLost`, `GivingUpIsContention`, `RowsOnlyGrow`, `Implements` | `SeqAppendAssumption`: each handle is of an index, the bounds are numbers | any handles, indexes, retries and calls |
| `WriteOpsProofs` | `FoldIsLastWriteWins`, `ImportConverges` | `FactLogAssumption`, `AbsentIsNoNode`, `FoldCheckAssumption`: finitely many ids, markers for "none" are none | logs of any length |
| | `HalvesAreInOrder`, `UncontendedIsSafe`, `SettledCorrections` | those | any writers, facts, ids and logs |
| `LogExportProofs` | `FileIsWhole`, `ExportExtends` | `LogExportAssumption`: a file is lines and who spelled them, not there, or torn | any exporters, importers and store, over any first file |
| `WatchProofs` | `CacheIsCurrentUnlessTorn`, `OnePollerPerScope`, `NoPollerOutlivesItsClients`, `DroppedNoticesAreMadeUp` | `ScopeCacheAssumption`, `WatchAssumption`: a channel holds one notice at least | any requests, subscribers, pollers, edits, channels |
| `CorpusProofs` | `WhatWasSaidIsFound`, `FoldingBreaksNothing`, `NeitherSideIsQuiet`, `CyclesDoNotHang`, `TaintFindsEveryQuestion`, `NothingHoldsByItself` | `NoneAssumption`, `CorpusAssumption`: finitely many ids, corpora of facts | any facts, relations and order of writes |
| | `FreshIsAccepted`, `OnlySourcesMove` | those, and `AlphabetAssumption`, `SyntaxAssumption`, `StandingAssumption`: a finite order of the ids, queries made of earlier ones, "none" is no text | any questions, commands at once, dates and corpora |
| | `NoDisputeIsLeftOut`, `UnreportedVerdictsStand`, `OnlyHandsShrinkTheList`, `SilencedWereSeen` | the first two, and `DeclaredAssumption`: what is declared is a query | any people, machines, documents, rules and corpora |
| | `OrderIsAlwaysKept`, `ClustersAreWhole`, `CopiesAreNamed` | those, `AlphabetAssumption`, and `TextsAssumption`, `DuplicatesAssumption`: facts are of the kinds there are, their words finitely many and none without a text; a fact is on one list at least | any texts, rewordings, rulings and bounds of the comparison |
| `AskingProofs` | `AnswersAreWhatIsAsked`, `DeadlinesFollow`, `ScratchesForetell` | `NoneAssumption`, `CorpusAssumption`, `AlphabetAssumption`, `SyntaxAssumption` and `QueryCheckAssumption`: corpora dated by days and months or by offsets of any terms; what is tried are facts and relations of theirs | any queries, windows, named queries, corpora and clocks |
| `ProjectProofs` | `DarkIsSaid`, `RecordIsKept`, `DriftIsKept`, `MovedIsFound` | `LoadingAssumption`, `ProjectAssumption`: some index is marked at the root, paths have a length | any indexes, directories, lengths of their paths and documents |

`FoldOrderProofs` holds the lemmas about the order of a log, and the induction over
the naturals, that these rest on.  None of the properties is inductive by itself; what each proof adds:

**SeqAppend.**  `IInv`: a call in flight is pending and its row is not there yet; an
idle handle's locals are cleared; the rows are finite, so that `MaxSeq` is the
greatest number and not an arbitrary one; and, for giving up, the number a handle
is about to insert is at most `MAX+1` and at least `base + attempt + 1`, since each
re-read follows a collision.  With it `Insert` adds exactly number `MAX+1`, which
keeps the numbers dense and appends one element to the abstract log; every other
step leaves the rows, and so the log, alone.

**The fold.**  `FoldOrder` is shown by induction on the length to be a permutation of
the positions, sorted by `Before` and unchanged below a longer log.  `Fold` is then
an induction over that order: after n lines the document says of an id what its last
assert among them says, and what withdrew or retired it since.  `Before` is a strict
total order, so "last" is one line.  `ImportConverges` follows: a log repeated, or
a prefix of it and then the whole, has the same last lines.

**WriteOps.**  `IInv`: every line of the log, and every line a writer has still to
append, is preceded by the line it must not be without, in the log or earlier in
its batch.  Other writers only add lines, and a line stays safe when lines are
added before or beside it; so only `Correct` and `AnswerQuestion`, which make pairs,
and `Amend`, which restates what a line said, have anything to show.  The two action
properties need `BatchInv`: while a batch has met nobody, the log is what its operation
read and the lines of the batch so far, and once checked that base and the whole
batch build together.  That the first half of a checked pair builds too is the
content of `UncontendedIsSafe`: a withdrawal breaks no reference, since
`checkRefs` asks for existence and not for life, and an answer beside its
still open question is a claim like any other.  It is not one where the answer takes
the id of a question, its own or another: the first half then has turned that question
into a claim, which others may name as what they answer.  `TakesAQuestionsId` is that
case, excepted in the property and shown by `EveryUncontendedWriteBuilds` (section 3);
nothing else is supposed of the ids of claims and questions.

**LogExport.**  `IInv`: the file and the disk are a first file or a past state of the
store in fold order, every exporter's new content is such a state, and an exporter that
began over a past state, and whose file is still that one, has every line of it.  The
store only grows, so a past state stays one; what was read later contains what was
written earlier.  Over a file that is no past state there is nothing of the kind: the
log is written from the store, whatever the file said (`store.go:531-532`), and
`UnracedExportExtends` does not speak of it.

**Watch.**  Of the cache: what is stored and was not torn was loaded from the files
its fingerprint is of, and a load that is stored has hashed the document its facts
declare.  Of the watchers: subscribers and subscriptions agree, who leaves last has
stopped the poller, what is registered is held by somebody who has still to take it
out, a poller's prints are of the past, and whoever has not looked since the
poller's last print has a notice, is about to be sent one, or reads one.  The last
is what makes up for a notice dropped at a full channel: the channel was full.

**GraphCheck.**  `IInv` says that the nodes are facts over the ids and that the graph
is the one the log builds, without error.  The rest is about the operators:
- `Lookup` follows retirements through any chain and ends at a node or goes round,
  and a chain that goes round was refused; `merge` repoints every reference it can
  meet, so none is left to nothing.
- The evaluator's recursion is induction over the number of ids not yet `seen`,
  and over the stack of nested evaluations for `asked`: where no membership's
  condition depends on its group that stack is a path in an order without
  circles, so no call diverges.
- Taint: by the same induction, two evaluations of a graph and of the one with an
  open question answered agree on every node the question does not reach.
- `NothingHoldsByItself` compares the evaluator with the least fixed point of the
  rules.  Cutting a cycle with "does not hold" loses nothing, because a proof that
  a node holds never needs the node itself: the induction is over ranks, the stage
  at which a node enters the fixed point.

**QueryCheck.**  `AskInv` adds to `IInv` that every node of the log is dated by a day,
by a month or by offsets from another.  The rest is about the evaluator.  A query's parts are listed
before it (`Syntax`) and a call inside of more names has fewer left, so a call is
lighter than the one that makes it (`Weights`); every function that is recursive over
calls satisfies its own equation (`EvaluationsUnfold`, `MeaningsUnfold`,
`ComplementsUnfold`), and by induction over the weight each call is answered with the
nodes it describes (`EverythingIsTold`).  Its cases rest on what the parts of a
pattern come to: a walk of sets is a path (`WalksArePaths`), a star is the least set
that is closed under the hop (`HopsAreRelated`), a date overlaps a window just where
the two share a day (`WindowsOverlapWhereTheyShare`), an insertion sort lists every id
once (`SortedLists`), and so does every order a complement may come in.
- Deadlines: an offset takes a date to a date (`AddDate` puts a day that a month lacks
  into the next), and what is dated through offsets in days alone moves with its basis
  day by day, by induction over how many dates are not yet `seen`; what is dated through
  months or years is where its offsets put it after its basis as that now is, and what
  does not follow the event resolves as it did (`DatesByCase`, `AllMove`).
- The scratch: a proposed fact is the record its write would make (`Entries`), nothing
  in it is retired or rewritten, and so the graph a proposal is tried on is the graph
  of the store after it was written, built without error or refused in both.

**Standing.**  `StandingInv` says of the file, and of what each command is about to
write, that every pin in it is `Backed`: somebody accepted, under the text whose hash is
kept beside it, an answer that says what this pin says.  A command that read the file
long ago may write it again, and a line may come back that way, but never one that was
not accepted; it is why what is loaded and edited is part of the invariant and the file
alone is not inductive.
- That no drift means the same answer is about hashes.  A pin's hash is of its three
  lists one after the other, without a mark where one ends.  It tells pins apart all the
  same (`HashesTellPinsApart`): a line that is an id alone is an open question's, so the
  questions are where the lines without a hash are, and only where there are none could
  the end of the rows be taken for the sources.  A source among the rows is cited too, so
  one that moved from one list to the other would be there twice or not at all.
- `DiffPins` is empty of rows, relations and questions just where two pins commit to the
  same; the sources it does not compare are the exception the property makes.

**Ledgers.**  Every step of `Ledgers` is a write of `GraphCheck`, or leaves the graph
(`LedgersStep`), so `IInv` is kept.  Beside it:
- `DisputeIsCarried` is about one graph and each declared set by itself: an end of a
  contradiction that the set has and the other end that it has not are an item of
  `SplitContradictions`, under the ids they are found by.
- `VerdictStandsOverItsWords` needs `VerdictsInv`: a verdict with its words was given on
  a fact and a source that were asserted, so both are found, whatever they are folded
  into since, and of the right kind; the words are then compared with the fact's
  quotations and looked for in what the document reads as.
- `QueueShrinksByHand` takes both directions of what a citation is: it is a relation
  that was stated, whose ends are found at the fact and the source (`CitedIsStated`), and
  whatever was stated is there unless an end is retired or it comes to relate a
  fact to itself (`StatedIsCited`).  A line appended to the ledger changes the last
  line of its own key only (`OneMoreLine`).  The proof found the property too strong as
  it was first put: an id may be folded again, from one fact into the next, with neither
  key retired by that step; and a source that cites itself leaves the list with any
  merge in the corpus, since `merge` drops whatever relates a fact to itself.
- `SilencedWereSeen` needs `LedgerInv`: what is kept with a key, on the screen and in
  the ledger of acceptances, are situations that have this key.  A key determines the
  check, the facts named, what they say and the relations they have
  (`KeyTellsTheFacts`).  It leaves the words of the finding out, so those have to
  follow from the rest: `WordsOf` is what a warning of each check says of its facts and
  relations, and every check reports by it (`LoadFindingsFit`).  Two things had to be
  found for that: a corpus that loads has errors of no check, so that a claim that
  attests is a source's (`CleanAttests`), and what a scan alone reports can never
  be accepted, since `kg accept` looks among what a load reports.  The proof found the
  property too strong as it was first put (section 3, "Ledgers").
- Ranking: `sort.Slice` is `Ranked`, the n-th member being the one with n - 1 before it.
  Of a finite set and a strict total order that lists each member once, in the order
  (`RankedLists`).  For `QueueKeepsItsOrder` the order is by band, fact and source, and
  what makes it hold is that a band is not of what else is on the list
  (`BandsAreTheirOwn`): a ruling takes citations out from between the others.
- `ClustersAreThings`: after n pairs union-find keeps a forest (`Rooted`: each id's
  height below its root, which is what makes `find` end), its roots agree on both ends of
  those pairs, and a set that is closed under the pairs has all of a tree or nothing of it
  (`Gathers`).  Joining hangs one root under another, whichever ids of the two trees the
  pair names (`JoinedIsRooted`), so with all pairs joined the trees are the things.
- `TwinsAreNamed` needs `WordedInv`, that facts stay of the kinds there are and their texts
  texts, and `NoneTwice`, that what was let in has no two facts with one body, which the
  comparison passes over.  Twins have the same rarest words, one at least (`TwinsMeet`), so
  they are on one list; a list that was not left out has all of its pairs compared, here or
  on an earlier list (`ListsAreCompared`); a match has a best one, since a score is a
  fraction and fractions are ordered (`SomeIsBest`); and the best matches are ranked, each
  once, so that only their number keeps one from being named (`MatchedAreNamed`).

**Project.**  `IInv`: what is on the disk has its types, a scan about to write has
counted something and is of an index, and whatever was marked is marked where the
next load looks.  The action properties are about single steps, of all commands;
`MovedIsFound` is that a place inside an index that is not in a skipped directory and
lies under the directory of the index is walked to, and that the search finds it and no
other where the bytes are nowhere else on the walk.

Recursion is written with recursive functions throughout these modules.  What such a
function is on each argument is derived from its definition by induction over the
natural numbers or over the size of a set, on subsets of `Nat` defined for the
purpose (`S == {n \in Nat : ...}`), since the library's induction theorems cannot be
instantiated here.

Only model-checked:
- `EveryCallReturns`: liveness is out of the prover's reach.
- That the violations of section 3 occur.

## 5. Plan

1. done: `SeqAppend` with its proofs, `FactLog`, `WriteOps`, `LogExport`,
   `ScopeCache`, `Watch`; `FactGraph`, `Evaluation`, `Tension`, `GraphCheck`.
2. done: `Query`, `Pins`, `QueryCheck`, `Standing`; `Duplicates`, `Verdicts`,
   `Checks`, `Ledgers`; `Loading`, `Sources`, `Project`.
3. done: the proofs of every property of the runs `fold`, `write_ops`, `log_export`,
   `daemon`, `graph`, `project`, `query`, `standing` and `ledgers`; of `seq_append` all but
   `EveryCallReturns`.
4. next, where a run can be spared for them: the subscriber who is given a watcher whose
   poller is stopping (`watch.go:72`), of which `NoNoticeLost` does not speak; concurrent
   opens of an old database (`migrateIdx`), the projection of standing queries into the
   database, the daemon's list of known projects.

## 6. Not modelled

- Text: parsing of facts and queries, matching of quotations, near quotes and
  phonetics, extraction, `have`, and the wording and order of findings.  Which
  quotation is looked for where is modelled, whether a text contains it is a set.
- HTTP, MCP and flag handling, the access token, the git hooks: no state of the
  system depends on more than the operations they call, which are modelled.
- The directory walk beyond which index a file belongs to; `Discover` and the list of
  known projects (`Remember`).
- `migrateIdx` and PostgreSQL's own driver, durability inside the database, and equal
  sizes and mtimes of different contents.
- Of components modelled in part: `Bundle`; `ValidateQueryIn`; taint's counts; regions
  of a page and `Miscited`; `ApplyRelocations` and `DriftedSources`;
  `CheckSetProportion` and relations taken from raglit; `WriteQueries`.
