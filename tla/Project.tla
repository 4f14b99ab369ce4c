------------------------------ MODULE Project ------------------------------
(***************************************************************************)
(* A project's files and databases under the commands that work on them:   *)
(* assert, migrate, export, import, scan and source lock (cmd/kg/main.go), *)
(* while people edit, move and delete documents, clear away fact files and *)
(* lose databases and exports.                                             *)
(*                                                                         *)
(* A scan raises the high-water mark in two steps, so that of two scans    *)
(* one may act on a mark the other has raised since.  Every other command  *)
(* is one step: one person works on a project's files at a time.           *)
(***************************************************************************)
EXTENDS Sources

CONSTANTS
    Scanners,       \* processes that scan
    Entries,        \* Entries[i]: what may be asserted into index i
    Corpora,        \* the projects to begin with: [files, logs, stores, docs, locks]
    Contents,       \* bytes a document may be given
    Places,         \* where a document may be moved
    MaxActs         \* bound: commands, edits and losses

\* What an assertion, a log, a fact file and a database may hold.
Entry == [id : ToSet(Ids), doc : Seq(STRING) \cup {NoDoc}, at : Nat]
Logs == Seq(Entry) \cup {NoFile}

ASSUME ProjectAssumption ==
    /\ Ids \in Seq(ToSet(Ids))
    /\ NoFile \notin Seq(Entry)
    /\ \A i \in Indexes : Entries[i] \subseteq Entry
    /\ \A c \in Corpora :
          /\ c.files \in [Dirs -> Logs] /\ c.logs \in [Dirs -> Logs]
          /\ c.stores \in [Indexes -> Logs]
          /\ DOMAIN c.locks = Dirs

VARIABLES
    disk,           \* fact files, exports and marks by directory, stores by index
    docs,           \* the bytes of each document
    locks,          \* locks[d]: the sources.lock of directory d
    scans,          \* scans[s]: the mark s is about to raise
    marked,         \* indexes whose mark a scan has put, or found, at their marker
    acts

vars == <<disk, docs, locks, scans, marked, acts>>

Idle == [pc |-> "idle", index |-> NoFile, dir |-> Root, count |-> 0]

\* loadIn: the facts, what has become of their documents, and the mark.
LoadIn(i, policy) ==
    LET found == ScanFactsIn(disk, i, policy)
        mark == disk.marks[HighWaterDir(found.nodes, i)]
    IN  [nodes |-> found.nodes,
         findings |-> found.findings \cup CheckSources(found.nodes, docs, locks)
                                     \cup CheckHighWater(found.nodes, mark)]

\* load: a command that writes goes no further than an error.
Loads(i) == Errors(LoadIn(i, "default").findings) = {}

\* openStore leaves an empty database where there was none.
Opened(i) == IF disk.stores[i] = NoFile THEN << >> ELSE disk.stores[i]

Init ==
    /\ \E c \in Corpora :
          /\ disk = [files |-> c.files, logs |-> c.logs, stores |-> c.stores,
                     marks |-> [d \in Dirs |-> 0]]
          /\ docs = c.docs
          /\ locks = c.locks
    /\ scans = [s \in Scanners |-> Idle]
    /\ marked = {}
    /\ acts = 0

Act ==
    /\ acts < MaxActs
    /\ acts' = acts + 1

\* What kg source lock may be given: nothing, or a source.
Named == {{}} \cup {{Ids[k]} : k \in DOMAIN Ids}

-----------------------------------------------------------------------------
(* Commands. *)

\* The entries of an index's fact files, file after file.
FactEntries(dk, i) ==
    LET upto[k \in 0..Len(WalkOrder)] ==
            IF k = 0 THEN << >>
            ELSE IF k \in FindIn(dk.files, i) THEN upto[k - 1] \o dk.files[WalkOrder[k]]
            ELSE upto[k - 1]
    IN  upto[Len(WalkOrder)]

\* kg assert: the graph must load, and the assertion joins what the store holds.
AssertEntry(i) ==
    /\ Act
    /\ Loads(i)
    /\ \E e \in Entries[i] : disk' = [disk EXCEPT !.stores[i] = Append(Opened(i), e)]
    /\ UNCHANGED <<docs, locks, scans, marked>>

\* kg migrate: every entry of every fact file is appended; the files stay.
Migrate(i) ==
    /\ Act
    /\ disk' = [disk EXCEPT !.stores[i] = Opened(i) \o FactEntries(disk, i)]
    /\ UNCHANGED <<docs, locks, scans, marked>>

\* kg export: beside the index's facts, or in the working directory when the
\* index does not load.  The database is opened before the load.
Export(i) ==
    LET opened == [disk EXCEPT !.stores[i] = Opened(i)]
        out == IF Loads(i) THEN IndexDirOf(LoadIn(i, "default").nodes) ELSE Root
    IN  /\ Act
        /\ disk' = [opened EXCEPT !.logs[out] = Opened(i)]
        /\ UNCHANGED <<docs, locks, scans, marked>>

\* kg import: a log is appended to the store.
Import(i) ==
    /\ Act
    /\ \E d \in Dirs :
          /\ disk.logs[d] # NoFile
          /\ disk' = [disk EXCEPT !.stores[i] = Opened(i) \o disk.logs[d]]
    /\ UNCHANGED <<docs, locks, scans, marked>>

\* kg source lock, of the named sources or, when none is named, of all.
Lock(i, only) ==
    LET nodes == ScanFactsIn(disk, i, "default").nodes
    IN  /\ Act
        /\ only \subseteq DOMAIN nodes
        /\ locks' = LockAll(nodes, docs, locks, only)
        /\ UNCHANGED <<disk, docs, scans, marked>>

\* kg scan: a load without an error goes on to raise the mark.
Scan(s, i) ==
    /\ Act
    /\ scans[s] = Idle
    /\ \E policy \in Policies :
          LET p == LoadIn(i, policy)
          IN  /\ Errors(p.findings) = {}
              /\ scans' = [scans EXCEPT ![s] =
                    [pc |-> "read", index |-> i, dir |-> IndexDirOf(p.nodes),
                     count |-> Cardinality(DOMAIN p.nodes)]]
    /\ UNCHANGED <<disk, docs, locks, marked>>

\* Of a scan whose mark stands beside the index's marker.
Marked(s) ==
    IF scans[s].count > 0 /\ scans[s].dir = MarkerDir[scans[s].index]
    THEN marked \cup {scans[s].index} ELSE marked

\* WriteHighWater reads the mark, and leaves one that is as high alone ...
ReadMark(s) ==
    /\ scans[s].pc = "read"
    /\ IF scans[s].count <= disk.marks[scans[s].dir]
       THEN scans' = [scans EXCEPT ![s] = Idle] /\ marked' = Marked(s)
       ELSE scans' = [scans EXCEPT ![s].pc = "write"] /\ UNCHANGED marked
    /\ UNCHANGED <<disk, docs, locks, acts>>

\* ... and writes its own over whatever is there by now.
WriteMark(s) ==
    /\ scans[s].pc = "write"
    /\ disk' = [disk EXCEPT !.marks[scans[s].dir] = scans[s].count]
    /\ scans' = [scans EXCEPT ![s] = Idle]
    /\ marked' = Marked(s)
    /\ UNCHANGED <<docs, locks, acts>>

-----------------------------------------------------------------------------
(* What happens to the files outside the program. *)

ClearFactFiles(d) ==
    /\ Act
    /\ disk.files[d] # NoFile
    /\ disk' = [disk EXCEPT !.files[d] = NoFile]
    /\ UNCHANGED <<docs, locks, scans, marked>>

LoseExport(d) ==
    /\ Act
    /\ disk.logs[d] # NoFile
    /\ disk' = [disk EXCEPT !.logs[d] = NoFile]
    /\ UNCHANGED <<docs, locks, scans, marked>>

\* A new machine, or a database removed.
LoseStore(i) ==
    /\ Act
    /\ disk.stores[i] # NoFile
    /\ disk' = [disk EXCEPT !.stores[i] = NoFile]
    /\ UNCHANGED <<docs, locks, scans, marked>>

\* A document is edited, put back, or deleted.
EditDocument(p) ==
    /\ Act
    /\ \E b \in (Contents \cup {NoFile}) \ {docs[p]} : docs' = [docs EXCEPT ![p] = b]
    /\ UNCHANGED <<disk, locks, scans, marked>>

MoveDocument(p) ==
    /\ Act
    /\ docs[p] # NoFile
    /\ \E q \in Places \ {p} : docs' = [docs EXCEPT ![p] = NoFile, ![q] = docs[p]]
    /\ UNCHANGED <<disk, locks, scans, marked>>

Next ==
    \/ \E i \in Indexes : AssertEntry(i) \/ Migrate(i) \/ Export(i) \/ Import(i)
                             \/ LoseStore(i) \/ \E only \in Named : Lock(i, only)
    \/ \E s \in Scanners : (\E i \in Indexes : Scan(s, i)) \/ ReadMark(s) \/ WriteMark(s)
    \/ \E d \in Dirs : ClearFactFiles(d) \/ LoseExport(d)
    \/ \E p \in DOMAIN docs : EditDocument(p) \/ MoveDocument(p)

Spec == Init /\ [][Next]_vars

-----------------------------------------------------------------------------
(* Properties. *)

\* Once a clean scan has left its mark beside an index's marker, no load of the
\* index finds nothing and says nothing: whichever of its store, its exports and
\* its fact files were lost since, and whichever scan wrote the mark last.
DarkIsReported ==
    \A i \in marked, policy \in Policies :
        LET p == LoadIn(i, policy) IN DOMAIN p.nodes = {} => Errors(p.findings) # {}

\* A drift a person is still looking into is not cleared by somebody locking
\* another source: a lock of one source leaves the state of every other as it
\* was, but for one recorded under the same key (LockAll's only).
DriftOutlivesOtherLocks ==
    [][\A i \in Indexes, k \in DOMAIN Ids :
        locks' # locks /\ Lock(i, {Ids[k]}) =>
            LET nodes == ScanFactsIn(disk, i, "default").nodes
            IN  \A id \in Citing(nodes) :
                    \/ id = Ids[k]
                    \/ Ids[k] \in Citing(nodes) /\ KeyOf(nodes[id]) = KeyOf(nodes[Ids[k]])
                    \/ SourceState(nodes[id], docs, locks')
                            = SourceState(nodes[id], docs, locks)]_vars

\* "The exhibit disappeared" never becomes "we never had it": while a citation
\* leads to the same place from the same directory, a document recorded once
\* stays recorded, through locks, sweeps and the losses of everything else.
RecordedStaysRecorded ==
    [][\A i \in Indexes :
        LET nodes == ScanFactsIn(disk, i, "default").nodes
            nodes2 == ScanFactsIn(disk', i, "default").nodes
        IN  \A id \in Citing(nodes) \cap Citing(nodes2) :
                nodes2[id] = nodes[id] /\ Recorded(nodes[id], locks) # NoFile
                    => Recorded(nodes2[id], locks') # NoFile]_vars

\* The nearest marker above a file is the index's: no other index is nested between.
Inside(i, p) ==
    /\ IsPrefix(MarkerDir[i], p)
    /\ \A j \in Indexes : IsPrefix(MarkerDir[j], p) => Len(MarkerDir[j]) <= Len(MarkerDir[i])

\* A path is not an identity and the bytes are: the document of a source in good
\* order, moved to a place inside its index that the repair walks to, is proposed
\* by kg source repair at exactly the place it went, whatever copies of it are
\* where the repair does not walk: outside the index, or in a skipped directory.
MoveIsFound ==
    [][\A p, q \in DOMAIN docs, i \in Indexes :
        docs[p] # NoFile /\ docs'[p] = NoFile /\ docs'[q] = docs[p] /\ Inside(i, q) =>
            LET nodes == ScanFactsIn(disk, i, "default").nodes
                base == IndexDirOf(nodes)
            IN  \A id \in Citing(nodes) :
                    /\ DocPathOf(nodes[id]) = p
                    /\ SourceState(nodes[id], docs, locks) = "ok"
                    /\ \A r \in DOMAIN docs : docs'[r] = docs[p] /\ Walked(base, r) <=> r = q
                    => [source |-> id, now |-> q] \in FindRelocations(nodes, docs', locks)]_vars

\* What the source says of a repair and the code does not keep: "Only files INSIDE
\* the index are considered" (repair.go, FindRelocations).  The walk goes into the
\* directories of the indexes nested in this one, and of every other one when the
\* index has no fact file or export of its own and its directory is the root.
ProposalsStayInside ==
    \A i \in Indexes :
        LET nodes == ScanFactsIn(disk, i, "default").nodes
        IN  \A r \in FindRelocations(nodes, docs, locks) : Inside(i, r.now)

\* What a corpus has recorded, in a store or in a log, is recorded still when it
\* has been exported: the text in the corpus is "an audit trail, a backup, and
\* the portable form" (store.go, ExportJSONL; cmdExport).
ExportLosesNothing ==
    [][\A i \in Indexes :
        Export(i) =>
            LET Kept(d) == (UNION {ToSet(d.stores[j]) : j \in {k \in Indexes : d.stores[k] # NoFile}})
                           \cup (UNION {ToSet(d.logs[x]) : x \in {y \in Dirs : d.logs[y] # NoFile}})
            IN  Kept(disk) \subseteq Kept(disk')]_vars
=============================================================================
