----------------------------- MODULE LogExport -----------------------------
(***************************************************************************)
(* The store and its projection facts.jsonl (ExportJSONL, ImportJSONL and  *)
(* keptPrefix in store.go): exporters read the log, read the file, and     *)
(* replace the file by way of a temporary one, while others append to the  *)
(* store.                                                                  *)
(*                                                                         *)
(* A line of the log is opaque but for its timestamp, which orders it.  A  *)
(* file is a sequence of entries: a line and the hand that spelled it.     *)
(***************************************************************************)
EXTENDS FoldOrder

CONSTANTS
    Exporters,      \* processes that export
    Importers,      \* processes that import
    Starts,         \* what a corpus may begin with: [store, file]
    Leads,          \* how far past the clock a line may be stamped
    MaxClock,       \* bound: seconds that pass
    MaxStore,       \* bound: rows of the store
    NoFile,         \* facts.jsonl does not exist
    Torn            \* what is left of a file whose bytes never reached the disk

Row == [n : Nat, at : Nat]
Spelled == [line : Row, hand : {"ours", "theirs"}]

\* The file may be anybody's: this store's export, another's, one that was edited
\* or does not read, or none.
ASSUME LogExportAssumption ==
    /\ Leads \subseteq Nat
    /\ MaxStore \in Nat
    /\ Starts \subseteq [store : Seq(Row), file : Seq(Spelled) \cup {NoFile, Torn}]
    /\ NoFile \notin Seq(Spelled) /\ Torn \notin Seq(Spelled)

VARIABLES
    store,          \* the rows of the index, by seq
    clock,
    file,           \* facts.jsonl as a reader sees it
    disk,           \* facts.jsonl as a power loss would leave it
    exporter,       \* exporter[e]: the ExportJSONL call e is executing
    importer        \* importer[m]: the lines m still has to append

vars == <<store, clock, file, disk, exporter, importer>>

Entry(line, hand) == [line |-> line, hand |-> hand]
LinesOf(f) == [k \in 1..Len(f) |-> f[k].line]

Idle == [pc |-> "idle", log |-> << >>, content |-> << >>, synced |-> FALSE,
         found |-> NoFile]

\* A file projects the store: it says what the store held at some moment.
Projects(f) ==
    /\ f \notin {NoFile, Torn}
    /\ \E k \in 0..Len(store) : LinesOf(f) = InFoldOrder(SubSeq(store, 1, k))

FirstFiles == {s.file : s \in Starts}

Init ==
    /\ \E s \in Starts : store = s.store /\ file = s.file
    /\ clock = 1
    /\ disk = file
    /\ exporter = [e \in Exporters |-> Idle]
    /\ importer = [m \in Importers |-> << >>]

-----------------------------------------------------------------------------
(* The store, under the exporters. *)

\* An assertion lands (Store.Append; Correct stamps past the clock).
AppendToStore ==
    /\ Len(store) < MaxStore
    /\ \E lead \in Leads :
          store' = Append(store, [n |-> Len(store) + 1, at |-> clock + lead])
    /\ UNCHANGED <<clock, file, disk, exporter, importer>>

Tick ==
    /\ clock < MaxClock
    /\ clock' = clock + 1
    /\ UNCHANGED <<store, file, disk, exporter, importer>>

\* ImportJSONL: a log that does not read is an error before anything is written.
BeginImport(m) ==
    /\ importer[m] = << >>
    /\ file \notin {NoFile, Torn}
    /\ Len(store) + Len(file) <= MaxStore
    /\ importer' = [importer EXCEPT ![m] = LinesOf(file)]
    /\ UNCHANGED <<store, clock, file, disk, exporter>>

ImportLine(m) ==
    /\ importer[m] # << >>
    /\ store' = Append(store, Head(importer[m]))
    /\ importer' = [importer EXCEPT ![m] = Tail(@)]
    /\ UNCHANGED <<clock, file, disk, exporter>>

\* An append fails, or the process dies: what was appended stays.
StopImport(m) ==
    /\ importer[m] # << >>
    /\ importer' = [importer EXCEPT ![m] = << >>]
    /\ UNCHANGED <<store, clock, file, disk, exporter>>

-----------------------------------------------------------------------------
(* ExportJSONL. *)

\* Mutant of Keeps: the file's own spelling is never kept.
MutantKeepsNothing(f, log) == FALSE

\* keptPrefix: the file says what the log's first lines say, however spelled.
Keeps(f, log) ==
    /\ f \notin {NoFile, Torn}
    /\ IsPrefix(LinesOf(f), log)

Written(log, from) == [k \in 1..(Len(log) - from) |-> Entry(log[from + k], "ours")]

\* Mutant of Content: the kept bytes are counted and not written.
MutantOnlyTheRest(f, log) ==
    IF Keeps(f, log) THEN Written(log, Len(f)) ELSE Written(log, 0)

\* What the file is to become: the bytes it has and the rest of the log, or the
\* whole log.
Content(f, log) ==
    IF Keeps(f, log) THEN f \o Written(log, Len(f)) ELSE Written(log, 0)

ReadStore(e) ==
    /\ exporter[e].pc = "idle"
    /\ exporter' = [exporter EXCEPT ![e] =
           [Idle EXCEPT !.pc = "read", !.log = InFoldOrder(store),
                        !.found = IF Projects(file) THEN file ELSE NoFile]]
    /\ UNCHANGED <<store, clock, file, disk, importer>>

\* The file is read; one that already says everything is left alone.
ReadFile(e) ==
    /\ exporter[e].pc = "read"
    /\ LET log == exporter[e].log
       IN  \/ /\ Keeps(file, log)
              /\ Len(file) = Len(log)
              /\ exporter' = [exporter EXCEPT ![e] = Idle]
           \/ /\ ~ (Keeps(file, log) /\ Len(file) = Len(log))
              /\ exporter' = [exporter EXCEPT ![e] =
                     [@ EXCEPT !.pc = "sync", !.log = << >>, !.content = Content(file, log),
                               !.found = IF file = exporter[e].found THEN file ELSE NoFile]]
    /\ UNCHANGED <<store, clock, file, disk, importer>>

\* The temporary file is written and synced; nobody else can see it.
Sync(e) ==
    /\ exporter[e].pc = "sync"
    /\ exporter' = [exporter EXCEPT ![e].pc = "rename", ![e].synced = TRUE]
    /\ UNCHANGED <<store, clock, file, disk, importer>>

\* Rename over facts.jsonl: readers see it at once.  The directory is not
\* synced, so the disk follows now or later.
Rename(e) ==
    /\ exporter[e].pc = "rename"
    /\ file' = exporter[e].content
    /\ disk' \in {disk, IF exporter[e].synced THEN exporter[e].content ELSE Torn}
    /\ exporter' = [exporter EXCEPT ![e] = Idle]
    /\ UNCHANGED <<store, clock, importer>>

\* A step fails (the deferred Remove takes the temporary file away) or the
\* process dies (it stays, under a name nobody reads).
StopExport(e) ==
    /\ exporter[e].pc # "idle"
    /\ exporter' = [exporter EXCEPT ![e] = Idle]
    /\ UNCHANGED <<store, clock, file, disk, importer>>

\* The machine loses power: every process ends, and the file is what was on the
\* disk.  The database's own durability is taken for granted.
PowerLoss ==
    /\ file' = disk
    /\ exporter' = [e \in Exporters |-> Idle]
    /\ importer' = [m \in Importers |-> << >>]
    /\ UNCHANGED <<store, clock, disk>>

Next ==
    \/ AppendToStore \/ Tick \/ PowerLoss
    \/ \E e \in Exporters :
          ReadStore(e) \/ ReadFile(e) \/ Sync(e) \/ Rename(e) \/ StopExport(e)
    \/ \E m \in Importers : BeginImport(m) \/ ImportLine(m) \/ StopImport(m)

Spec == Init /\ [][Next]_vars

-----------------------------------------------------------------------------
\* "WRITTEN WHOLE OR NOT AT ALL" (ExportJSONL): at every moment, and after any
\* crash or power loss, the file is the one that was found at first or holds
\* exactly what the store held at some moment: never a torn file, a mixture of two
\* exports or of an export and a log of somebody else's, however many race.
FileIsAPastStore == file \in FirstFiles \/ Projects(file)

\* An export ends that found this store's export and met no other: the file is
\* still what it was when the exporter read the file, and when it read the store.
Unraced ==
    \E e \in Exporters : Rename(e) /\ exporter[e].found # NoFile /\ file = exporter[e].found

\* "A LINE ALREADY IN THE FILE IS NEVER REWRITTEN" (ExportJSONL): an export over
\* this store's own, that met no other, takes no line out; and it leaves every
\* byte of the file in its place while the log still begins with the file's lines.
\* When a line stamped ahead of its time makes a later one go before it, the file
\* is no prefix any more and the lines are kept, but not their spelling.
UnracedExportExtends ==
    [][ Unraced =>
          /\ ToSet(LinesOf(file)) \subseteq ToSet(LinesOf(file'))
          /\ IsPrefix(LinesOf(file), LinesOf(file')) => IsPrefix(file, file') ]_vars

\* "When the file on disk already holds the store's first n assertions, those
\* bytes are kept" and only the rest is added (ExportJSONL): an export takes no
\* line out of the file, the machine's losing power apart.
ExportKeepsLines ==
    [][ ~ PowerLoss /\ file \notin {NoFile, Torn} =>
          /\ file' \notin {NoFile, Torn}
          /\ ToSet(LinesOf(file)) \subseteq ToSet(LinesOf(file')) ]_vars
=============================================================================
