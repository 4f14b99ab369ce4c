------------------------------ MODULE Sources ------------------------------
(***************************************************************************)
(* The documents behind the sources: where a doc: leads, what the lock     *)
(* beside the declaring file recorded of it, and where a document that     *)
(* moved went (sources.go, repair.go).                                     *)
(*                                                                         *)
(* A document is its path and its bytes; a lock maps the keys of the       *)
(* documents recorded in one directory to the bytes that were read.        *)
(***************************************************************************)
EXTENDS Loading

CONSTANTS
    NoDoc,          \* a source that cites no document
    Ids             \* every id, in the order of their names

Outside == <<"..">>

\* DocPathOf: doc: is relative to the directory of the declaring file, and may
\* not climb out of the project.  It climbs, if at all, before it names anything.
DocPathOf(n) ==
    LET ups == Cardinality({k \in DOMAIN n.doc : n.doc[k] = ".."})
    IN  IF ups > Len(n.dir) THEN Outside
        ELSE SubSeq(n.dir, 1, Len(n.dir) - ups) \o SubSeq(n.doc, ups + 1, Len(n.doc))

\* HashDoc: the raw bytes, if they can be read.
Bytes(docs, path) ==
    IF path = Outside \/ path \notin DOMAIN docs THEN NoFile ELSE docs[path]

\* A path relative to the lock's directory, or left as it is when it lies elsewhere.
LockKey(dir, path) ==
    IF IsPrefix(dir, path) THEN SubSeq(path, Len(dir) + 1, Len(path)) ELSE path

\* What the lock beside the declaring file has a source's document under.
KeyOf(n) == LockKey(n.dir, DocPathOf(n))

Citing(nodes) == {id \in DOMAIN nodes : nodes[id].doc # NoDoc}

\* What the lock beside the declaring file says was read, or NoFile.
Recorded(n, locks) ==
    IF DocPathOf(n) # Outside /\ KeyOf(n) \in DOMAIN locks[n.dir]
    THEN locks[n.dir][KeyOf(n)] ELSE NoFile

\* SourceStatuses, for one source.
SourceState(n, docs, locks) ==
    LET now == Bytes(docs, DocPathOf(n))
        was == Recorded(n, locks)
    IN  IF DocPathOf(n) = Outside THEN "outside-project"
        ELSE IF now = NoFile /\ was # NoFile THEN "vanished"
        ELSE IF now = NoFile THEN "not-found"
        ELSE IF was = NoFile THEN "unrecorded"
        ELSE IF now # was THEN "changed"
        ELSE "ok"

\* CheckSourceDrift and CheckIndexBoundary: all that a load says of the documents.
CheckSources(nodes, docs, locks) ==
    LET said == {SourceState(nodes[id], docs, locks) : id \in Citing(nodes)}
        base == IndexDirOf(nodes)
    IN  {Warning(s) : s \in said \cap {"vanished", "unrecorded", "changed"}}
        \cup {Error(s) : s \in said \cap {"outside-project"}}
        \cup {Warning("outside-index") : id \in {c \in Citing(nodes) :
                LET path == DocPathOf(nodes[c])
                IN  path # Outside /\ ~IsPrefix(base, path)}}

\* Mutant of Locked: naming one source narrows nothing.
MutantLocksEverything(nodes, docs, locks, only) ==
    {id \in Citing(nodes) : SourceState(nodes[id], docs, locks) \in {"unrecorded", "changed"}}

\* LockAll records what is present and new or changed; of the named sources only,
\* when some are named.
Locked(nodes, docs, locks, only) ==
    {id \in Citing(nodes) :
        /\ only # {} => id \in only
        /\ SourceState(nodes[id], docs, locks) \in {"unrecorded", "changed"}}

\* Mutant of LockAll: the lock is written from the documents that are there.
MutantForgetsTheVanished(nodes, docs, locks, only) ==
    LET taken == {id \in Citing(nodes) :
                     SourceState(nodes[id], docs, locks) \in {"ok", "unrecorded", "changed"}}
    IN  [dir \in DOMAIN locks |->
            [key \in {KeyOf(nodes[id]) : id \in {t \in taken : nodes[t].dir = dir}} |->
                Bytes(docs, DocPathOf(nodes[CHOOSE id \in taken :
                    nodes[id].dir = dir /\ KeyOf(nodes[id]) = key]))]]

\* The locks after kg source lock.  They are keyed by path: of two sources with
\* one key the later in order is the one recorded.  Every other entry is kept,
\* that of a document which has vanished among them.
LockAll(nodes, docs, locks, only) ==
    LET taken == {k \in DOMAIN Ids : Ids[k] \in Locked(nodes, docs, locks, only)}
        Under(dir, key) == {k \in taken : /\ nodes[Ids[k]].dir = dir
                                          /\ KeyOf(nodes[Ids[k]]) = key}
        Keys(dir) == {KeyOf(nodes[Ids[k]]) : k \in {l \in taken : nodes[Ids[l]].dir = dir}}
    IN  [dir \in DOMAIN locks |->
            [key \in DOMAIN locks[dir] \cup Keys(dir) |->
                IF Under(dir, key) = {} THEN locks[dir][key]
                ELSE Bytes(docs, DocPathOf(nodes[Ids[Max(Under(dir, key))]]))]]

\* shouldSkipDir: what a walk does not go into.
SkippedDirs == {".git", ".raglit", "node_modules", ".kg"}

\* A walk from base comes to the file at p: through no directory that is skipped,
\* base itself among them.
Walked(base, p) ==
    /\ IsPrefix(base, p)
    /\ \A k \in 1..(Len(p) - 1) : k >= Len(base) => p[k] \notin SkippedDirs

\* Mutant of FindRelocations: the walk goes into every directory.
MutantLooksEverywhere(nodes, docs, locks) ==
    LET hits(id) == {p \in DOMAIN docs : /\ docs[p] # NoFile
                                         /\ docs[p] = Recorded(nodes[id], locks)
                                         /\ IsPrefix(IndexDirOf(nodes), p)}
    IN  {[source |-> id, now |-> CHOOSE p \in hits(id) : TRUE] :
            id \in {c \in Citing(nodes) :
                /\ SourceState(nodes[c], docs, locks) = "vanished"
                /\ Cardinality(hits(c)) = 1}}

\* FindRelocations: a source whose document is gone and was recorded, and the one
\* file a walk of the index's directory comes to that has those bytes.  Two such
\* files are an ambiguity, and no proposal.
FindRelocations(nodes, docs, locks) ==
    LET hits(id) == {p \in DOMAIN docs : /\ docs[p] # NoFile
                                         /\ docs[p] = Recorded(nodes[id], locks)
                                         /\ Walked(IndexDirOf(nodes), p)}
    IN  {[source |-> id, now |-> CHOOSE p \in hits(id) : TRUE] :
            id \in {c \in Citing(nodes) :
                /\ SourceState(nodes[c], docs, locks) = "vanished"
                /\ Cardinality(hits(c)) = 1}}
=============================================================================
