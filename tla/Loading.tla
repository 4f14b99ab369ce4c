------------------------------ MODULE Loading ------------------------------
(***************************************************************************)
(* Where an index's facts are, and what a load makes of them: discovery    *)
(* (scan.go, index.go), the choice between the store, the exported logs    *)
(* and the fact files nobody reads any more (storedFacts), and the         *)
(* high-water mark beside them (highwater.go).                             *)
(*                                                                         *)
(* A directory is the sequence of its components under the root, a file is *)
(* named by its directory: there is one *.kfacts.md, one facts.jsonl and   *)
(* one highwater.json of interest in each.  A log is a sequence of entries *)
(* [id, doc, at], each of them an assertion: nothing is withdrawn or       *)
(* retired here, which leaves where a document is as it was.               *)
(***************************************************************************)
EXTENDS Integers, Sequences, FiniteSets, TLC, SequencesExt

CONSTANTS
    Indexes,        \* the default index and the declared ones
    MarkerDir,      \* MarkerDir[i]: where .kg-index declares i; the root for the default
    WalkOrder,      \* the directories, in the order WalkDir visits their files
    DirLength,      \* DirLength[d]: the letters of its path; the root is "."
    NoFile          \* no such file

Root == << >>
Dirs == ToSet(WalkOrder)

\* The policies of a read: the default store if its file is there, or --store none.
Policies == {"default", "none"}

ASSUME LoadingAssumption ==
    /\ WalkOrder \in Seq(Seq(STRING))
    /\ MarkerDir \in [Indexes -> Dirs]
    /\ DirLength \in [Dirs -> Nat]
    /\ \E i \in Indexes : MarkerDir[i] = Root

Error(what) == [severity |-> "error", what |-> what]
Warning(what) == [severity |-> "warn", what |-> what]
Errors(findings) == {f \in findings : f.severity = "error"}

-----------------------------------------------------------------------------
(* Discovery. *)

\* The nearest marker at or above a directory decides.
IndexAt ==
    [dir \in Dirs |->
        CHOOSE i \in Indexes :
            /\ IsPrefix(MarkerDir[i], dir)
            /\ \A j \in Indexes :
                  IsPrefix(MarkerDir[j], dir) => Len(MarkerDir[j]) <= Len(MarkerDir[i])]

\* FindFacts and FindFactLogs: the files of one kind that belong to the index, as
\* their places in the walk.
FindIn(table, i) ==
    {k \in DOMAIN WalkOrder : IndexAt[WalkOrder[k]] = i /\ table[WalkOrder[k]] # NoFile}

\* Of the directories at some places the one with the shortest path, the first of
\* several; the root of none.
IndexDirOfPaths(places) ==
    IF places = {} THEN Root
    ELSE WalkOrder[CHOOSE k \in places : \A j \in places :
            LET mine == DirLength[WalkOrder[k]]
                its == DirLength[WalkOrder[j]]
            IN  mine < its \/ (mine = its /\ k <= j)]

\* An index's directory comes from its fact files while it has any, from its
\* exports once it does not: and is the root when its store is all it has.
Home(disk, i) ==
    LET paths == FindIn(disk.files, i)
        logs == FindIn(disk.logs, i)
    IN  IF paths = {} /\ logs # {} THEN IndexDirOfPaths(logs)
        ELSE IndexDirOfPaths(paths)

-----------------------------------------------------------------------------
(* From logs to nodes. *)

\* FoldAssertions, to what matters here: of each id the last entry by time, then
\* by position, declared by a file in dir.
Fold(dir, log) ==
    LET Before(j, k) == log[j].at < log[k].at \/ (log[j].at = log[k].at /\ j <= k)
        Of(id) == {k \in DOMAIN log : log[k].id = id}
    IN  [id \in {log[k].id : k \in DOMAIN log} |->
            [dir |-> dir,
             doc |-> log[CHOOSE k \in Of(id) : \A j \in Of(id) : Before(j, k)].doc]]

\* The rows a read finds in the store.
Stored(disk, i, policy) ==
    IF policy = "none" \/ disk.stores[i] = NoFile THEN << >> ELSE disk.stores[i]

\* A store with anything in it is the whole truth; one with nothing falls
\* through to the exports, one document for each.
StoredFacts(disk, i, policy) ==
    LET rows == Stored(disk, i, policy)
        logs == {k \in FindIn(disk.logs, i) : disk.logs[WalkOrder[k]] # << >>}
    IN  IF rows # << >> THEN << Fold(Home(disk, i), rows) >>
        ELSE [k \in logs |-> Fold(WalkOrder[k], disk.logs[WalkOrder[k]])]

\* Build, to the ids: of two declarations the first is kept, and it is an error.
Nodes(docs) ==
    [id \in UNION {DOMAIN docs[k] : k \in DOMAIN docs} |->
        docs[CHOOSE k \in DOMAIN docs :
                id \in DOMAIN docs[k] /\ \A j \in DOMAIN docs : id \in DOMAIN docs[j] => k <= j][id]]
Doubled(docs) ==
    \E j, k \in DOMAIN docs : j # k /\ DOMAIN docs[j] \cap DOMAIN docs[k] # {}

\* Fact files are never read: beside a store that won they are named, and where
\* nothing else was found they are an error.
ScanFactsIn(disk, i, policy) ==
    LET docs == StoredFacts(disk, i, policy)
        inert == FindIn(disk.files, i) # {}
    IN  [nodes |-> Nodes(docs),
         findings |-> (IF Doubled(docs) THEN {Error("duplicate id")} ELSE {})
                      \cup (IF ~inert THEN {}
                            ELSE IF DOMAIN docs # {} THEN {Warning("facts inert")}
                            ELSE {Error("facts unmigrated")})]

-----------------------------------------------------------------------------
(* The high-water mark. *)

\* The shortest path a node was declared under: of two as short the code takes
\* the first its map gives out, and this one of them.
IndexDirOf(nodes) ==
    IF DOMAIN nodes = {} THEN Root
    ELSE CHOOSE d \in {nodes[id].dir : id \in DOMAIN nodes} :
            \A id \in DOMAIN nodes : DirLength[d] <= DirLength[nodes[id].dir]

\* Mutant of HighWaterDir: the directory comes from the graph, empty or not.
MutantFromTheGraph(nodes, i) == IndexDirOf(nodes)

\* Where a load looks for the mark: a graph without a node cannot say, and its
\* marker can.
HighWaterDir(nodes, i) ==
    IF DOMAIN nodes # {} THEN IndexDirOf(nodes) ELSE MarkerDir[i]

CheckHighWater(nodes, mark) ==
    LET now == Cardinality(DOMAIN nodes)
    IN  IF mark = 0 THEN {}
        ELSE IF now = 0 THEN {Error("dark")}
        ELSE IF now * 2 < mark THEN {Warning("shrank")}
        ELSE {}
=============================================================================
