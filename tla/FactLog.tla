------------------------------ MODULE FactLog ------------------------------
(***************************************************************************)
(* An assertion log and the document it folds to (assert.go), with the     *)
(* part of buildGraph (graph.go) that decides whether the document loads.  *)
(*                                                                         *)
(* A line's authored fields are abstracted to what the fold, the merge and *)
(* the checks tell apart: the kind, the words (with the kind, the CID),    *)
(* the status, the two references the write operations author, and the     *)
(* id the node was folded into.  A timestamp is a number of seconds.       *)
(***************************************************************************)
EXTENDS FoldOrder, TLC, SequencesExt

CONSTANTS
    Ids,            \* node ids
    Kinds,          \* claim, question, ...
    Words,          \* bodies
    NoId,           \* an absent reference
    Absent          \* the node of an id that no live assertion declares

ASSUME FactLogAssumption ==
    /\ IsFiniteSet(Ids)
    /\ NoId \notin Ids

MaybeId == Ids \cup {NoId}
Statuses == {"open", "resolved", "withdrawn"}

\* Assertion.Fields, and equally a folded node.
Fields == [kind : Kinds, words : Words, status : Statuses,
           supersedes : MaybeId, answers : MaybeId, same_as : MaybeId]

ASSUME AbsentIsNoNode == Absent \notin Fields

\* Assertion: one line.  `fields` matters to an assert and `into` to a retire.
Line(op, id, fields, into, at) ==
    [op |-> op, id |-> id, fields |-> fields, into |-> into, at |-> at]

-----------------------------------------------------------------------------
(* The fold. *)

NoDoc == [id \in Ids |-> Absent]

\* Mutant of ApplyLine: a withdrawal of an unknown id declares it withdrawn, and
\* an assert leaves a withdrawal standing.
MutantMergeOnAssert(doc, a) ==
    CASE a.op = "assert" /\ doc[a.id] # Absent ->
             [doc EXCEPT ![a.id] = [a.fields EXCEPT !.status = doc[a.id].status]]
      [] a.op = "assert" /\ doc[a.id] = Absent -> [doc EXCEPT ![a.id] = a.fields]
      [] a.op # "assert" /\ doc[a.id] = Absent -> doc
      [] a.op = "withdraw" /\ doc[a.id] # Absent -> [doc EXCEPT ![a.id].status = "withdrawn"]
      [] a.op = "retire" /\ doc[a.id] # Absent -> [doc EXCEPT ![a.id].same_as = a.into]

\* One turn of FoldAssertions' loop: an assert replaces the whole node, and a
\* withdraw or a retire of an id that is not live is a warning and no more.
ApplyLine(doc, a) ==
    CASE a.op = "assert" -> [doc EXCEPT ![a.id] = a.fields]
      [] a.op # "assert" /\ doc[a.id] = Absent -> doc
      [] a.op = "withdraw" /\ doc[a.id] # Absent -> [doc EXCEPT ![a.id].status = "withdrawn"]
      [] a.op = "retire" /\ doc[a.id] # Absent -> [doc EXCEPT ![a.id].same_as = a.into]

\* FoldAssertions' loop over lines that are in order.
FoldLines(lines) ==
    LET doc[k \in 0..Len(lines)] ==
            IF k = 0 THEN NoDoc ELSE ApplyLine(doc[k - 1], lines[k])
    IN  doc[Len(lines)]

\* FoldAssertions.
Fold(log) == FoldLines(InFoldOrder(log))

Asserts(lines, id) == {k \in 1..Len(lines) : lines[k].id = id /\ lines[k].op = "assert"}

LastIn(lines, id) ==
    IF Asserts(lines, id) = {} THEN Absent ELSE lines[Max(Asserts(lines, id))].fields

\* LastFields: the fields of the last assert of id in fold order, whatever was
\* said of id since; Absent when there is none.
LastFields(log, id) == LastIn(InFoldOrder(log), id)

-----------------------------------------------------------------------------
(* Whether the folded document builds. *)

Live(doc) == {id \in Ids : doc[id] # Absent}

Onward(doc, id) ==
    IF doc[id] = Absent \/ doc[id].same_as = NoId THEN id ELSE doc[id].same_as

\* The end of the `same_as` chain from id: merge's inner loop, which ends at a
\* node without `same_as`, at an unknown id, or (a cycle) not at all.
ChainEnd(doc, id) ==
    LET walk[n \in 0..Cardinality(Ids)] == IF n = 0 THEN id ELSE Onward(doc, walk[n - 1])
    IN  walk[Cardinality(Ids)]

Retired(doc) == {id \in Live(doc) : doc[id].same_as # NoId}

\* merge reports no cycle, no unknown survivor and no survivor of another kind.
Merges(doc) ==
    \A id \in Retired(doc) :
        LET end == ChainEnd(doc, id)
        IN  /\ doc[end] # Absent
            /\ doc[end].same_as = NoId
            /\ doc[end].kind = doc[id].kind

\* checkRefs: every edge ends at a declared node (a retired one resolves).
RefsResolve(doc) ==
    \A id \in Live(doc) : {doc[id].supersedes, doc[id].answers} \ {NoId} \subseteq Live(doc)

\* checkDuplicates: no two surviving nodes have one CID, withdrawn or not.
NoDuplicates(doc) ==
    \A a, b \in Live(doc) \ Retired(doc) :
        doc[a].kind = doc[b].kind /\ doc[a].words = doc[b].words => a = b

\* checkIdiom: a question does not answer.
Idiomatic(doc) ==
    \A id \in Live(doc) : doc[id].kind = "question" => doc[id].answers = NoId

\* FoldAssertions and BuildWith report no error.
Builds(doc) == Idiomatic(doc) /\ Merges(doc) /\ RefsResolve(doc) /\ NoDuplicates(doc)
=============================================================================
