----------------------------- MODULE FoldCheck -----------------------------
(***************************************************************************)
(* FoldAssertions against what its comment promises, over every small log: *)
(* the states are logs, reached line by line in any order of timestamps,   *)
(* as syncing machines and skewed clocks produce them.  WriteOps extends   *)
(* this module with the logs that the write operations produce.            *)
(***************************************************************************)
EXTENDS FactLog

CONSTANTS
    MaxLines,       \* bound: a log this long is not begun on
    MaxAt,          \* bound: timestamps are 0..MaxAt
    Facts           \* the fields people assert

ASSUME FoldCheckAssumption ==
    /\ MaxAt \in Nat
    /\ Facts \subseteq Fields

VARIABLE log

NoLines == log = << >>

Lines ==
    UNION {
      {Line("assert", id, f, NoId, t) : id \in Ids, f \in Facts, t \in 0..MaxAt},
      {Line("withdraw", id, Absent, NoId, t) : id \in Ids, t \in 0..MaxAt},
      {Line("retire", id, Absent, into, t) : id \in Ids, into \in Ids, t \in 0..MaxAt}
    }

AnyLine ==
    /\ Len(log) < MaxLines
    /\ \E a \in Lines : a.id # a.into /\ log' = Append(log, a)

AnyLog == NoLines /\ [][AnyLine]_log

-----------------------------------------------------------------------------
Positions == 1..Len(log)

\* The position of the assert that decides id: the one no other assert of id
\* comes after.
Deciding(id) ==
    {k \in Positions :
        /\ log[k].id = id /\ log[k].op = "assert"
        /\ \A j \in Positions : log[j].id = id /\ log[j].op = "assert" => ~ Before(log, k, j)}

\* The lines of op that act on id after its deciding assert.
After(id, op) ==
    {j \in Positions : log[j].id = id /\ log[j].op = op
                        /\ \A k \in Deciding(id) : Before(log, k, j)}

\* "LAST WRITE PER ID WINS, ordered by At then by position" (FoldAssertions),
\* said without a loop: a node is what its last assert says, withdrawn if a
\* withdrawal follows that assert, folded into the target of the last retire
\* that follows it; an id never asserted is absent whatever else is said of it.
LastWriteWins ==
    \A id \in Ids :
        IF Deciding(id) = {} THEN Fold(log)[id] = Absent
        ELSE \E k \in Deciding(id) :
                /\ \A f \in {"kind", "words", "supersedes", "answers"} :
                       Fold(log)[id][f] = log[k].fields[f]
                /\ Fold(log)[id].status =
                       IF After(id, "withdraw") # {} THEN "withdrawn" ELSE log[k].fields.status
                /\ Fold(log)[id].same_as =
                       IF After(id, "retire") = {} THEN log[k].fields.same_as
                       ELSE log[CHOOSE j \in After(id, "retire") :
                                  \A i \in After(id, "retire") : ~ Before(log, j, i)].into

\* "The pair is what makes it safe for the database to be primary" (cmdImport):
\* an import that broke off after k lines and is run again, or one that is
\* simply repeated, double-records lines and folds to the same document.
ImportRetryConverges ==
    \A k \in 0..Len(log) :
        Fold(SubSeq(InFoldOrder(log), 1, k) \o InFoldOrder(log)) = Fold(log)
=============================================================================
