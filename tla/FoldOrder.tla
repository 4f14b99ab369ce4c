----------------------------- MODULE FoldOrder -----------------------------
(***************************************************************************)
(* The order an assertion log is read in: Store.All's ORDER BY at, seq,    *)
(* which is the stable sort FoldAssertions begins with (assert.go).  Of a  *)
(* line only its timestamp `at` matters here.                              *)
(***************************************************************************)
EXTENDS Integers, Sequences, FiniteSets, SequencesExt

\* Ordered by `at`, then by position.
Before(log, i, j) ==
    log[i].at < log[j].at \/ (log[i].at = log[j].at /\ i < j)

\* Those of `order` that are not stamped later than position n.
NotLater(log, order, n) == {i \in 1..Len(order) : log[order[i]].at <= log[n].at}

\* Position n among `order`, the positions before it in fold order: after all
\* that are not stamped later.
Inserted(log, order, n) ==
    InsertAt(order, 1 + Cardinality(NotLater(log, order, n)), n)

\* The positions of the log in fold order.
FoldOrder(log) ==
    LET order[n \in 0..Len(log)] ==
            IF n = 0 THEN << >> ELSE Inserted(log, order[n - 1], n)
    IN  order[Len(log)]

Arranged(log, order) == [k \in 1..Len(log) |-> log[order[k]]]

\* Store.All: ORDER BY at, seq.
InFoldOrder(log) == Arranged(log, FoldOrder(log))
=============================================================================
