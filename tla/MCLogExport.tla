---------------------------- MODULE MCLogExport ----------------------------
(* Instances of LogExport for TLC. *)
EXTENDS LogExport

CONSTANTS e1, e2, m1

OldLine == [n |-> 1, at |-> 1]
Strange == [n |-> 9, at |-> 1]
ByAnother(lines) == [k \in DOMAIN lines |-> Entry(lines[k], "theirs")]

\* A line in the store and exported by another hand; the same with a line added in
\* an editor; a clone, which has the log and no row; and a store never exported.
Exported == [store |-> <<OldLine>>, file |-> ByAnother(<<OldLine>>)]
Edited == [store |-> <<OldLine>>, file |-> ByAnother(<<OldLine, Strange>>)]
Clone == [store |-> << >>, file |-> ByAnother(<<OldLine, Strange>>)]
Bare == [store |-> <<OldLine>>, file |-> NoFile]

AnyStart == {Exported, Clone, Edited, Bare}
OnlyExported == {Exported}

ExporterSymmetry == Permutations(Exporters)
=============================================================================
