--------------------------- MODULE LogExportProofs ---------------------------
(***************************************************************************)
(* What LogExport's run checks on two exporters and a store of four lines, *)
(* for any number of exporters, importers and lines.                       *)
(***************************************************************************)
EXTENDS LogExport, FoldOrderProofs

-----------------------------------------------------------------------------
(* The inductive invariant. *)

\* What the store had, in fold order, when it held so many of its lines.
Past(s, lines) == \E k \in 0..Len(s) : lines = InFoldOrder(SubSeq(s, 1, k))

ExportedInv(f, s) == f \in Seq(Spelled) /\ Past(s, LinesOf(f))

FileInv(f, s) == f \in FirstFiles \/ ExportedInv(f, s)

Export == [pc : {"idle", "read", "sync", "rename"}, log : Seq(Row), content : Seq(Spelled),
           synced : BOOLEAN, found : Seq(Spelled) \cup {NoFile}]

\* An exporter that has the log: the file it met says no more.
ReadInv(x, s) ==
    x.pc = "read" => /\ Past(s, x.log)
                     /\ x.found \in Seq(Spelled) => ToSet(LinesOf(x.found)) \subseteq ToSet(x.log)

\* An exporter that has the new content: it has what the file it met has, if
\* that file still counts.
ContentInv(x, s) ==
    x.pc \in {"sync", "rename"} =>
        /\ ExportedInv(x.content, s)
        /\ x.pc = "rename" => x.synced
        /\ x.found \in Seq(Spelled) =>
              /\ ToSet(LinesOf(x.found)) \subseteq ToSet(LinesOf(x.content))
              /\ IsPrefix(LinesOf(x.found), LinesOf(x.content)) => IsPrefix(x.found, x.content)

ExportInv(x, s) == x \in Export /\ ReadInv(x, s) /\ ContentInv(x, s)

IInv ==
    /\ store \in Seq(Row) /\ clock \in Nat
    /\ FileInv(file, store) /\ FileInv(disk, store)
    /\ DOMAIN exporter = Exporters /\ \A e \in Exporters : ExportInv(exporter[e], store)
    /\ exporter = [e \in Exporters |-> exporter[e]]
    /\ importer \in [Importers -> Seq(Row)]

-----------------------------------------------------------------------------
(* Sequences. *)

LEMMA PrefixPointwise ==
    ASSUME NEW S, NEW s \in Seq(S), NEW t \in Seq(S)
    PROVE  IsPrefix(s, t) <=> Len(s) <= Len(t) /\ \A i \in 1..Len(s) : s[i] = t[i]
<1>1. Len(s) \in Nat /\ Len(t) \in Nat /\ SubSeq(s, 1, Len(s)) = s
  BY SubSeqFull
<1>2. CASE Len(s) <= Len(t)
  <2>1. /\ SubSeq(t, 1, Len(s)) \in Seq(S) /\ Len(SubSeq(t, 1, Len(s))) = Len(s)
        /\ \A i \in 1..Len(s) : SubSeq(t, 1, Len(s))[i] = t[i]
    <3>1. \A i \in 1..Len(s) : t[i] \in S
      BY <1>1, <1>2, ElementOfSeq
    <3> QED BY <1>1, <3>1, SubSeqProperties
  <2>2. (\A i \in 1..Len(s) : s[i] = t[i]) => s = SubSeq(t, 1, Len(s))
    BY <2>1, SeqEqual
  <2> QED BY <1>1, <1>2, <2>1, <2>2 DEF IsPrefix
<1>3. CASE ~ (Len(s) <= Len(t))
  BY <1>3 DEF IsPrefix
<1> QED BY <1>2, <1>3

LEMMA LinesOfFile ==
    ASSUME NEW f \in Seq(Spelled)
    PROVE  /\ LinesOf(f) \in Seq(Row) /\ Len(LinesOf(f)) = Len(f)
           /\ \A i \in 1..Len(f) : LinesOf(f)[i] = f[i].line
<1>1. \A i \in 1..Len(f) : f[i].line \in Row
  <2> SUFFICES ASSUME NEW i \in 1..Len(f) PROVE f[i].line \in Row
    OBVIOUS
  <2>1. f[i] \in Spelled
    BY ElementOfSeq
  <2> QED BY <2>1 DEF Spelled
<1> HIDE DEF Spelled, Row
<1>2. Len(f) \in Nat
  OBVIOUS
<1> DEFINE n == Len(f)
           g == [k \in 1..n |-> f[k].line]
<1>3. g \in [1..n -> Row]
  BY <1>1
<1>4. LinesOf(f) = g /\ \A i \in 1..n : g[i] = f[i].line
  BY DEF LinesOf
<1> HIDE DEF g, n
<1>5. g \in Seq(Row) /\ Len(g) = n
  BY <1>2, <1>3 DEF n
<1> QED BY <1>4, <1>5 DEF n

\* A log read in fold order has the same lines.
LEMMA InFoldOrderIsLog ==
    ASSUME NEW rows \in Seq(Row)
    PROVE  /\ InFoldOrder(rows) \in Seq(Row)
           /\ Len(InFoldOrder(rows)) = Len(rows)
           /\ ToSet(InFoldOrder(rows)) = ToSet(rows)
<1>1. Stamped(rows)
  <2>1. \A i \in 1..Len(rows) : rows[i] \in Row
    BY ElementOfSeq
  <2> QED BY <2>1 DEF Stamped, Row
<1>2. /\ DOMAIN InFoldOrder(rows) = 1..Len(rows) /\ Len(InFoldOrder(rows)) = Len(rows)
      /\ \A k \in 1..Len(rows) : FoldOrder(rows)[k] \in 1..Len(rows)
      /\ \A k \in 1..Len(rows) : InFoldOrder(rows)[k] = rows[FoldOrder(rows)[k]]
      /\ \A i \in 1..Len(rows) : \E k \in 1..Len(rows) : FoldOrder(rows)[k] = i
  BY <1>1, InFoldOrderKeepsLines
<1>3. InFoldOrder(rows) \in Seq(Row)
  <2>1. \A k \in 1..Len(rows) : rows[FoldOrder(rows)[k]] \in Row
    BY <1>2, ElementOfSeq
  <2>2. InFoldOrder(rows) = [k \in 1..Len(rows) |-> rows[FoldOrder(rows)[k]]]
    BY DEF InFoldOrder, Arranged
  <2> QED BY <2>1, <2>2
<1>4. ASSUME NEW k \in 1..Len(rows) PROVE InFoldOrder(rows)[k] \in ToSet(rows)
  <2>1. DOMAIN rows = 1..Len(rows)
    OBVIOUS
  <2>2. FoldOrder(rows)[k] \in DOMAIN rows /\ InFoldOrder(rows)[k] = rows[FoldOrder(rows)[k]]
    BY <1>2, <2>1
  <2> QED BY <2>2 DEF ToSet
<1>5. ASSUME NEW i \in 1..Len(rows) PROVE rows[i] \in ToSet(InFoldOrder(rows))
  BY <1>2 DEF ToSet
<1>6. ToSet(InFoldOrder(rows)) \subseteq ToSet(rows)
  BY <1>2, <1>4 DEF ToSet
<1>7. ToSet(rows) \subseteq ToSet(InFoldOrder(rows))
  BY <1>5 DEF ToSet
<1> QED BY <1>2, <1>3, <1>6, <1>7

LEMMA StoreUpTo ==
    ASSUME NEW rows \in Seq(Row), NEW k \in 0..Len(rows)
    PROVE  /\ SubSeq(rows, 1, k) \in Seq(Row) /\ Len(SubSeq(rows, 1, k)) = k
           /\ \A i \in 1..k : SubSeq(rows, 1, k)[i] = rows[i]
<1>1. \A i \in 1..k : rows[i] \in Row
  BY ElementOfSeq
<1> QED BY <1>1, SubSeqProperties

\* What the store held, it holds.
LEMMA PastIsKept ==
    ASSUME NEW s \in Seq(Row), NEW lines, Past(s, lines)
    PROVE  lines \in Seq(Row) /\ ToSet(lines) \subseteq ToSet(InFoldOrder(s))
<1>1. PICK k \in 0..Len(s) : lines = InFoldOrder(SubSeq(s, 1, k))
  BY DEF Past
<1>2. /\ SubSeq(s, 1, k) \in Seq(Row) /\ Len(SubSeq(s, 1, k)) = k
      /\ \A i \in 1..k : SubSeq(s, 1, k)[i] = s[i]
  BY StoreUpTo
<1>3. ToSet(SubSeq(s, 1, k)) \subseteq ToSet(s)
  BY <1>2 DEF ToSet
<1> QED BY <1>1, <1>2, <1>3, InFoldOrderIsLog

\* What it holds now is a past too.
LEMMA NowIsPast ==
    ASSUME NEW s \in Seq(Row)
    PROVE  Past(s, InFoldOrder(s))
<1>1. Len(s) \in 0..Len(s) /\ SubSeq(s, 1, Len(s)) = s
  BY SubSeqFull
<1> QED BY <1>1 DEF Past

\* The store only grows, and so the past stays past.
LEMMA PastStays ==
    ASSUME NEW s \in Seq(Row), NEW row \in Row
    PROVE  /\ Append(s, row) \in Seq(Row)
           /\ \A lines : Past(s, lines) => Past(Append(s, row), lines)
<1> DEFINE t == Append(s, row)
<1>1. t \in Seq(Row) /\ Len(t) \in Nat /\ Len(s) <= Len(t) /\ \A i \in 1..Len(s) : t[i] = s[i]
  BY AppendProperties
<1> HIDE DEF t
<1>2. ASSUME NEW k \in 0..Len(s) PROVE SubSeq(t, 1, k) = SubSeq(s, 1, k)
  <2>1. k \in 0..Len(t)
    BY <1>1
  <2>2. /\ SubSeq(t, 1, k) \in Seq(Row) /\ Len(SubSeq(t, 1, k)) = k
        /\ \A i \in 1..k : SubSeq(t, 1, k)[i] = t[i]
    BY <1>1, <2>1, StoreUpTo
  <2>3. /\ SubSeq(s, 1, k) \in Seq(Row) /\ Len(SubSeq(s, 1, k)) = k
        /\ \A i \in 1..k : SubSeq(s, 1, k)[i] = s[i]
    BY StoreUpTo
  <2>4. \A i \in 1..k : SubSeq(t, 1, k)[i] = SubSeq(s, 1, k)[i]
    BY <1>1, <2>2, <2>3
  <2> QED BY <2>2, <2>3, <2>4, SeqEqual
<1>3. \A k \in 0..Len(s) : k \in 0..Len(t)
  BY <1>1
<1>4. \A lines : Past(s, lines) => Past(t, lines)
  BY <1>2, <1>3 DEF Past
<1> QED BY <1>1, <1>4 DEF t

\* A file is a sequence of lines, whoever wrote it, or it cannot be read.
LEMMA FilesAreLines ==
    ASSUME NEW s, NEW f, FileInv(f, s)
    PROVE  f \in Seq(Spelled) \cup {NoFile, Torn}
<1>1. FirstFiles \subseteq Seq(Spelled) \cup {NoFile, Torn}
  <2> HIDE DEF Row, Spelled
  <2>1. Starts \subseteq [store : Seq(Row), file : Seq(Spelled) \cup {NoFile, Torn}]
    BY LogExportAssumption
  <2> QED BY <2>1 DEF FirstFiles
<1> QED BY <1>1 DEF FileInv, ExportedInv

\* The export of this store that a file may be.
LEMMA ProjectionsArePast ==
    ASSUME NEW f, FileInv(f, store), Projects(f)
    PROVE  f \in Seq(Spelled) /\ Past(store, LinesOf(f))
BY FilesAreLines DEF Projects, Past

-----------------------------------------------------------------------------
(* What an export writes. *)

LEMMA WrittenLines ==
    ASSUME NEW log \in Seq(Row), NEW from \in 0..Len(log)
    PROVE  /\ Written(log, from) \in Seq(Spelled) /\ Len(Written(log, from)) = Len(log) - from
           /\ \A i \in 1..(Len(log) - from) : Written(log, from)[i].line = log[from + i]
<1>1. Len(log) - from \in Nat
  OBVIOUS
<1> DEFINE n == Len(log) - from
           g == [k \in 1..n |-> Entry(log[from + k], "ours")]
<1>2. ASSUME NEW k \in 1..n PROVE Entry(log[from + k], "ours") \in Spelled
  <2>1. from + k \in 1..Len(log)
    OBVIOUS
  <2>2. log[from + k] \in Row
    BY <2>1, ElementOfSeq
  <2> HIDE DEF Row
  <2> QED BY <2>2 DEF Entry, Spelled
<1>3. g \in [1..n -> Spelled]
  BY <1>2
<1>4. Written(log, from) = g /\ \A k \in 1..n : g[k].line = log[from + k]
  BY DEF Written, Entry
<1> HIDE DEF g, n
<1>5. g \in Seq(Spelled) /\ Len(g) = n
  BY <1>1, <1>3 DEF n
<1> QED BY <1>4, <1>5 DEF n

\* The new content says what the log says, and keeps the bytes of a file that said
\* the first of it.
LEMMA ContentIsLog ==
    ASSUME NEW f \in Seq(Spelled) \cup {NoFile, Torn}, NEW log \in Seq(Row)
    PROVE  /\ Content(f, log) \in Seq(Spelled)
           /\ LinesOf(Content(f, log)) = log
           /\ f \in Seq(Spelled) /\ IsPrefix(LinesOf(f), log) => IsPrefix(f, Content(f, log))
<1>0. Len(log) \in Nat
  OBVIOUS
<1>1. Keeps(f, log) <=> f \in Seq(Spelled) /\ IsPrefix(LinesOf(f), log)
  <2> HIDE DEF Spelled
  <2> QED BY LogExportAssumption DEF Keeps
<1>2. ASSUME Keeps(f, log)
      PROVE  /\ f \in Seq(Spelled)
             /\ LinesOf(f) \in Seq(Row) /\ Len(LinesOf(f)) = Len(f) /\ Len(f) \in Nat
             /\ \A i \in 1..Len(f) : LinesOf(f)[i] = f[i].line
  <2>1. f \in Seq(Spelled)
    BY <1>1, <1>2
  <2> QED BY <2>1, LinesOfFile
<1>3. CASE Keeps(f, log)
  <2>0. /\ f \in Seq(Spelled) /\ IsPrefix(LinesOf(f), log)
        /\ LinesOf(f) \in Seq(Row) /\ Len(LinesOf(f)) = Len(f) /\ Len(f) \in Nat /\ Len(log) \in Nat
        /\ \A i \in 1..Len(f) : LinesOf(f)[i] = f[i].line
    BY <1>0, <1>1, <1>2, <1>3
  <2>1. Len(f) <= Len(log) /\ \A i \in 1..Len(f) : f[i].line = log[i]
    BY <2>0, PrefixPointwise
  <2> DEFINE w == Written(log, Len(f))
             c == f \o w
  <2>2. w \in Seq(Spelled) /\ Len(w) = Len(log) - Len(f)
        /\ \A i \in 1..(Len(log) - Len(f)) : w[i].line = log[Len(f) + i]
    <3>1. Len(f) \in 0..Len(log)
      BY <2>0, <2>1
    <3> HIDE DEF Spelled, Row
    <3> QED BY ONLY <3>1, WrittenLines, log \in Seq(Row) DEF w
  <2> HIDE DEF w
  <2>3. /\ c \in Seq(Spelled) /\ Len(c) = Len(log)
        /\ \A i \in 1..Len(f) : c[i] = f[i]
        /\ \A i \in 1..Len(log) : c[i] = IF i <= Len(f) THEN f[i] ELSE w[i - Len(f)]
    <3>1. Len(f) + Len(w) = Len(log)
      BY <2>0, <2>1, <2>2
    <3>2. c \in Seq(Spelled) /\ Len(c) = Len(f) + Len(w)
          /\ \A i \in 1..(Len(f) + Len(w)) : c[i] = IF i <= Len(f) THEN f[i] ELSE w[i - Len(f)]
      BY <2>0, <2>2, ConcatProperties
    <3> HIDE DEF c
    <3> QED BY <2>0, <2>1, <3>1, <3>2
  <2>4. Content(f, log) = c
    BY <1>1, <1>3 DEF Content, w
  <2> HIDE DEF c
  <2>5. ASSUME NEW i \in 1..Len(log) PROVE c[i].line = log[i]
    <3>1. CASE i <= Len(f)
      BY <2>0, <2>1, <2>3, <3>1
    <3>2. CASE ~ (i <= Len(f))
      <4>1. i - Len(f) \in 1..(Len(log) - Len(f)) /\ Len(f) + (i - Len(f)) = i
        BY <2>0, <2>1, <3>2
      <4>2. w[i - Len(f)].line = log[Len(f) + (i - Len(f))]
        BY <2>2, <4>1
      <4>3. c[i] = w[i - Len(f)]
        BY <2>3, <3>2
      <4> QED BY <4>1, <4>2, <4>3
    <3> QED BY <3>1, <3>2
  <2>6. LinesOf(c) = log
    <3>1. LinesOf(c) \in Seq(Row) /\ Len(LinesOf(c)) = Len(log)
          /\ \A i \in 1..Len(log) : LinesOf(c)[i] = log[i]
      BY <2>3, <2>5, LinesOfFile
    <3> QED BY <3>1, SeqEqual
  <2>7. IsPrefix(f, c)
    <3>1. Len(f) <= Len(c) /\ \A i \in 1..Len(f) : f[i] = c[i]
      BY <2>1, <2>3
    <3> HIDE DEF Spelled
    <3> QED BY <2>0, <2>3, <3>1, PrefixPointwise
  <2> QED BY <2>3, <2>4, <2>6, <2>7
<1>4. CASE ~ Keeps(f, log)
  <2>1. Content(f, log) = Written(log, 0)
    BY <1>1, <1>4 DEF Content
  <2> DEFINE w == Written(log, 0)
  <2>2. w \in Seq(Spelled) /\ Len(w) = Len(log)
        /\ \A i \in 1..Len(log) : w[i].line = log[i]
    <3>1. 0 \in 0..Len(log) /\ Len(log) - 0 = Len(log) /\ \A i \in 1..Len(log) : 0 + i = i
      BY <1>0
    <3> HIDE DEF w
    <3>2. /\ w \in Seq(Spelled) /\ Len(w) = Len(log) - 0
          /\ \A i \in 1..(Len(log) - 0) : w[i].line = log[0 + i]
      <4> HIDE DEF Spelled, Row
      <4> QED BY ONLY <3>1, WrittenLines, log \in Seq(Row) DEF w
    <3> QED BY <3>1, <3>2
  <2> HIDE DEF w
  <2>3. LinesOf(w) = log
    <3>1. LinesOf(w) \in Seq(Row) /\ Len(LinesOf(w)) = Len(log)
          /\ \A i \in 1..Len(log) : LinesOf(w)[i] = log[i]
      BY <2>2, LinesOfFile
    <3> QED BY <3>1, SeqEqual
  <2> QED BY <1>1, <1>4, <2>1, <2>2, <2>3 DEF w
<1> QED BY <1>3, <1>4

-----------------------------------------------------------------------------
(* The steps. *)

\* A file and an exporter that were right stay right as the store grows.
LEMMA ExportStays ==
    ASSUME NEW s, NEW t, \A lines : Past(s, lines) => Past(t, lines)
    PROVE  /\ \A f : FileInv(f, s) => FileInv(f, t)
           /\ \A x : ExportInv(x, s) => ExportInv(x, t)
BY DEF FileInv, ExportedInv, ExportInv, ReadInv, ContentInv

LEMMA IdleIsRight ==
    ASSUME NEW s
    PROVE  ExportInv(Idle, s)
<1>1. Idle \in Export
  <2> HIDE DEF Row, Spelled
  <2>1. << >> \in Seq(Row) /\ << >> \in Seq(Spelled)
    OBVIOUS
  <2> QED BY <2>1 DEF Idle, Export
<1>2. Idle.pc = "idle"
  BY DEF Idle
<1> QED BY <1>1, <1>2 DEF ExportInv, ReadInv, ContentInv

LEMMA InitIInv == Init => IInv
<1> SUFFICES ASSUME Init PROVE IInv
  OBVIOUS
<1>1. store \in Seq(Row) /\ clock \in Nat
  <2> HIDE DEF Row, Spelled
  <2>1. Starts \subseteq [store : Seq(Row), file : Seq(Spelled) \cup {NoFile, Torn}]
    BY LogExportAssumption
  <2> QED BY <2>1 DEF Init
<1>3. FileInv(file, store) /\ FileInv(disk, store)
  BY DEF Init, FileInv, FirstFiles
<1>4. /\ DOMAIN exporter = Exporters /\ \A e \in Exporters : ExportInv(exporter[e], store)
      /\ exporter = [e \in Exporters |-> exporter[e]]
  BY IdleIsRight DEF Init
<1>5. importer \in [Importers -> Seq(Row)]
  <2> HIDE DEF Row
  <2> QED BY DEF Init
<1> QED BY <1>1, <1>3, <1>4, <1>5 DEF IInv

\* A step that leaves the store and both files, and moves one exporter.
LEMMA ExporterStep ==
    ASSUME IInv, UNCHANGED <<store, clock, importer>>,
           NEW e \in Exporters, NEW x, ExportInv(x, store),
           exporter' = [exporter EXCEPT ![e] = x],
           FileInv(file', store), FileInv(disk', store)
    PROVE  IInv'
<1>1. /\ DOMAIN exporter' = Exporters /\ exporter' = [d \in Exporters |-> exporter'[d]]
      /\ \A d \in Exporters : exporter'[d] = IF d = e THEN x ELSE exporter[d]
  BY DEF IInv
<1>2. \A d \in Exporters : ExportInv(exporter'[d], store)
  BY <1>1 DEF IInv
<1>3. store' = store /\ clock' = clock /\ importer' = importer
  OBVIOUS
<1> QED BY <1>1, <1>2, <1>3 DEF IInv

LEMMA AppendStep ==
    ASSUME IInv, NEW row \in Row, store' = Append(store, row), clock' = clock,
           UNCHANGED <<file, disk, exporter>>, importer' \in [Importers -> Seq(Row)]
    PROVE  IInv'
<1>1. store' \in Seq(Row) /\ \A lines : Past(store, lines) => Past(store', lines)
  BY PastStays DEF IInv
<1>2. /\ \A f : FileInv(f, store) => FileInv(f, store')
      /\ \A x : ExportInv(x, store) => ExportInv(x, store')
  BY <1>1, ExportStays
<1>3. FileInv(file, store') /\ FileInv(disk, store') /\ \A e \in Exporters : ExportInv(exporter[e], store')
  BY <1>2 DEF IInv
<1>4. file' = file /\ disk' = disk /\ exporter' = exporter
  OBVIOUS
<1> QED BY <1>1, <1>3, <1>4 DEF IInv

LEMMA AppendToStoreStep == IInv /\ AppendToStore => IInv'
<1> SUFFICES ASSUME IInv, AppendToStore PROVE IInv'
  OBVIOUS
<1>1. PICK lead \in Leads : store' = Append(store, [n |-> Len(store) + 1, at |-> clock + lead])
  BY DEF AppendToStore
<1>2. [n |-> Len(store) + 1, at |-> clock + lead] \in Row
  <2>1. Len(store) \in Nat /\ clock \in Nat /\ lead \in Nat
    BY LogExportAssumption DEF IInv
  <2> QED BY <2>1 DEF Row
<1>3. clock' = clock /\ UNCHANGED <<file, disk, exporter>> /\ importer' \in [Importers -> Seq(Row)]
  BY DEF AppendToStore, IInv
<1> QED BY <1>1, <1>2, <1>3, AppendStep

LEMMA ImportLineStep ==
    ASSUME IInv, NEW m \in Importers, ImportLine(m)
    PROVE  IInv'
<1>1. Head(importer[m]) \in Row /\ Tail(importer[m]) \in Seq(Row)
  <2>1. importer[m] \in Seq(Row) /\ importer[m] # << >>
    BY DEF IInv, ImportLine
  <2> HIDE DEF Row
  <2> QED BY <2>1
<1>2. importer' \in [Importers -> Seq(Row)]
  BY <1>1 DEF ImportLine, IInv
<1> QED BY <1>1, <1>2, AppendStep DEF ImportLine

\* What leaves the store, the files and the exporters alone.
LEMMA TickStep == IInv /\ Tick => IInv'
<1> SUFFICES ASSUME IInv, Tick PROVE IInv'
  OBVIOUS
<1>1. clock' \in Nat
  BY DEF Tick, IInv
<1>2. store' = store /\ file' = file /\ disk' = disk /\ exporter' = exporter /\ importer' = importer
  BY DEF Tick
<1> QED BY <1>1, <1>2 DEF IInv

LEMMA ImporterStep ==
    ASSUME IInv, NEW m \in Importers, BeginImport(m) \/ StopImport(m)
    PROVE  IInv'
<1>1. /\ file \notin {NoFile, Torn} => LinesOf(file) \in Seq(Row)
      /\ << >> \in Seq(Row)
  <2>1. file \notin {NoFile, Torn} => file \in Seq(Spelled)
    BY FilesAreLines DEF IInv
  <2> QED BY <2>1, LinesOfFile
<1>2. importer' \in [Importers -> Seq(Row)]
  BY <1>1 DEF BeginImport, StopImport, IInv
<1>3. store' = store /\ clock' = clock /\ file' = file /\ disk' = disk /\ exporter' = exporter
  BY DEF BeginImport, StopImport
<1> QED BY <1>2, <1>3 DEF IInv

LEMMA ReadStoreStep ==
    ASSUME IInv, NEW e \in Exporters, ReadStore(e)
    PROVE  IInv'
<1> DEFINE met == IF Projects(file) THEN file ELSE NoFile
           x == [Idle EXCEPT !.pc = "read", !.log = InFoldOrder(store), !.found = met]
<1>1. Past(store, InFoldOrder(store)) /\ InFoldOrder(store) \in Seq(Row)
  BY NowIsPast, InFoldOrderIsLog DEF IInv
<1>2. /\ met \in Seq(Spelled) \cup {NoFile}
      /\ met \in Seq(Spelled) => ToSet(LinesOf(met)) \subseteq ToSet(InFoldOrder(store))
  <2>1. ASSUME Projects(file)
        PROVE  file \in Seq(Spelled) /\ ToSet(LinesOf(file)) \subseteq ToSet(InFoldOrder(store))
    BY <2>1, ProjectionsArePast, PastIsKept DEF IInv
  <2>2. NoFile \notin Seq(Spelled)
    BY LogExportAssumption
  <2> HIDE DEF Spelled
  <2> QED BY <2>1, <2>2
<1>3. exporter' = [exporter EXCEPT ![e] = x]
  BY DEF ReadStore
<1> HIDE DEF x, met
<1>4. x \in Export /\ x.pc = "read" /\ x.log = InFoldOrder(store) /\ x.found = met
  <2>1. Idle \in Export
    BY IdleIsRight DEF ExportInv
  <2> HIDE DEF Spelled, Row
  <2> QED BY <1>1, <1>2, <2>1 DEF Export, x
<1>5. ExportInv(x, store)
  BY <1>1, <1>2, <1>4 DEF ExportInv, ReadInv, ContentInv
<1>6. FileInv(file', store) /\ FileInv(disk', store) /\ UNCHANGED <<store, clock, importer>>
  BY DEF ReadStore, IInv
<1> QED BY <1>3, <1>5, <1>6, ExporterStep

LEMMA ReadFileStep ==
    ASSUME IInv, NEW e \in Exporters, ReadFile(e)
    PROVE  IInv'
<1> DEFINE log == exporter[e].log
           x == [exporter[e] EXCEPT !.pc = "sync", !.log = << >>, !.content = Content(file, log),
                                    !.found = IF file = exporter[e].found THEN file ELSE NoFile]
<1>1. FileInv(file', store) /\ FileInv(disk', store) /\ UNCHANGED <<store, clock, importer>>
  BY DEF ReadFile, IInv
<1>2. CASE exporter' = [exporter EXCEPT ![e] = Idle]
  BY <1>1, <1>2, IdleIsRight, ExporterStep
<1>3. CASE exporter' = [exporter EXCEPT ![e] = x]
  <2>1. /\ exporter[e] \in Export /\ exporter[e].pc = "read" /\ Past(store, log) /\ log \in Seq(Row)
        /\ exporter[e].found \in Seq(Spelled) => ToSet(LinesOf(exporter[e].found)) \subseteq ToSet(log)
    <3>1. ExportInv(exporter[e], store) /\ exporter[e].pc = "read"
      BY DEF IInv, ReadFile
    <3> QED BY <3>1, PastIsKept DEF IInv, ExportInv, ReadInv
  <2>2. file \in Seq(Spelled) \cup {NoFile, Torn}
    BY FilesAreLines DEF IInv
  <2> DEFINE c == Content(file, log)
  <2>3. c \in Seq(Spelled) /\ LinesOf(c) = log
        /\ (file \in Seq(Spelled) /\ IsPrefix(LinesOf(file), log) => IsPrefix(file, c))
    BY <2>1, <2>2, ContentIsLog
  <2> HIDE DEF c, log
  <2>4. x = [exporter[e] EXCEPT !.pc = "sync", !.log = << >>, !.content = c,
                                !.found = IF file = exporter[e].found THEN file ELSE NoFile]
    BY DEF c
  <2> HIDE DEF x
  <2>5. /\ x \in Export /\ x.pc = "sync" /\ x.content = c
        /\ x.found = IF file = exporter[e].found THEN file ELSE NoFile
    <3>1. << >> \in Seq(Row)
      OBVIOUS
    <3> HIDE DEF Spelled, Row
    <3> QED BY <2>1, <2>2, <2>3, <2>4, <3>1 DEF Export
  <2>6. NoFile \notin Seq(Spelled)
    BY LogExportAssumption
  <2>7. x.found \in Seq(Spelled) => x.found = file /\ ToSet(LinesOf(file)) \subseteq ToSet(log)
    BY <2>1, <2>5, <2>6
  <2>8. ExportInv(x, store)
    BY <2>1, <2>3, <2>5, <2>7 DEF ExportInv, ReadInv, ContentInv, ExportedInv
  <2> QED BY <1>1, <1>3, <2>8, ExporterStep
<1> QED BY <1>2, <1>3 DEF ReadFile

LEMMA SyncStep ==
    ASSUME IInv, NEW e \in Exporters, Sync(e)
    PROVE  IInv'
<1> DEFINE x == [exporter[e] EXCEPT !.pc = "rename", !.synced = TRUE]
<1>1. exporter' = [exporter EXCEPT ![e] = x]
  BY DEF Sync, IInv
<1>2. ExportInv(exporter[e], store) /\ exporter[e] \in Export /\ exporter[e].pc = "sync"
  BY DEF Sync, IInv, ExportInv
<1>3. x \in Export /\ x.pc = "rename" /\ x.synced = TRUE /\ x.content = exporter[e].content /\ x.found = exporter[e].found
  <2> HIDE DEF Spelled, Row
  <2> QED BY <1>2 DEF Export
<1> HIDE DEF x
<1>4. ExportInv(x, store)
  BY <1>2, <1>3 DEF ExportInv, ReadInv, ContentInv
<1>5. FileInv(file', store) /\ FileInv(disk', store) /\ UNCHANGED <<store, clock, importer>>
  BY DEF Sync, IInv
<1> QED BY <1>1, <1>4, <1>5, ExporterStep

LEMMA RenameStep ==
    ASSUME IInv, NEW e \in Exporters, Rename(e)
    PROVE  IInv'
<1>1. exporter[e].pc = "rename" /\ ExportInv(exporter[e], store)
  BY DEF Rename, IInv
<1>2. FileInv(exporter[e].content, store) /\ exporter[e].synced
  BY <1>1 DEF ExportInv, ContentInv, FileInv
<1>3. FileInv(file', store) /\ FileInv(disk', store)
  BY <1>2 DEF Rename, IInv
<1>4. exporter' = [exporter EXCEPT ![e] = Idle] /\ UNCHANGED <<store, clock, importer>>
  BY DEF Rename
<1> QED BY <1>3, <1>4, IdleIsRight, ExporterStep

LEMMA StopExportStep ==
    ASSUME IInv, NEW e \in Exporters, StopExport(e)
    PROVE  IInv'
<1>1. /\ exporter' = [exporter EXCEPT ![e] = Idle] /\ UNCHANGED <<store, clock, importer>>
      /\ FileInv(file', store) /\ FileInv(disk', store)
  BY DEF StopExport, IInv
<1> QED BY <1>1, IdleIsRight, ExporterStep

LEMMA PowerLossStep == IInv /\ PowerLoss => IInv'
<1> SUFFICES ASSUME IInv, PowerLoss PROVE IInv'
  OBVIOUS
<1>1. /\ DOMAIN exporter' = Exporters /\ \A e \in Exporters : ExportInv(exporter'[e], store)
      /\ exporter' = [e \in Exporters |-> exporter'[e]]
  BY IdleIsRight DEF PowerLoss
<1>2. << >> \in Seq(Row)
  OBVIOUS
<1>3. importer' \in [Importers -> Seq(Row)]
  BY <1>2 DEF PowerLoss
<1>4. FileInv(file', store) /\ FileInv(disk', store) /\ store' = store /\ clock' = clock
  BY DEF PowerLoss, IInv
<1> QED BY <1>1, <1>3, <1>4 DEF IInv

LEMMA StepIInv == IInv /\ [Next]_vars => IInv'
<1> SUFFICES ASSUME IInv, [Next]_vars PROVE IInv'
  OBVIOUS
<1>1. CASE UNCHANGED vars
  BY <1>1 DEF vars, IInv
<1>2. CASE AppendToStore
  BY <1>2, AppendToStoreStep
<1>3. CASE Tick
  BY <1>3, TickStep
<1>4. CASE PowerLoss
  BY <1>4, PowerLossStep
<1>5. ASSUME NEW e \in Exporters,
             ReadStore(e) \/ ReadFile(e) \/ Sync(e) \/ Rename(e) \/ StopExport(e)
      PROVE  IInv'
  BY <1>5, ReadStoreStep, ReadFileStep, SyncStep, RenameStep, StopExportStep
<1>6. ASSUME NEW m \in Importers, BeginImport(m) \/ ImportLine(m) \/ StopImport(m)
      PROVE  IInv'
  BY <1>6, ImporterStep, ImportLineStep
<1> QED BY <1>1, <1>2, <1>3, <1>4, <1>5, <1>6 DEF Next

-----------------------------------------------------------------------------
\* The inductive invariant holds in every reachable state: every file, temporary
\* or not, is one that was found at first or holds what the store held at some
\* moment, and an exporter that found such an export and met no other has all that
\* it had.
THEOREM Invariance == Spec => []IInv
<1>1. Init => IInv
  BY InitIInv
<1>2. IInv /\ [Next]_vars => IInv'
  BY StepIInv
<1> QED BY <1>1, <1>2, PTL DEF Spec

\* ExportJSONL's "WRITTEN WHOLE OR NOT AT ALL", for any number of exporters and
\* importers, any store, any file to begin with, somebody else's, edited, torn or
\* none, and any crash: facts.jsonl is that file still, or what the store held once.
THEOREM FileIsWhole == Spec => []FileIsAPastStore
<1>1. IInv => FileIsAPastStore
  <2> SUFFICES ASSUME IInv, file \notin FirstFiles PROVE Projects(file)
    BY DEF FileIsAPastStore
  <2>1. file \in Seq(Spelled) /\ Past(store, LinesOf(file))
    BY DEF IInv, FileInv, ExportedInv
  <2>2. file \notin {NoFile, Torn}
    <3> HIDE DEF Spelled
    <3> QED BY <2>1, LogExportAssumption
  <2> QED BY <2>1, <2>2 DEF Projects, Past
<1> QED BY <1>1, Invariance, PTL

\* ExportJSONL's "A LINE ALREADY IN THE FILE IS NEVER REWRITTEN", for any log,
\* however its lines are stamped: an export that finds an export of this store, and
\* meets no other, takes no line out, and while the log begins with the lines of the
\* file it leaves its bytes where they are.
THEOREM ExportExtends == Spec => UnracedExportExtends
<1> DEFINE Extends ==
             Unraced => /\ ToSet(LinesOf(file)) \subseteq ToSet(LinesOf(file'))
                        /\ IsPrefix(LinesOf(file), LinesOf(file')) => IsPrefix(file, file')
<1>1. IInv => [Extends]_vars
  <2> SUFFICES ASSUME IInv, Unraced
               PROVE  /\ ToSet(LinesOf(file)) \subseteq ToSet(LinesOf(file'))
                      /\ IsPrefix(LinesOf(file), LinesOf(file')) => IsPrefix(file, file')
    OBVIOUS
  <2>1. PICK e \in Exporters : /\ Rename(e) /\ exporter[e].found # NoFile
                               /\ file = exporter[e].found
    BY DEF Unraced
  <2>2. /\ exporter[e].pc = "rename" /\ ExportInv(exporter[e], store) /\ file' = exporter[e].content
    BY <2>1 DEF Rename, IInv
  <2>3. exporter[e].pc \in {"sync", "rename"} /\ ContentInv(exporter[e], store)
    BY <2>2 DEF ExportInv
  <2>4. file \in Seq(Spelled)
    <3>1. exporter[e] \in Export
      BY <2>2 DEF ExportInv
    <3> HIDE DEF Spelled
    <3> QED BY <2>1, <3>1 DEF Export
  <2> QED BY <2>1, <2>2, <2>3, <2>4 DEF ContentInv
<1>2. Spec => [][Extends]_vars
  BY <1>1, Invariance, PTL DEF Spec
<1> QED BY <1>2 DEF UnracedExportExtends
=============================================================================
