---------------------------- MODULE ProjectProofs ----------------------------
(***************************************************************************)
(* What Project's run checks over two indexes and three documents, for any *)
(* number of indexes, directories, documents, scanners and commands.       *)
(***************************************************************************)
EXTENDS Project, FoldOrderProofs

Disk == [files : [Dirs -> Logs], logs : [Dirs -> Logs], stores : [Indexes -> Logs],
         marks : [Dirs -> Nat]]
ScanOf == [pc : {"idle", "read", "write"}, index : Indexes \cup {NoFile}, dir : Dirs, count : Nat]

-----------------------------------------------------------------------------
(* The inductive invariant. *)

\* A scan that is about to write has counted something.
ScanInv(x) ==
    /\ x \in ScanOf
    /\ x.pc # "idle" => x.index \in Indexes
    /\ x.pc = "write" => x.count > 0

\* An index a scan has been through has a mark at its marker.
MarksInv(marks, through) ==
    through \subseteq Indexes /\ \A i \in through : marks[MarkerDir[i]] > 0

IInv ==
    /\ disk \in Disk
    /\ DOMAIN locks = Dirs
    /\ scans = [s \in Scanners |-> scans[s]] /\ \A s \in Scanners : ScanInv(scans[s])
    /\ MarksInv(disk.marks, marked)

-----------------------------------------------------------------------------
(* Directories. *)

LEMMA WalkIsASequence ==
    /\ Len(WalkOrder) \in Nat /\ DOMAIN WalkOrder = 1..Len(WalkOrder)
    /\ \A k \in DOMAIN WalkOrder : WalkOrder[k] \in Dirs
    /\ \A d \in Dirs : DirLength[d] \in Nat
    /\ \A i \in Indexes : MarkerDir[i] \in Dirs
    /\ Root \in Dirs
<1>1. WalkOrder \in Seq(Seq(STRING)) /\ MarkerDir \in [Indexes -> Dirs]
      /\ \E i \in Indexes : MarkerDir[i] = Root
  BY LoadingAssumption
<1>2. \A k \in DOMAIN WalkOrder : WalkOrder[k] \in Seq(STRING)
  BY <1>1, ElementOfSeq, LenProperties
<1>3. Dirs = {WalkOrder[k] : k \in DOMAIN WalkOrder}
  BY DEF Dirs, ToSet
<1>4. \A d \in Dirs : DirLength[d] \in Nat
  BY LoadingAssumption
<1> QED BY <1>1, <1>3, <1>4, LenProperties

\* Among some places of the walk one is the shortest, and the first of those.
LEMMA Shallowest ==
    ASSUME NEW places \in SUBSET DOMAIN WalkOrder, places # {}
    PROVE  \E k \in places : \A j \in places :
              LET mine == DirLength[WalkOrder[k]]
                  its == DirLength[WalkOrder[j]]
              IN  mine < its \/ (mine = its /\ k <= j)
<1> DEFINE deep(k) == DirLength[WalkOrder[k]]
           lens == {deep(k) : k \in places}
<1>1. \A k \in places : k \in Nat /\ deep(k) \in Nat
  BY WalkIsASequence
<1>2. lens \in SUBSET Nat /\ lens # {}
  BY <1>1
<1>3. PICK least \in lens : \A x \in lens : least <= x
  <2> HIDE DEF lens
  <2> QED BY <1>2, Smallest
<1> DEFINE those == {k \in places : deep(k) = least}
<1>4. those \in SUBSET Nat /\ those # {}
  BY <1>1
<1>5. PICK k \in those : \A j \in those : k <= j
  <2> HIDE DEF those
  <2> QED BY <1>4, Smallest
<1>6. ASSUME NEW j \in places PROVE deep(k) < deep(j) \/ (deep(k) = deep(j) /\ k <= j)
  <2>1. deep(k) \in Nat /\ deep(j) \in Nat /\ deep(k) = least /\ least <= deep(j)
    BY <1>1, <1>3
  <2>2. deep(j) = least => k <= j
    BY <1>5
  <2> HIDE DEF deep
  <2> QED BY <2>1, <2>2
<1> QED BY <1>6

LEMMA IndexDirIsADir ==
    ASSUME NEW places \in SUBSET DOMAIN WalkOrder
    PROVE  IndexDirOfPaths(places) \in Dirs
<1>1. CASE places = {}
  BY <1>1, WalkIsASequence DEF IndexDirOfPaths
<1>2. CASE places # {}
  <2> DEFINE IsIt(k) == \A j \in places :
                LET mine == DirLength[WalkOrder[k]]
                    its == DirLength[WalkOrder[j]]
                IN  mine < its \/ (mine = its /\ k <= j)
  <2>1. \E k \in places : IsIt(k)
    BY <1>2, Shallowest
  <2>2. IndexDirOfPaths(places) = WalkOrder[CHOOSE k \in places : IsIt(k)]
    BY <1>2 DEF IndexDirOfPaths
  <2> HIDE DEF IsIt
  <2>3. (CHOOSE k \in places : IsIt(k)) \in places
    BY <2>1
  <2> QED BY <2>2, <2>3, WalkIsASequence
<1> QED BY <1>1, <1>2

LEMMA HomeIsADir ==
    ASSUME NEW dk, NEW i
    PROVE  Home(dk, i) \in Dirs
<1>1. FindIn(dk.files, i) \in SUBSET DOMAIN WalkOrder /\ FindIn(dk.logs, i) \in SUBSET DOMAIN WalkOrder
  BY DEF FindIn
<1>2. IndexDirOfPaths(FindIn(dk.files, i)) \in Dirs /\ IndexDirOfPaths(FindIn(dk.logs, i)) \in Dirs
  BY <1>1, IndexDirIsADir
<1> QED BY <1>2 DEF Home

-----------------------------------------------------------------------------
(* What a load finds. *)

LEMMA IdsAreFinite ==
    /\ Ids \in Seq(ToSet(Ids)) /\ DOMAIN Ids = 1..Len(Ids) /\ Len(Ids) \in Nat
    /\ IsFiniteSet(ToSet(Ids))
<1>1. Ids \in Seq(ToSet(Ids))
  BY ProjectAssumption
<1>2. DOMAIN Ids = 1..Len(Ids) /\ Len(Ids) \in Nat
  BY <1>1, LenProperties
<1>3. IsFiniteSet(1..Len(Ids))
  BY <1>2, FS_Interval
<1>4. Ids \in Surjection(1..Len(Ids), ToSet(Ids))
  <2>1. Ids \in [1..Len(Ids) -> ToSet(Ids)]
    BY <1>1, <1>2, LenProperties
  <2>2. \A x \in ToSet(Ids) : \E k \in 1..Len(Ids) : Ids[k] = x
    BY <1>2 DEF ToSet
  <2> QED BY <2>1, <2>2 DEF Surjection
<1>5. IsFiniteSet(ToSet(Ids))
  <2> DEFINE these == ToSet(Ids)
  <2> HIDE DEF these
  <2> QED BY <1>3, <1>4, FS_Surjection DEF these
<1> QED BY <1>1, <1>2, <1>5

LEMMA FoldIsHome ==
    ASSUME NEW dir, NEW log \in Seq(Entry)
    PROVE  \A id \in DOMAIN Fold(dir, log) : id \in ToSet(Ids) /\ Fold(dir, log)[id].dir = dir
<1>1. \A k \in DOMAIN log : log[k].id \in ToSet(Ids)
  <2>1. \A k \in DOMAIN log : log[k] \in Entry
    BY LenProperties, ElementOfSeq
  <2> QED BY <2>1 DEF Entry
<1> QED BY <1>1 DEF Fold

\* The documents a read finds: each says which directory its facts are from.
LEMMA StoredFactsAreHome ==
    ASSUME NEW dk \in Disk, NEW i \in Indexes, NEW policy
    PROVE  /\ DOMAIN StoredFacts(dk, i, policy) \in SUBSET Nat
           /\ \A k \in DOMAIN StoredFacts(dk, i, policy) :
                 \A id \in DOMAIN StoredFacts(dk, i, policy)[k] :
                    /\ id \in ToSet(Ids)
                    /\ StoredFacts(dk, i, policy)[k][id].dir \in Dirs
<1> DEFINE rows == Stored(dk, i, policy)
           logs == {k \in FindIn(dk.logs, i) : dk.logs[WalkOrder[k]] # << >>}
           found == StoredFacts(dk, i, policy)
<1>1. rows \in Seq(Entry)
  <2>1. dk.stores[i] \in Logs
    BY DEF Disk
  <2>2. << >> \in Seq(Entry)
    BY EmptySeq
  <2> QED BY <2>1, <2>2 DEF Stored, Logs
<1>2. CASE rows # << >>
  <2>1. found = << Fold(Home(dk, i), rows) >>
    BY <1>2 DEF StoredFacts
  <2>2. \A id \in DOMAIN Fold(Home(dk, i), rows) :
            id \in ToSet(Ids) /\ Fold(Home(dk, i), rows)[id].dir = Home(dk, i)
    <3> HIDE DEF rows
    <3> QED BY <1>1, FoldIsHome
  <2>3. DOMAIN found = {1} /\ found[1] = Fold(Home(dk, i), rows)
    BY <2>1
  <2> HIDE DEF found, rows
  <2> QED BY <2>2, <2>3, HomeIsADir DEF found
<1>3. CASE rows = << >>
  <2>1. found = [k \in logs |-> Fold(WalkOrder[k], dk.logs[WalkOrder[k]])]
    BY <1>3 DEF StoredFacts
  <2>2. logs \in SUBSET DOMAIN WalkOrder /\ \A k \in logs : dk.logs[WalkOrder[k]] # NoFile
    BY DEF FindIn
  <2>3. ASSUME NEW k \in logs
        PROVE  /\ k \in Nat /\ WalkOrder[k] \in Dirs
               /\ \A id \in DOMAIN Fold(WalkOrder[k], dk.logs[WalkOrder[k]]) :
                    /\ id \in ToSet(Ids)
                    /\ Fold(WalkOrder[k], dk.logs[WalkOrder[k]])[id].dir = WalkOrder[k]
    <3>1. k \in Nat /\ WalkOrder[k] \in Dirs
      BY <2>2, WalkIsASequence
    <3>2. dk.logs[WalkOrder[k]] \in Seq(Entry)
      BY <2>2, <3>1 DEF Disk, Logs
    <3> QED BY <3>1, <3>2, FoldIsHome
  <2> HIDE DEF found, logs
  <2>4. DOMAIN found = logs /\ \A k \in logs : found[k] = Fold(WalkOrder[k], dk.logs[WalkOrder[k]])
    BY <2>1
  <2> QED BY <2>3, <2>4 DEF found
<1> QED BY <1>2, <1>3

\* Of several declarations the first is kept, and there is a first.
LEMMA NodesAreDeclared ==
    ASSUME NEW found, DOMAIN found \in SUBSET Nat, NEW id \in DOMAIN Nodes(found)
    PROVE  \E k \in DOMAIN found : id \in DOMAIN found[k] /\ Nodes(found)[id] = found[k][id]
<1> DEFINE those == {k \in DOMAIN found : id \in DOMAIN found[k]}
           IsIt(k) == id \in DOMAIN found[k]
                      /\ \A j \in DOMAIN found : id \in DOMAIN found[j] => k <= j
<1>1. those \in SUBSET Nat /\ those # {}
  BY DEF Nodes
<1>2. PICK least \in those : \A j \in those : least <= j
  <2> HIDE DEF those
  <2> QED BY <1>1, Smallest
<1>3. \E k \in DOMAIN found : IsIt(k)
  BY <1>2
<1>4. Nodes(found)[id] = found[CHOOSE k \in DOMAIN found : IsIt(k)][id]
  BY DEF Nodes
<1> DEFINE first == CHOOSE k \in DOMAIN found : IsIt(k)
<1>5. first \in DOMAIN found /\ IsIt(first)
  <2> HIDE DEF IsIt
  <2> QED BY <1>3
<1> QED BY <1>4, <1>5

\* A load finds known ids, declared in known directories: finitely many.
LEMMA NodesAreHome ==
    ASSUME NEW dk \in Disk, NEW i \in Indexes, NEW policy
    PROVE  LET nodes == ScanFactsIn(dk, i, policy).nodes
           IN  /\ \A id \in DOMAIN nodes : id \in ToSet(Ids) /\ nodes[id].dir \in Dirs
               /\ Cardinality(DOMAIN nodes) \in Nat
               /\ Cardinality(DOMAIN nodes) = 0 => DOMAIN nodes = {}
<1> DEFINE found == StoredFacts(dk, i, policy)
           nodes == Nodes(found)
<1>1. ScanFactsIn(dk, i, policy).nodes = nodes
  BY DEF ScanFactsIn
<1>2. \A id \in DOMAIN nodes : id \in ToSet(Ids) /\ nodes[id].dir \in Dirs
  <2>1. /\ DOMAIN found \in SUBSET Nat
        /\ \A k \in DOMAIN found : \A id \in DOMAIN found[k] :
              id \in ToSet(Ids) /\ found[k][id].dir \in Dirs
    BY StoredFactsAreHome
  <2> HIDE DEF found
  <2> QED BY <2>1, NodesAreDeclared
<1> HIDE DEF nodes
<1>3. IsFiniteSet(DOMAIN nodes)
  <2>1. DOMAIN nodes \in SUBSET ToSet(Ids)
    BY <1>2
  <2> QED BY <2>1, IdsAreFinite, FS_Subset
<1>4. Cardinality(DOMAIN nodes) \in Nat /\ (Cardinality(DOMAIN nodes) = 0 => DOMAIN nodes = {})
  BY <1>3, FS_CardinalityType, FS_EmptySet
<1> QED BY <1>1, <1>2, <1>4

LEMMA NodesComeFromADir ==
    ASSUME NEW nodes, \A id \in DOMAIN nodes : nodes[id].dir \in Dirs
    PROVE  IndexDirOf(nodes) \in Dirs
<1>1. CASE DOMAIN nodes = {}
  BY <1>1, WalkIsASequence DEF IndexDirOf
<1>2. CASE DOMAIN nodes # {}
  <2> DEFINE dirs == {nodes[id].dir : id \in DOMAIN nodes}
             lens == {DirLength[d] : d \in dirs}
             IsIt(d) == \A id \in DOMAIN nodes : DirLength[d] <= DirLength[nodes[id].dir]
  <2>1. dirs \in SUBSET Dirs /\ dirs # {}
    BY <1>2
  <2>2. lens \in SUBSET Nat /\ lens # {}
    <3> HIDE DEF dirs
    <3> QED BY <2>1, WalkIsASequence
  <2>3. PICK least \in lens : \A x \in lens : least <= x
    <3> HIDE DEF lens
    <3> QED BY <2>2, Smallest
  <2>4. \E d \in dirs : IsIt(d)
    BY <2>3
  <2>5. IndexDirOf(nodes) = CHOOSE d \in dirs : IsIt(d)
    BY <1>2 DEF IndexDirOf
  <2> HIDE DEF IsIt, dirs
  <2> QED BY <2>1, <2>4, <2>5
<1> QED BY <1>1, <1>2

-----------------------------------------------------------------------------
(* What a migration appends. *)

LEMMA FactEntriesAreEntries ==
    ASSUME NEW dk \in Disk, NEW i
    PROVE  FactEntries(dk, i) \in Seq(Entry)
<1> DEFINE last == Len(WalkOrder)
           More(all, k) == IF k \in FindIn(dk.files, i) THEN all \o dk.files[WalkOrder[k]] ELSE all
           Is(f, m) == f = [k \in 0..m |-> IF k = 0 THEN << >> ELSE More(f[k - 1], k)]
<1>1. \A m \in Nat : \E f : Is(f, m)
  <2> DEFINE S == {m \in Nat : \E f : Is(f, m)}
  <2> HIDE DEF More
  <2>1. 0 \in S
    <3>1. Is([k \in 0..0 |-> << >>], 0)
      OBVIOUS
    <3> QED BY <3>1
  <2>2. ASSUME NEW m \in S PROVE m + 1 \in S
    <3>1. PICK f : Is(f, m)
      OBVIOUS
    <3> DEFINE g == [k \in 0..(m + 1) |-> IF k = m + 1 THEN More(f[m], m + 1) ELSE f[k]]
    <3>2. \A k \in 0..m : g[k] = f[k]
      OBVIOUS
    <3>3. ASSUME NEW k \in 0..(m + 1)
          PROVE  g[k] = IF k = 0 THEN << >> ELSE More(g[k - 1], k)
      <4>1. CASE k = 0
        <5>1. f[0] = << >>
          BY <3>1
        <5> QED BY <3>2, <4>1, <5>1
      <4>2. CASE k = m + 1
        <5>1. g[k] = More(f[m], m + 1) /\ k - 1 = m /\ g[m] = f[m] /\ k # 0
          BY <3>2, <4>2
        <5> HIDE DEF g
        <5> QED BY <4>2, <5>1
      <4>3. CASE k # 0 /\ k # m + 1
        <5>1. k \in 0..m /\ k - 1 \in 0..m
          BY <4>3
        <5>2. f[k] = More(f[k - 1], k)
          BY <3>1, <4>3, <5>1
        <5>3. g[k] = f[k] /\ g[k - 1] = f[k - 1]
          BY <3>2, <5>1
        <5> HIDE DEF g
        <5> QED BY <4>3, <5>2, <5>3
      <4> QED BY <4>1, <4>2, <4>3
    <3>4. g = [k \in 0..(m + 1) |-> g[k]]
      OBVIOUS
    <3>5. Is(g, m + 1)
      <4> HIDE DEF g
      <4> QED BY <3>3, <3>4
    <3>6. m + 1 \in Nat
      OBVIOUS
    <3> HIDE DEF Is, g
    <3> QED BY <3>5, <3>6
  <2> HIDE DEF Is
  <2>3. S \in SUBSET Nat
    OBVIOUS
  <2>4. S = Nat
    <3> HIDE DEF S
    <3> QED BY <2>1, <2>2, <2>3, Induction
  <2> QED BY <2>4
<1> DEFINE upto == CHOOSE f : Is(f, last)
<1>2. last \in Nat
  BY WalkIsASequence
<1>3. Is(upto, last)
  <2> HIDE DEF Is, last
  <2> QED BY <1>1, <1>2
<1>4. FactEntries(dk, i) = upto[last]
  BY DEF FactEntries
<1> HIDE DEF upto
<1>5. upto[0] = << >> /\ \A k \in 1..last : upto[k] = More(upto[k - 1], k)
  <2> HIDE DEF last, More
  <2> QED BY <1>2, <1>3
<1> HIDE DEF Is
<1> DEFINE T == {k \in Nat : k <= last => upto[k] \in Seq(Entry)}
<1>6. 0 \in T
  BY <1>5, EmptySeq
<1>7. ASSUME NEW k \in T PROVE k + 1 \in T
  <2> SUFFICES ASSUME k + 1 <= last PROVE upto[k + 1] \in Seq(Entry)
    OBVIOUS
  <2>1. k + 1 \in 1..last /\ (k + 1) - 1 = k /\ upto[k] \in Seq(Entry)
    <3> HIDE DEF last
    <3> QED BY <1>2
  <2>2. upto[k + 1] = More(upto[k], k + 1)
    <3> HIDE DEF More, last
    <3> QED BY <1>5, <2>1
  <2>3. k + 1 \in FindIn(dk.files, i) => dk.files[WalkOrder[k + 1]] \in Seq(Entry)
    BY <2>1, WalkIsASequence DEF FindIn, Disk, Logs
  <2> QED BY <2>1, <2>2, <2>3, ConcatProperties
<1>8. T = Nat
  <2>1. T \in SUBSET Nat
    OBVIOUS
  <2> HIDE DEF T
  <2> QED BY <1>6, <1>7, <2>1, Induction
<1> QED BY <1>2, <1>4, <1>8

-----------------------------------------------------------------------------
(* Steps. *)

LEMMA InitIInv == Init => IInv
<1> SUFFICES ASSUME Init PROVE IInv
  OBVIOUS
<1>1. PICK c \in Corpora :
         /\ disk = [files |-> c.files, logs |-> c.logs, stores |-> c.stores,
                    marks |-> [d \in Dirs |-> 0]]
         /\ locks = c.locks
  BY DEF Init
<1>2. disk \in Disk /\ DOMAIN locks = Dirs
  BY <1>1, ProjectAssumption DEF Disk
<1>3. Idle \in ScanOf /\ Idle.pc = "idle"
  BY WalkIsASequence DEF Idle, ScanOf
<1>4. scans = [s \in Scanners |-> Idle] /\ marked = {}
  BY DEF Init
<1> QED BY <1>2, <1>3, <1>4 DEF IInv, ScanInv, MarksInv

\* What a command leaves in a database, and what a loss leaves of a file.
LEMMA StoreStep ==
    ASSUME NEW dk \in Disk, NEW i, NEW log \in Logs
    PROVE  /\ [dk EXCEPT !.stores[i] = log] \in Disk
           /\ [dk EXCEPT !.stores[i] = log].marks = dk.marks
BY DEF Disk

LEMMA LogStep ==
    ASSUME NEW dk \in Disk, NEW d, NEW log \in Logs
    PROVE  /\ [dk EXCEPT !.logs[d] = log] \in Disk
           /\ [dk EXCEPT !.logs[d] = log].marks = dk.marks
BY DEF Disk

LEMMA FileStep ==
    ASSUME NEW dk \in Disk, NEW d, NEW log \in Logs
    PROVE  /\ [dk EXCEPT !.files[d] = log] \in Disk
           /\ [dk EXCEPT !.files[d] = log].marks = dk.marks
BY DEF Disk

LEMMA OpenedIsALog ==
    ASSUME disk \in Disk, NEW i \in Indexes
    PROVE  Opened(i) \in Seq(Entry)
<1>1. disk.stores[i] \in Logs
  BY DEF Disk
<1> QED BY <1>1, EmptySeq DEF Opened, Logs

\* A step that leaves the marks and the scans alone.
LEMMA CommandStep ==
    ASSUME IInv, disk' \in Disk, disk'.marks = disk.marks, UNCHANGED <<scans, marked>>,
           DOMAIN locks' = DOMAIN locks
    PROVE  IInv'
BY DEF IInv, MarksInv

LEMMA ScanStep ==
    ASSUME IInv, NEW s \in Scanners, NEW x, ScanInv(x), scans' = [scans EXCEPT ![s] = x]
    PROVE  /\ scans' = [t \in Scanners |-> scans'[t]]
           /\ \A t \in Scanners : ScanInv(scans'[t])
<1>1. scans = [t \in Scanners |-> scans[t]] /\ \A t \in Scanners : ScanInv(scans[t])
  BY DEF IInv
<1>2. \A t \in Scanners : scans'[t] = IF t = s THEN x ELSE scans[t]
  BY <1>1
<1>3. scans' = [t \in Scanners |-> scans'[t]]
  BY <1>1
<1> HIDE DEF ScanInv
<1> QED BY <1>1, <1>2, <1>3

LEMMA IdleIsScan == ScanInv(Idle)
BY WalkIsASequence DEF Idle, ScanOf, ScanInv

\* A scan is marked only where there is a mark.
LEMMA MarkedHasAMark ==
    ASSUME IInv, NEW s \in Scanners, scans[s].pc # "idle", NEW marks \in [Dirs -> Nat],
           \A i \in marked : marks[MarkerDir[i]] > 0,
           scans[s].count > 0 => marks[scans[s].dir] > 0
    PROVE  MarksInv(marks, Marked(s))
<1>1. scans[s].index \in Indexes /\ marked \subseteq Indexes
  BY DEF IInv, ScanInv, MarksInv
<1>2. CASE scans[s].count > 0 /\ scans[s].dir = MarkerDir[scans[s].index]
  <2>1. Marked(s) = marked \cup {scans[s].index}
    BY <1>2 DEF Marked
  <2> QED BY <1>1, <1>2, <2>1 DEF MarksInv
<1>3. CASE ~ (scans[s].count > 0 /\ scans[s].dir = MarkerDir[scans[s].index])
  BY <1>1, <1>3 DEF Marked, MarksInv
<1> QED BY <1>2, <1>3

LEMMA StepIInv == IInv /\ [Next]_vars => IInv'
<1> SUFFICES ASSUME IInv, [Next]_vars PROVE IInv'
  OBVIOUS
<1>t. disk \in Disk /\ DOMAIN locks = Dirs /\ MarksInv(disk.marks, marked)
  BY DEF IInv
<1>n. NoFile \in Logs
  BY DEF Logs
<1>1. ASSUME NEW i \in Indexes, AssertEntry(i) PROVE IInv'
  <2>1. PICK e \in Entries[i] : disk' = [disk EXCEPT !.stores[i] = Append(Opened(i), e)]
    BY <1>1 DEF AssertEntry
  <2>2. Append(Opened(i), e) \in Logs
    <3>1. e \in Entry
      BY ProjectAssumption
    <3> QED BY <1>t, <3>1, OpenedIsALog, AppendProperties DEF Logs
  <2>3. disk' \in Disk /\ disk'.marks = disk.marks
    <3> DEFINE log == Append(Opened(i), e)
    <3> HIDE DEF log
    <3>1. disk' = [disk EXCEPT !.stores[i] = log]
      BY <2>1 DEF log
    <3>2. log \in Logs
      BY <2>2 DEF log
    <3> QED BY <1>t, <3>1, <3>2, StoreStep
  <2>4. UNCHANGED <<scans, marked>> /\ locks' = locks
    BY <1>1 DEF AssertEntry
  <2> QED BY <2>3, <2>4, CommandStep
<1>2. ASSUME NEW i \in Indexes, Migrate(i) PROVE IInv'
  <2> DEFINE log == Opened(i) \o FactEntries(disk, i)
  <2>1. log \in Logs
    BY <1>t, OpenedIsALog, FactEntriesAreEntries, ConcatProperties DEF Logs
  <2>2. disk' = [disk EXCEPT !.stores[i] = log] /\ UNCHANGED <<scans, marked>> /\ locks' = locks
    BY <1>2 DEF Migrate
  <2> HIDE DEF log
  <2>3. disk' \in Disk /\ disk'.marks = disk.marks
    BY <1>t, <2>1, <2>2, StoreStep
  <2> QED BY <2>2, <2>3, CommandStep
<1>3. ASSUME NEW i \in Indexes, Export(i) PROVE IInv'
  <2> DEFINE opened == [disk EXCEPT !.stores[i] = Opened(i)]
             out == IF Loads(i) THEN IndexDirOf(LoadIn(i, "default").nodes) ELSE Root
  <2>1. Opened(i) \in Logs
    BY <1>t, OpenedIsALog DEF Logs
  <2>2. opened \in Disk /\ opened.marks = disk.marks
    BY <1>t, <2>1, StoreStep
  <2>3. disk' = [opened EXCEPT !.logs[out] = Opened(i)] /\ UNCHANGED <<scans, marked>> /\ locks' = locks
    BY <1>3 DEF Export
  <2> HIDE DEF opened, out
  <2>4. disk' \in Disk /\ disk'.marks = disk.marks
    BY <2>1, <2>2, <2>3, LogStep
  <2> QED BY <2>3, <2>4, CommandStep
<1>4. ASSUME NEW i \in Indexes, Import(i) PROVE IInv'
  <2>1. PICK d \in Dirs : disk.logs[d] # NoFile /\ disk' = [disk EXCEPT !.stores[i] = Opened(i) \o disk.logs[d]]
    BY <1>4 DEF Import
  <2> DEFINE log == Opened(i) \o disk.logs[d]
  <2>2. log \in Logs
    <3>1. disk.logs[d] \in Seq(Entry)
      BY <1>t, <2>1 DEF Disk, Logs
    <3> QED BY <1>t, <3>1, OpenedIsALog, ConcatProperties DEF Logs
  <2>3. disk' = [disk EXCEPT !.stores[i] = log] /\ UNCHANGED <<scans, marked>> /\ locks' = locks
    BY <1>4, <2>1 DEF Import
  <2> HIDE DEF log
  <2>4. disk' \in Disk /\ disk'.marks = disk.marks
    BY <1>t, <2>2, <2>3, StoreStep
  <2> QED BY <2>3, <2>4, CommandStep
<1>5. ASSUME NEW i \in Indexes, LoseStore(i) PROVE IInv'
  <2>1. disk' \in Disk /\ disk'.marks = disk.marks
    BY <1>5, <1>n, <1>t, StoreStep DEF LoseStore
  <2>2. UNCHANGED <<scans, marked>> /\ locks' = locks
    BY <1>5 DEF LoseStore
  <2> QED BY <2>1, <2>2, CommandStep
<1>6. ASSUME NEW i \in Indexes, NEW only, Lock(i, only) PROVE IInv'
  <2>1. DOMAIN locks' = DOMAIN locks
    BY <1>6 DEF Lock, LockAll
  <2>2. UNCHANGED <<disk, scans, marked>>
    BY <1>6 DEF Lock
  <2> QED BY <1>t, <2>1, <2>2, CommandStep
<1>7. ASSUME NEW s \in Scanners, NEW i \in Indexes, Scan(s, i) PROVE IInv'
  <2>1. PICK policy \in Policies :
          LET p == LoadIn(i, policy)
          IN  scans' = [scans EXCEPT ![s] =
                [pc |-> "read", index |-> i, dir |-> IndexDirOf(p.nodes),
                 count |-> Cardinality(DOMAIN p.nodes)]]
    BY <1>7 DEF Scan
  <2> DEFINE nodes == ScanFactsIn(disk, i, policy).nodes
             x == [pc |-> "read", index |-> i, dir |-> IndexDirOf(nodes),
                   count |-> Cardinality(DOMAIN nodes)]
  <2>2. scans' = [scans EXCEPT ![s] = x]
    BY <2>1 DEF LoadIn
  <2>3. (\A id \in DOMAIN nodes : nodes[id].dir \in Dirs) /\ Cardinality(DOMAIN nodes) \in Nat
    BY <1>t, NodesAreHome
  <2>4. ScanInv(x)
    <3> HIDE DEF nodes
    <3>1. IndexDirOf(nodes) \in Dirs
      BY <2>3, NodesComeFromADir
    <3> QED BY <2>3, <3>1 DEF ScanInv, ScanOf
  <2> HIDE DEF x
  <2>5. scans' = [t \in Scanners |-> scans'[t]] /\ \A t \in Scanners : ScanInv(scans'[t])
    BY <2>2, <2>4, ScanStep
  <2>6. UNCHANGED <<disk, locks, marked>>
    BY <1>7 DEF Scan
  <2> QED BY <1>t, <2>5, <2>6 DEF IInv
<1>8. ASSUME NEW s \in Scanners, ReadMark(s) PROVE IInv'
  <2>1. ScanInv(scans[s]) /\ scans[s].pc = "read" /\ scans[s] \in ScanOf
    BY <1>8 DEF IInv, ReadMark, ScanInv
  <2>2. disk.marks[scans[s].dir] \in Nat /\ scans[s].count \in Nat /\ disk.marks \in [Dirs -> Nat]
    BY <1>t, <2>1 DEF ScanOf, Disk
  <2>3. CASE scans[s].count <= disk.marks[scans[s].dir]
    <3>1. scans' = [scans EXCEPT ![s] = Idle] /\ marked' = Marked(s) /\ UNCHANGED <<disk, locks>>
      BY <1>8, <2>3 DEF ReadMark
    <3>2. MarksInv(disk.marks, Marked(s))
      BY <1>t, <2>1, <2>2, <2>3, MarkedHasAMark DEF MarksInv
    <3>3. scans' = [t \in Scanners |-> scans'[t]] /\ \A t \in Scanners : ScanInv(scans'[t])
      BY <3>1, IdleIsScan, ScanStep
    <3> QED BY <1>t, <3>1, <3>2, <3>3 DEF IInv
  <2>4. CASE ~ (scans[s].count <= disk.marks[scans[s].dir])
    <3> DEFINE x == [scans[s] EXCEPT !.pc = "write"]
    <3>1. scans' = [scans EXCEPT ![s] = x] /\ UNCHANGED <<disk, locks, marked>>
      BY <1>8, <2>4 DEF ReadMark
    <3>2. x \in ScanOf /\ x.pc = "write" /\ x.index = scans[s].index /\ x.count = scans[s].count
      BY <2>1 DEF ScanOf
    <3>3. ScanInv(x)
      <4>1. scans[s].index \in Indexes
        BY <2>1 DEF ScanInv
      <4> HIDE DEF x
      <4> QED BY <2>2, <2>4, <3>2, <4>1 DEF ScanInv
    <3> HIDE DEF x
    <3>4. scans' = [t \in Scanners |-> scans'[t]] /\ \A t \in Scanners : ScanInv(scans'[t])
      BY <3>1, <3>3, ScanStep
    <3> QED BY <1>t, <3>1, <3>4 DEF IInv
  <2> QED BY <2>3, <2>4
<1>9. ASSUME NEW s \in Scanners, WriteMark(s) PROVE IInv'
  <2>1. ScanInv(scans[s]) /\ scans[s].pc = "write" /\ scans[s] \in ScanOf /\ scans[s].count > 0
    BY <1>9 DEF IInv, WriteMark, ScanInv
  <2>2. /\ disk' = [disk EXCEPT !.marks[scans[s].dir] = scans[s].count]
        /\ scans' = [scans EXCEPT ![s] = Idle] /\ marked' = Marked(s) /\ locks' = locks
    BY <1>9 DEF WriteMark
  <2> DEFINE marks == [disk.marks EXCEPT ![scans[s].dir] = scans[s].count]
  <2>3. scans[s].dir \in Dirs /\ scans[s].count \in Nat /\ disk.marks \in [Dirs -> Nat]
    BY <1>t, <2>1 DEF ScanOf, Disk
  <2>4. marks \in [Dirs -> Nat] /\ marks[scans[s].dir] = scans[s].count
        /\ \A d \in Dirs : d # scans[s].dir => marks[d] = disk.marks[d]
    BY <2>3
  <2>5. disk' \in Disk /\ disk'.marks = marks
    BY <1>t, <2>2, <2>3 DEF Disk
  <2> HIDE DEF marks
  <2>6. \A i \in marked : marks[MarkerDir[i]] > 0
    <3> TAKE i \in marked
    <3>1. disk.marks[MarkerDir[i]] > 0 /\ MarkerDir[i] \in Dirs
      BY <1>t, WalkIsASequence DEF MarksInv
    <3> QED BY <2>1, <2>4, <3>1
  <2>7. MarksInv(marks, Marked(s))
    BY <2>1, <2>4, <2>6, MarkedHasAMark
  <2>8. scans' = [t \in Scanners |-> scans'[t]] /\ \A t \in Scanners : ScanInv(scans'[t])
    BY <2>2, IdleIsScan, ScanStep
  <2> QED BY <1>t, <2>2, <2>5, <2>7, <2>8 DEF IInv
<1>10. ASSUME NEW d \in Dirs, ClearFactFiles(d) PROVE IInv'
  <2>1. disk' \in Disk /\ disk'.marks = disk.marks
    BY <1>10, <1>n, <1>t, FileStep DEF ClearFactFiles
  <2>2. UNCHANGED <<scans, marked>> /\ locks' = locks
    BY <1>10 DEF ClearFactFiles
  <2> QED BY <2>1, <2>2, CommandStep
<1>11. ASSUME NEW d \in Dirs, LoseExport(d) PROVE IInv'
  <2>1. disk' \in Disk /\ disk'.marks = disk.marks
    BY <1>11, <1>n, <1>t, LogStep DEF LoseExport
  <2>2. UNCHANGED <<scans, marked>> /\ locks' = locks
    BY <1>11 DEF LoseExport
  <2> QED BY <2>1, <2>2, CommandStep
<1>12. ASSUME NEW p, EditDocument(p) \/ MoveDocument(p) PROVE IInv'
  <2>1. UNCHANGED <<disk, scans, marked, locks>>
    BY <1>12 DEF EditDocument, MoveDocument
  <2> QED BY <1>t, <2>1, CommandStep
<1>13. CASE UNCHANGED vars
  <2>1. UNCHANGED <<disk, scans, marked, locks>>
    BY <1>13 DEF vars
  <2> QED BY <1>t, <2>1, CommandStep
<1> QED BY <1>1, <1>2, <1>3, <1>4, <1>5, <1>6, <1>7, <1>8, <1>9, <1>10, <1>11, <1>12, <1>13 DEF Next

\* The marks stand where clean scans have been, whatever was lost since.
THEOREM Invariance == Spec => []IInv
<1> QED BY InitIInv, StepIInv, PTL DEF Spec

\* CheckHighWater and HighWaterDir: the corpus that went dark after a clean scan
\* of it is an error of every load, for any nesting of indexes, any number of
\* scans at once and any losses.
THEOREM DarkIsSaid == Spec => []DarkIsReported
<1>1. IInv => DarkIsReported
  <2> SUFFICES ASSUME IInv, NEW i \in marked, NEW policy \in Policies,
                      DOMAIN LoadIn(i, policy).nodes = {}
               PROVE  Errors(LoadIn(i, policy).findings) # {}
    BY DEF DarkIsReported
  <2> DEFINE nodes == ScanFactsIn(disk, i, policy).nodes
  <2>1. DOMAIN nodes = {} /\ CheckHighWater(nodes, disk.marks[HighWaterDir(nodes, i)])
                                \subseteq LoadIn(i, policy).findings
    BY DEF LoadIn
  <2>2. HighWaterDir(nodes, i) = MarkerDir[i] /\ i \in Indexes /\ disk.marks[MarkerDir[i]] > 0
    BY <2>1 DEF HighWaterDir, IInv, MarksInv
  <2>3. Cardinality(DOMAIN nodes) = 0
    BY <2>1, FS_EmptySet
  <2>4. disk.marks[MarkerDir[i]] # 0
    BY <2>2
  <2> HIDE DEF nodes
  <2>5. CheckHighWater(nodes, disk.marks[HighWaterDir(nodes, i)]) = {Error("dark")}
    BY <2>2, <2>3, <2>4 DEF CheckHighWater
  <2>6. Error("dark") \in LoadIn(i, policy).findings /\ Error("dark").severity = "error"
    BY <2>1, <2>5 DEF Error
  <2> QED BY <2>6 DEF Errors
<1> QED BY <1>1, Invariance, PTL

-----------------------------------------------------------------------------
(* Documents and locks. *)

LEMMA DocsAndLocks ==
    ASSUME [Next]_vars
    PROVE  /\ DOMAIN docs' = DOMAIN docs
           /\ locks' = locks \/ \E i \in Indexes, only \in Named : Lock(i, only)
<1>1. ASSUME NEW p, EditDocument(p) \/ MoveDocument(p)
      PROVE  DOMAIN docs' = DOMAIN docs /\ locks' = locks
  BY <1>1 DEF EditDocument, MoveDocument
<1>2. ASSUME NEW i \in Indexes, NEW only \in Named, Lock(i, only)
      PROVE  DOMAIN docs' = DOMAIN docs
  BY <1>2 DEF Lock
<1>3. ASSUME NEW i, AssertEntry(i) \/ Migrate(i) \/ Export(i) \/ Import(i) \/ LoseStore(i)
      PROVE  docs' = docs /\ locks' = locks
  BY <1>3 DEF AssertEntry, Migrate, Export, Import, LoseStore
<1>4. ASSUME NEW s, (\E i \in Indexes : Scan(s, i)) \/ ReadMark(s) \/ WriteMark(s)
      PROVE  docs' = docs /\ locks' = locks
  BY <1>4 DEF Scan, ReadMark, WriteMark
<1>5. ASSUME NEW d, ClearFactFiles(d) \/ LoseExport(d)
      PROVE  docs' = docs /\ locks' = locks
  BY <1>5 DEF ClearFactFiles, LoseExport
<1>6. UNCHANGED vars => docs' = docs /\ locks' = locks
  BY DEF vars
<1> QED BY <1>1, <1>2, <1>3, <1>4, <1>5, <1>6 DEF Next

\* What kg source lock writes: an entry that is new is of bytes that are there,
\* and every other entry is the one that was.
LEMMA LockAllEntries ==
    ASSUME NEW nodes, NEW there, NEW ls, NEW only, Citing(nodes) \subseteq ToSet(Ids),
           NEW dir \in DOMAIN ls
    PROVE  LET new == LockAll(nodes, there, ls, only)
               Of(key) == {id \in Locked(nodes, there, ls, only) :
                              nodes[id].dir = dir /\ KeyOf(nodes[id]) = key}
           IN  \A key :
                  /\ key \in DOMAIN new[dir] <=> key \in DOMAIN ls[dir] \/ Of(key) # {}
                  /\ Of(key) # {} => \E id \in Of(key) :
                                        new[dir][key] = Bytes(there, DocPathOf(nodes[id]))
                  /\ Of(key) = {} /\ key \in DOMAIN ls[dir] => new[dir][key] = ls[dir][key]
<1> DEFINE new == LockAll(nodes, there, ls, only)
           these == Locked(nodes, there, ls, only)
           taken == {k \in DOMAIN Ids : Ids[k] \in these}
           Those(key) == {k \in taken : nodes[Ids[k]].dir = dir /\ KeyOf(nodes[Ids[k]]) = key}
           keys == {KeyOf(nodes[Ids[k]]) : k \in {l \in taken : nodes[Ids[l]].dir = dir}}
           Of(key) == {id \in these : nodes[id].dir = dir /\ KeyOf(nodes[id]) = key}
<1> SUFFICES ASSUME NEW key
             PROVE  /\ key \in DOMAIN new[dir] <=> key \in DOMAIN ls[dir] \/ Of(key) # {}
                    /\ Of(key) # {} => \E id \in Of(key) :
                                          new[dir][key] = Bytes(there, DocPathOf(nodes[id]))
                    /\ Of(key) = {} /\ key \in DOMAIN ls[dir] => new[dir][key] = ls[dir][key]
  OBVIOUS
<1>1. \A id \in these : \E k \in DOMAIN Ids : Ids[k] = id
  BY DEF Locked, ToSet
<1>2. new[dir] = [k \in DOMAIN ls[dir] \cup keys |->
                     IF Those(k) = {} THEN ls[dir][k]
                     ELSE Bytes(there, DocPathOf(nodes[Ids[Max(Those(k))]]))]
  BY DEF LockAll
<1>3. key \in keys <=> Those(key) # {}
  OBVIOUS
<1>4. /\ key \in DOMAIN new[dir] <=> key \in DOMAIN ls[dir] \/ Those(key) # {}
      /\ Those(key) # {} => new[dir][key] = Bytes(there, DocPathOf(nodes[Ids[Max(Those(key))]]))
      /\ Those(key) = {} /\ key \in DOMAIN ls[dir] => new[dir][key] = ls[dir][key]
  <2> HIDE DEF new, keys, Those
  <2> QED BY <1>2, <1>3
<1> HIDE DEF new
<1>5. \A k \in Those(key) : Ids[k] \in Of(key)
  OBVIOUS
<1>6. \A id \in Of(key) : \E k \in Those(key) : Ids[k] = id
  BY <1>1
<1>7. Those(key) # {} => Max(Those(key)) \in Those(key)
  <2> SUFFICES ASSUME Those(key) # {} PROVE Max(Those(key)) \in Those(key)
    OBVIOUS
  <2>1. Those(key) \in SUBSET (1..Len(Ids)) /\ Len(Ids) \in Nat
    BY IdsAreFinite
  <2> DEFINE T == Those(key)
  <2> HIDE DEF T
  <2>2. T \in SUBSET (1..Len(Ids)) /\ T # {} /\ Len(Ids) \in Nat
    BY <2>1 DEF T
  <2>3. \E x \in T : \A y \in T : y <= x
    BY <2>2, Largest
  <2>4. \E x \in T : \A y \in T : x >= y
    BY <2>2, <2>3
  <2>5. Max(T) \in T
    BY <2>4 DEF Max
  <2> QED BY <2>5 DEF T
<1> HIDE DEF Those, Of
<1> QED BY <1>4, <1>5, <1>6, <1>7

\* Locking goes by what is there: a source that is locked has bytes to record.
LEMMA LockedHasBytes ==
    ASSUME NEW nodes, NEW there, NEW ls, NEW only, NEW id \in Locked(nodes, there, ls, only)
    PROVE  Bytes(there, DocPathOf(nodes[id])) # NoFile
BY DEF Locked, SourceState

\* LockAll's "A vanished document keeps its entry": for any documents, citations
\* and order of locks, edits, moves and losses.
THEOREM RecordIsKept == Spec => RecordedStaysRecorded
<1> DEFINE Kept ==
       \A i \in Indexes :
          LET nodes == ScanFactsIn(disk, i, "default").nodes
              nodes2 == ScanFactsIn(disk', i, "default").nodes
          IN  \A id \in Citing(nodes) \cap Citing(nodes2) :
                  nodes2[id] = nodes[id] /\ Recorded(nodes[id], locks) # NoFile
                      => Recorded(nodes2[id], locks') # NoFile
<1>1. IInv /\ [Next]_vars => [Kept]_vars
  <2> SUFFICES ASSUME IInv, [Next]_vars, NEW i \in Indexes,
                      NEW id \in Citing(ScanFactsIn(disk, i, "default").nodes),
                      ScanFactsIn(disk', i, "default").nodes[id]
                         = ScanFactsIn(disk, i, "default").nodes[id],
                      Recorded(ScanFactsIn(disk, i, "default").nodes[id], locks) # NoFile
               PROVE  Recorded(ScanFactsIn(disk', i, "default").nodes[id], locks') # NoFile
    OBVIOUS
  <2> DEFINE n == ScanFactsIn(disk, i, "default").nodes[id]
  <2>1. n.dir \in DOMAIN locks
    BY NodesAreHome DEF IInv, Citing
  <2>2. Recorded(n, locks) # NoFile
    OBVIOUS
  <2> HIDE DEF n
  <2>3. CASE locks' = locks
    BY <2>2, <2>3 DEF n
  <2>4. CASE \E j \in Indexes, only \in Named : Lock(j, only)
    <3>1. PICK j \in Indexes, only \in Named : Lock(j, only)
      BY <2>4
    <3> DEFINE nodes == ScanFactsIn(disk, j, "default").nodes
    <3>2. locks' = LockAll(nodes, docs, locks, only)
      BY <3>1 DEF Lock
    <3>3. Citing(nodes) \subseteq ToSet(Ids)
      BY NodesAreHome DEF IInv, Citing
    <3> HIDE DEF nodes
    <3> DEFINE key == KeyOf(n)
               Of == {l \in Locked(nodes, docs, locks, only) :
                         nodes[l].dir = n.dir /\ KeyOf(nodes[l]) = key}
    <3>4. key \in DOMAIN locks[n.dir] /\ locks[n.dir][key] # NoFile /\ DocPathOf(n) # Outside
      BY <2>2 DEF Recorded
    <3>5. /\ key \in DOMAIN locks'[n.dir] <=> key \in DOMAIN locks[n.dir] \/ Of # {}
          /\ Of # {} => \E l \in Of : locks'[n.dir][key] = Bytes(docs, DocPathOf(nodes[l]))
          /\ Of = {} /\ key \in DOMAIN locks[n.dir] => locks'[n.dir][key] = locks[n.dir][key]
      BY <2>1, <3>2, <3>3, LockAllEntries
    <3>6. \A l \in Of : Bytes(docs, DocPathOf(nodes[l])) # NoFile
      BY LockedHasBytes
    <3>7. key \in DOMAIN locks'[n.dir] /\ locks'[n.dir][key] # NoFile
      <4> HIDE DEF Of, key
      <4> QED BY <3>4, <3>5, <3>6
    <3>8. Recorded(n, locks') # NoFile
      BY <3>4, <3>7 DEF Recorded
    <3> QED BY <3>8 DEF n
  <2> QED BY <2>3, <2>4, DocsAndLocks
<1>2. Spec => [][Kept]_vars
  <2> HIDE DEF Kept
  <2> QED BY <1>1, Invariance, PTL DEF Spec
<1> QED BY <1>2 DEF RecordedStaysRecorded

\* LockAll's `only`: "Locking one NEW document silently re-locked every `changed`
\* one too" can no longer happen, for any sources, documents and locks.
THEOREM DriftIsKept == Spec => DriftOutlivesOtherLocks
<1> DEFINE Kept ==
       \A i \in Indexes, k \in DOMAIN Ids :
          locks' # locks /\ Lock(i, {Ids[k]}) =>
              LET nodes == ScanFactsIn(disk, i, "default").nodes
              IN  \A id \in Citing(nodes) :
                      \/ id = Ids[k]
                      \/ Ids[k] \in Citing(nodes) /\ KeyOf(nodes[id]) = KeyOf(nodes[Ids[k]])
                      \/ SourceState(nodes[id], docs, locks') = SourceState(nodes[id], docs, locks)
<1>1. IInv => [Kept]_vars
  <2> SUFFICES ASSUME IInv, NEW i \in Indexes, NEW k \in DOMAIN Ids, Lock(i, {Ids[k]}),
                      NEW id \in Citing(ScanFactsIn(disk, i, "default").nodes), id # Ids[k],
                      ~ (/\ Ids[k] \in Citing(ScanFactsIn(disk, i, "default").nodes)
                         /\ KeyOf(ScanFactsIn(disk, i, "default").nodes[id])
                               = KeyOf(ScanFactsIn(disk, i, "default").nodes[Ids[k]]))
               PROVE  SourceState(ScanFactsIn(disk, i, "default").nodes[id], docs, locks')
                         = SourceState(ScanFactsIn(disk, i, "default").nodes[id], docs, locks)
    OBVIOUS
  <2> DEFINE nodes == ScanFactsIn(disk, i, "default").nodes
  <2>1. locks' = LockAll(nodes, docs, locks, {Ids[k]})
    BY DEF Lock
  <2>2. Citing(nodes) \subseteq ToSet(Ids) /\ nodes[id].dir \in DOMAIN locks
    BY NodesAreHome DEF IInv, Citing
  <2>3. ~ (Ids[k] \in Citing(nodes) /\ KeyOf(nodes[id]) = KeyOf(nodes[Ids[k]]))
    OBVIOUS
  <2> HIDE DEF nodes
  <2> DEFINE n == nodes[id]
             only == {Ids[k]}
             key == KeyOf(n)
             Of == {l \in Locked(nodes, docs, locks, only) :
                       nodes[l].dir = n.dir /\ KeyOf(nodes[l]) = key}
  <2>4. Of = {}
    BY <2>3 DEF Locked
  <2>5. /\ key \in DOMAIN locks'[n.dir] <=> key \in DOMAIN locks[n.dir] \/ Of # {}
        /\ Of = {} /\ key \in DOMAIN locks[n.dir] => locks'[n.dir][key] = locks[n.dir][key]
    <3>1. n.dir \in DOMAIN locks /\ Citing(nodes) \subseteq ToSet(Ids)
          /\ locks' = LockAll(nodes, docs, locks, only)
      BY <2>1, <2>2
    <3> HIDE DEF n, only
    <3> QED BY <3>1, LockAllEntries
  <2>6. Recorded(n, locks') = Recorded(n, locks)
    <3> HIDE DEF Of, n
    <3> QED BY <2>4, <2>5 DEF Recorded
  <2>7. SourceState(n, docs, locks') = SourceState(n, docs, locks)
    <3> HIDE DEF n
    <3> QED BY <2>6 DEF SourceState
  <2> QED BY <2>7 DEF nodes
<1>2. Spec => [][Kept]_vars
  <2> HIDE DEF Kept
  <2> QED BY <1>1, Invariance, PTL DEF Spec
<1> QED BY <1>2 DEF DriftOutlivesOtherLocks

\* FindRelocations finds what moved, by its bytes: for any documents, directories
\* and indexes, any number of documents moving and any copies where the repair does
\* not walk, and any citation in good order of a document that went to a place
\* inside its index which the repair walks to.
THEOREM MovedIsFound == Spec => MoveIsFound
<1> DEFINE Found ==
       \A p, q \in DOMAIN docs, i \in Indexes :
          docs[p] # NoFile /\ docs'[p] = NoFile /\ docs'[q] = docs[p] /\ Inside(i, q) =>
              LET nodes == ScanFactsIn(disk, i, "default").nodes
                  base == IndexDirOf(nodes)
              IN  \A id \in Citing(nodes) :
                      /\ DocPathOf(nodes[id]) = p
                      /\ SourceState(nodes[id], docs, locks) = "ok"
                      /\ \A r \in DOMAIN docs : docs'[r] = docs[p] /\ Walked(base, r) <=> r = q
                      => [source |-> id, now |-> q] \in FindRelocations(nodes, docs', locks)
<1>1. [Next]_vars => [Found]_vars
  <2> SUFFICES ASSUME [Next]_vars, NEW p \in DOMAIN docs, NEW q \in DOMAIN docs, NEW i \in Indexes,
                      docs'[p] = NoFile, docs'[q] = docs[p],
                      NEW id \in Citing(ScanFactsIn(disk, i, "default").nodes),
                      DocPathOf(ScanFactsIn(disk, i, "default").nodes[id]) = p,
                      SourceState(ScanFactsIn(disk, i, "default").nodes[id], docs, locks) = "ok",
                      \A r \in DOMAIN docs :
                          docs'[r] = docs[p]
                          /\ Walked(IndexDirOf(ScanFactsIn(disk, i, "default").nodes), r) <=> r = q
               PROVE  [source |-> id, now |-> q]
                         \in FindRelocations(ScanFactsIn(disk, i, "default").nodes, docs', locks)
    OBVIOUS
  <2> DEFINE nodes == ScanFactsIn(disk, i, "default").nodes
             n == nodes[id]
             base == IndexDirOf(nodes)
  <2>1. /\ id \in Citing(nodes) /\ DocPathOf(n) = p
        /\ SourceState(n, docs, locks) = "ok"
        /\ \A r \in DOMAIN docs : docs'[r] = docs[p] /\ Walked(base, r) <=> r = q
    OBVIOUS
  <2> HIDE DEF nodes
  <2>2. p # Outside /\ Bytes(docs, p) = docs[p] /\ docs[p] # NoFile /\ docs[p] = Recorded(n, locks)
    <3> HIDE DEF n, base
    <3> QED BY <2>1 DEF SourceState, Bytes
  <2>3. DOMAIN docs' = DOMAIN docs
    BY DocsAndLocks
  <2>4. SourceState(n, docs', locks) = "vanished"
    <3>1. Bytes(docs', p) = NoFile
      BY DEF Bytes
    <3> HIDE DEF n, base
    <3> QED BY <2>1, <2>2, <3>1 DEF SourceState
  <2> DEFINE hits(l) == {r \in DOMAIN docs' : /\ docs'[r] # NoFile
                                              /\ docs'[r] = Recorded(nodes[l], locks)
                                              /\ Walked(IndexDirOf(nodes), r)}
  <2>5. hits(id) = {q}
    <3> DEFINE was == Recorded(n, locks)
    <3> HIDE DEF base, was
    <3>1. hits(id) = {r \in DOMAIN docs : docs'[r] # NoFile /\ docs'[r] = was /\ Walked(base, r)}
      BY <2>3 DEF base, was
    <3>2. was = docs[p] /\ was # NoFile
      BY <2>2 DEF was
    <3> HIDE DEF hits, n
    <3> QED BY <2>1, <3>1, <3>2
  <2>6. FindRelocations(nodes, docs', locks) =
          {[source |-> l, now |-> CHOOSE r \in hits(l) : TRUE] :
              l \in {c \in Citing(nodes) :
                  /\ SourceState(nodes[c], docs', locks) = "vanished"
                  /\ Cardinality(hits(c)) = 1}}
    BY DEF FindRelocations
  <2> HIDE DEF hits
  <2>7. Cardinality(hits(id)) = 1 /\ (CHOOSE r \in hits(id) : TRUE) = q
    BY <2>5, FS_Singleton
  <2>8. [source |-> id, now |-> q] \in FindRelocations(nodes, docs', locks)
    BY <2>1, <2>4, <2>6, <2>7
  <2> QED BY <2>8 DEF nodes
<1>2. Spec => [][Found]_vars
  <2> HIDE DEF Found
  <2> QED BY <1>1, PTL DEF Spec
<1> QED BY <1>2 DEF MoveIsFound
=============================================================================
