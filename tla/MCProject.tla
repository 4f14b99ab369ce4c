----------------------------- MODULE MCProject -----------------------------
(***************************************************************************)
(* Project over two indexes: the default one at the root, and one declared *)
(* in a directory with another below it.  The declared one is, to begin    *)
(* with, in its fact files, in the exports of a clone, or in its store.    *)
(***************************************************************************)
EXTENDS Project

CONSTANTS outer, matter, s1, s2, s3, none, p1, p2

Home_ == <<"matter">>
Deep == <<"matter", "exhibits">>

MCIndexes == {outer, matter}
MCMarkerDir == (outer :> Root) @@ (matter :> Home_)
MCWalkOrder == <<Root, Deep, Home_>>
MCDirLength == (Root :> 1) @@ (Home_ :> 6) @@ (Deep :> 15)
MCIds == <<s1, s2, s3>>

Hidden == <<"matter", ".kg", "b">>

Line(id, doc) == [id |-> id, doc |-> doc, at |-> 1]
Later(line) == [line EXCEPT !.at = 2]
AtHome == Line(s1, <<"a">>)            \* matter/a
Below == Line(s2, <<"b">>)             \* matter/exhibits/b, or matter/b once it is moved
Shared == Line(s3, <<"..", "a">>)      \* a, shared authority above the matter

MCEntries == (outer :> {Later(Line(s3, none))})
             @@ (matter :> {Later(Shared), Later(Line(s1, <<"exhibits", "b">>))})

InDirs(home, deep) == (Root :> NoFile) @@ (Home_ :> home) @@ (Deep :> deep)
Nothing == InDirs(NoFile, NoFile)
InStores(o, m) == (outer :> o) @@ (matter :> m)
NoLocks == [d \in {Root, Home_, Deep} |-> << >>]

Bytes_ == [p \in {<<"a">>, <<"matter", "a">>, <<"matter", "b">>, <<"matter", "exhibits", "b">>, Hidden} |->
             CASE p = <<"a">> -> 1
               [] p = <<"matter", "a">> -> 2
               [] p \in {<<"matter", "b">>, Hidden} -> NoFile
               [] p = <<"matter", "exhibits", "b">> -> 3]

\* Before the store: two fact files, and the locks beside them.
Unmigrated ==
    [files |-> InDirs(<<AtHome>>, <<Below>>), logs |-> Nothing,
     stores |-> InStores(NoFile, NoFile), docs |-> Bytes_,
     locks |-> NoLocks]

\* A clone: the exports and no database.
Clone ==
    [files |-> Nothing, logs |-> InDirs(<<AtHome, Shared>>, <<Below>>),
     stores |-> InStores(NoFile, NoFile), docs |-> Bytes_,
     locks |-> [NoLocks EXCEPT ![Home_] = (<<"a">> :> 2), ![Deep] = (<<"b">> :> 3)]]

\* In use: a store and its export, beside a default index that has its own.
InUse ==
    [files |-> Nothing,
     logs |-> [InDirs(<<AtHome>>, NoFile) EXCEPT ![Root] = <<Line(s3, <<"a">>)>>],
     stores |-> InStores(NoFile, <<AtHome, Line(s2, <<"exhibits", "b">>)>>), docs |-> Bytes_,
     locks |-> [NoLocks EXCEPT ![Home_] = (<<"a">> :> 2) @@ (<<"exhibits", "b">> :> 3)]]

MCCorpora == {Unmigrated, Clone, InUse}
MCPlaces == {<<"matter", "b">>, <<"a">>, Hidden}
MCContents == {2, 4}
=============================================================================
