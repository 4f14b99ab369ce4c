------------------------------ MODULE Standing ------------------------------
(***************************************************************************)
(* Standing questions (standing.go, cmdAsk): a file of questions with the  *)
(* answer each was last accepted with, rewritten as a whole by every       *)
(* command that edits it, while the corpus, the documents, the ladder and  *)
(* the date move on.                                                       *)
(*                                                                         *)
(* The corpus is GraphCheck's.  A command loads the graph, reads the file, *)
(* edits what it read, and writes it: os.WriteFile empties the file first. *)
(* The memo of answers belongs to one loaded graph and Invalidate has no   *)
(* caller, so neither is here.                                             *)
(***************************************************************************)
EXTENDS GraphCheck, Pins

CONSTANTS
    Procs,          \* commands that run at the same time
    Names,          \* what questions are called
    Texts,          \* the questions: a function of their texts
    LastDay,        \* bound: the last day anything is asked on
    MaxEdits        \* bound: commands that edit the file, and changes around the corpus

ASSUME StandingAssumption ==
    /\ LastDay \in Nat
    /\ MaxEdits \in Nat
    /\ \A text \in DOMAIN Texts : Texts[text] \in Forms /\ text # None

BuiltIn == 0        \* the hash of a ladder nobody authored

VARIABLES
    file,           \* standing.yaml: the questions by name
    today,          \* the date
    ladder,         \* the hash of the authored ladder, or BuiltIn
    moved,          \* the sources whose document differs from its lock
    pc,             \* where each command is
    loaded,         \* the world each command loaded
    edited,         \* the set of questions it is to write
    edits,          \* edits so far
    accepted        \* history: every answer that was ever accepted

world == <<file, today, ladder, moved>>
commands == <<pc, loaded, edited>>
standingVars == <<world, commands, edits, accepted>>
allVars == <<vars, standingVars>>

\* What a command has in hand after load().
World == [graph |-> graph, today |-> today, ladder |-> ladder, moved |-> moved]

-----------------------------------------------------------------------------
(* Asking. *)

\* The reasons an answer is not the one on record.
Drift(st, pin, w) ==
    IF st.pin = None THEN {"never-asked"}
    ELSE {why \in {"query-changed", "results-changed", "dialect-changed", "source-changed"} :
            CASE why = "query-changed" -> st.query_hash # None /\ st.query_hash # st.query
              [] why = "results-changed" -> SetHash(st.pin) # SetHash(pin)
              [] why = "dialect-changed" -> st.ladder # w.ladder
              [] why = "source-changed" -> IdsOf(pin.cites) \cap w.moved # {}}

\* Ask: every answer there may be, none for a query that is refused.
Ask(st, w) ==
    {[rows |-> r.pin.nodes, pin |-> r.pin, drift |-> Drift(st, r.pin, w)] :
        r \in {r \in Resolutions(w.graph, Texts[st.query], w.today) : r.ok}}

\* All that an answer commits to, spelled out.
Commitments(w, pin) ==
    LET rows == {pin.nodes[i].id : i \in DOMAIN pin.nodes}
        sources == CitedSources(w.graph, rows)
    IN  [order |-> [i \in DOMAIN pin.nodes |-> pin.nodes[i].id],
         facts |-> [id \in rows \cup sources |-> w.graph.nodes[id]],
         relations |-> {e \in w.graph.incident : {e.src, e.dst} \cap (rows \cup sources) # {}},
         holes |-> UNION {Taint(w.graph, id, w.today) : id \in rows}]

-----------------------------------------------------------------------------
(* Commands. *)

\* A question under a text, with what is on record of it.
Question(set, name, text, hash) ==
    IF name \in DOMAIN set
    THEN [set[name] EXCEPT !.query = text, !.query_hash = hash, !.ladder = BuiltIn]
    ELSE [query |-> text, query_hash |-> None, pin |-> None, ladder |-> BuiltIn]

With(set, name, st) == [n \in DOMAIN set \cup {name} |-> IF n = name THEN st ELSE set[n]]

\* Mutant of Registered: the text becomes the one the answer was taken under.
MutantRestamps(set, name, text) == With(set, name, Question(set, name, text, text))

\* `kg ask add`: the answer on record and the text it was taken under are kept, the
\* ladder it was taken under is not.
Registered(set, name, text) ==
    With(set, name, Question(set, name, text,
                             IF name \in DOMAIN set THEN set[name].query_hash ELSE None))

\* Acknowledge.
Acknowledged(set, name, a, w) ==
    With(set, name, [query |-> set[name].query, query_hash |-> set[name].query,
                     pin |-> a.pin, ladder |-> w.ladder])

Init2 ==
    /\ file = << >>
    /\ today = 1
    /\ ladder = BuiltIn
    /\ moved = {}
    /\ pc = [p \in Procs |-> "idle"]
    /\ loaded = [p \in Procs |-> None]
    /\ edited = [p \in Procs |-> << >>]
    /\ edits = 0
    /\ accepted = {}

Goto(p, from, to) == pc[p] = from /\ pc' = [pc EXCEPT ![p] = to]

\* A command starts and loads the project.
Load(p) ==
    /\ Goto(p, "idle", "loaded")
    /\ edits < MaxEdits
    /\ loaded' = [loaded EXCEPT ![p] = World]
    /\ UNCHANGED <<vars, world, edited, edits, accepted>>

\* It has read the file, and is to write this.
Edit(p, set) ==
    /\ Goto(p, "loaded", "writing")
    /\ edits < MaxEdits
    /\ edits' = edits + 1
    /\ edited' = [edited EXCEPT ![p] = set]
    /\ loaded' = [loaded EXCEPT ![p] = None]
    /\ UNCHANGED <<vars, world>>

Register(p, name, text) ==
    /\ Edit(p, Registered(file, name, text))
    /\ UNCHANGED accepted

Unregister(p, name) ==
    /\ name \in DOMAIN file
    /\ Edit(p, [n \in DOMAIN file \ {name} |-> file[n]])
    /\ UNCHANGED accepted

\* `kg ask ack` asks again, and records what comes back.
Acknowledge(p, name) ==
    /\ pc[p] = "loaded"
    /\ name \in DOMAIN file
    /\ \E a \in Ask(file[name], loaded[p]) :
          /\ Edit(p, Acknowledged(file, name, a, loaded[p]))
          /\ accepted' = accepted \cup
                {[name |-> name, query |-> file[name].query,
                  saw |-> Commitments(loaded[p], a.pin)]}

\* WriteStanding of an empty set removes the file; of any other, it empties it first.
Empty(p) ==
    /\ Goto(p, "writing", IF edited[p] = << >> THEN "idle" ELSE "torn")
    /\ file' = << >>
    /\ UNCHANGED <<vars, today, ladder, moved, loaded, edited, edits, accepted>>

Fill(p) ==
    /\ Goto(p, "torn", "idle")
    /\ file' = edited[p]
    /\ edited' = [edited EXCEPT ![p] = << >>]
    /\ UNCHANGED <<vars, today, ladder, moved, loaded, edits, accepted>>

\* A command dies, with its file emptied or before.
Die(p) ==
    /\ pc[p] # "idle"
    /\ pc' = [pc EXCEPT ![p] = "idle"]
    /\ loaded' = [loaded EXCEPT ![p] = None]
    /\ edited' = [edited EXCEPT ![p] = << >>]
    /\ UNCHANGED <<vars, world, edits, accepted>>

-----------------------------------------------------------------------------
(* The world moves on. *)

Corpus ==
    /\ \/ \E n \in DOMAIN draft : Relate(n)
       \/ \E id \in DOMAIN nodes, r \in Restatements : AssertAgain(id, r[2])
    /\ UNCHANGED standingVars

Elsewhere(change) ==
    /\ edits < MaxEdits
    /\ edits' = edits + 1
    /\ change
    /\ UNCHANGED <<vars, file, commands, accepted>>

NextDay == Elsewhere(today < LastDay /\ today' = today + 1 /\ UNCHANGED <<ladder, moved>>)

EditLadder == Elsewhere(ladder' = 1 - ladder /\ UNCHANGED <<today, moved>>)

\* A source's document changes, or the change is taken into the lock.
MoveDocument(s) ==
    Elsewhere(/\ moved' = IF s \in moved THEN moved \ {s} ELSE moved \cup {s}
              /\ UNCHANGED <<today, ladder>>)

InitStanding == Init /\ Init2

NextStanding ==
    \/ Corpus \/ NextDay \/ EditLadder
    \/ \E s \in DOMAIN nodes : nodes[s].kind = "source" /\ MoveDocument(s)
    \/ \E p \in Procs :
        \/ Load(p) \/ Empty(p) \/ Fill(p) \/ Die(p)
        \/ \E name \in Names :
            \/ Unregister(p, name) \/ Acknowledge(p, name)
            \/ \E text \in DOMAIN Texts : Register(p, name, text)

StandingSpec == InitStanding /\ [][NextStanding]_allVars

-----------------------------------------------------------------------------
(* Properties. *)

\* "Is the answer still the answer?" (standing.go): a question that reports no drift
\* was accepted, under the very text it has now, with the very rows in the very order,
\* facts, relations, sources and open questions it has now - whoever rewrote the file
\* at the same time, whoever died doing so, and however the text went to and fro.
FreshWasAccepted ==
    LET w == World
    IN  \A name \in DOMAIN file : \A a \in Ask(file[name], w) :
          a.drift = {} =>
              [name |-> name, query |-> file[name].query, saw |-> Commitments(w, a.pin)] \in accepted

\* "Delta says WHAT moved, not merely that something did" (Answer): where nothing is
\* said to have moved, only the sources that are cited have; where something is, it
\* is reported as drift.
OnlySourcesMoveUnsaid ==
    LET w == World
    IN  \A name \in DOMAIN file : \A a \in Ask(file[name], w) :
          file[name].pin # None =>
            LET said == ~ NothingSaid(DiffPins(file[name].pin, a.pin))
            IN  /\ said => "results-changed" \in a.drift
                /\ "results-changed" \in a.drift /\ ~ said => file[name].pin.cites # a.pin.cites
=============================================================================
