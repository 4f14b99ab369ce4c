--------------------------- MODULE AppendOnlyLog ---------------------------
(***************************************************************************)
(* What a Store promises the layers above it (the comments on `Store` and  *)
(* `Append` in store.go): one log per index that only grows at its end, a  *)
(* call that is acknowledged has its line in the log, a call that is       *)
(* refused has none, and no call has two.                                  *)
(*                                                                         *)
(* A call is a single Append: an assertion handed to a handle.  What the   *)
(* assertion says does not matter here, so the line IS the call.           *)
(***************************************************************************)
EXTENDS Sequences, Naturals

CONSTANTS
    Indexes,        \* the closed graphs one database holds
    Calls,          \* every Append ever made
    IndexOf(_)      \* the index the call's handle is scoped to

VARIABLES
    log,            \* log[i]: the lines of index i, oldest first
    outcome         \* outcome[c]: what the caller of c has been told

vars == <<log, outcome>>

\* Answers that promise the line is not in the log.
Refusals == {"invalid", "exhausted"}
\* "unknown" is an error of the database, or no answer at all: it promises
\* nothing either way.
Outcomes == {"uncalled", "pending", "ok", "unknown"} \cup Refusals

InLog(c) == \E k \in 1..Len(log[IndexOf(c)]) : log[IndexOf(c)][k] = c

Init ==
    /\ log = [i \in Indexes |-> << >>]
    /\ outcome = [c \in Calls |-> "uncalled"]

Call(c) ==
    /\ outcome[c] = "uncalled"
    /\ outcome' = [outcome EXCEPT ![c] = "pending"]
    /\ UNCHANGED log

Refuse(c) ==
    /\ outcome[c] \in {"uncalled", "pending"}
    /\ \E o \in Refusals : outcome' = [outcome EXCEPT ![c] = o]
    /\ UNCHANGED log

\* The line lands at the end of its index, and nowhere else.  The caller may
\* still be told of an error: the reply of the database can be lost.
Land(c) ==
    /\ outcome[c] = "pending"
    /\ ~ InLog(c)
    /\ log' = [log EXCEPT ![IndexOf(c)] = Append(@, c)]
    /\ \E o \in {"ok", "unknown"} : outcome' = [outcome EXCEPT ![c] = o]

\* The caller gives up without the line having landed.
GiveUp(c) ==
    /\ outcome[c] = "pending"
    /\ outcome' = [outcome EXCEPT ![c] = "unknown"]
    /\ UNCHANGED log

Next == \E c \in Calls : Call(c) \/ Refuse(c) \/ Land(c) \/ GiveUp(c)

Spec == Init /\ [][Next]_vars
=============================================================================
