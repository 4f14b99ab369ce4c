----------------------------- MODULE SeqAppend -----------------------------
(***************************************************************************)
(* sqlStore.Append (store.go): handles append to one shared table whose    *)
(* sequence numbers are MAX(seq)+1 per index.  Two handles can read the    *)
(* same MAX; PRIMARY KEY (idx, seq) turns the loser's INSERT into a        *)
(* constraint violation and Append reads again, at most SeqRetries times.  *)
(*                                                                         *)
(* One process per handle, one step per SQL statement.  What an assertion  *)
(* says is opaque to Append, so a row carries the call that wrote it.      *)
(***************************************************************************)
EXTENDS Integers, FiniteSets

CONSTANTS
    Writers,        \* handles with a call in flight: one sqlStore each
    Indexes,        \* values of the idx discriminator
    HandleIdx,      \* HandleIdx[w]: the index the handle of w is scoped to
    SeqRetries,     \* seqRetries: re-reads before a call gives up
    MaxCalls        \* bound: calls made on each handle

ASSUME SeqAppendAssumption ==
    /\ HandleIdx \in [Writers -> Indexes]
    /\ SeqRetries \in Nat
    /\ MaxCalls \in Nat

VARIABLES
    rows,           \* the assertion table
    pc,             \* pc[w]: the statement of Append the handle is about to run
    made,           \* made[w]: calls made so far on the handle
    next,           \* next[w]: the local `next`
    attempt,        \* attempt[w]: the loop variable
    outcome,        \* outcome[c]: what the caller of c was told (history)
    base            \* base[c]: the index's MAX(seq) when c was called (history)

vars == <<rows, pc, made, next, attempt, outcome, base>>

Calls == Writers \X (1..MaxCalls)
IndexOf(c) == HandleIdx[c[1]]

\* The call a handle is executing.
Current(w) == <<w, made[w]>>

Row == [idx : Indexes, seq : Nat \ {0}, call : Calls]

SeqsOf(i) == {r.seq : r \in {q \in rows : q.idx = i}}

\* Mutant of MaxSeq: the WHERE is forgotten.
MutantMaxOfTable(i) ==
    LET all == {r.seq : r \in rows}
    IN  CHOOSE m \in all \cup {0} : \A s \in all : s <= m

\* SELECT COALESCE(MAX(seq), 0) FROM assertion WHERE idx = i
MaxSeq(i) ==
    CHOOSE m \in SeqsOf(i) \cup {0} : \A s \in SeqsOf(i) : s <= m

\* The row PRIMARY KEY (idx, seq) would collide with.
Taken(i, s) == s \in SeqsOf(i)

Init ==
    /\ rows = {}
    /\ pc = [w \in Writers |-> "idle"]
    /\ made = [w \in Writers |-> 0]
    /\ next = [w \in Writers |-> 0]
    /\ attempt = [w \in Writers |-> 0]
    /\ outcome = [c \in Calls |-> "uncalled"]
    /\ base = [c \in Calls |-> 0]

\* Append is entered.  An assertion that does not validate never reaches the
\* database.
Begin(w) ==
    /\ pc[w] = "idle"
    /\ made[w] < MaxCalls
    /\ made' = [made EXCEPT ![w] = @ + 1]
    /\ base' = [base EXCEPT ![<<w, made[w] + 1>>] = MaxSeq(HandleIdx[w])]
    /\ \/ /\ outcome' = [outcome EXCEPT ![<<w, made[w] + 1>>] = "pending"]
          /\ pc' = [pc EXCEPT ![w] = "read"]
       \/ /\ outcome' = [outcome EXCEPT ![<<w, made[w] + 1>>] = "invalid"]
          /\ UNCHANGED pc
    /\ UNCHANGED <<rows, next, attempt>>

\* The first SELECT MAX(seq)+1.
ReadMax(w) ==
    /\ pc[w] = "read"
    /\ next' = [next EXCEPT ![w] = MaxSeq(HandleIdx[w]) + 1]
    /\ attempt' = [attempt EXCEPT ![w] = 0]
    /\ pc' = [pc EXCEPT ![w] = "insert"]
    /\ UNCHANGED <<rows, made, outcome, base>>

\* The call returns to its caller and its locals are gone.
Return(w, answer) ==
    /\ outcome' = [outcome EXCEPT ![Current(w)] = answer]
    /\ pc' = [pc EXCEPT ![w] = "idle"]
    /\ next' = [next EXCEPT ![w] = 0]
    /\ attempt' = [attempt EXCEPT ![w] = 0]

NewRow(w) == [idx |-> HandleIdx[w], seq |-> next[w], call |-> Current(w)]

\* Mutant of Insert: INSERT OR REPLACE, the upsert the schema's rules forbid.
MutantUpsert(w) ==
    /\ pc[w] = "insert"
    /\ rows' = {r \in rows : r.idx # HandleIdx[w] \/ r.seq # next[w]} \cup {NewRow(w)}
    /\ Return(w, "ok")
    /\ UNCHANGED <<made, base>>

\* The INSERT lands.
Insert(w) ==
    /\ pc[w] = "insert"
    /\ ~ Taken(HandleIdx[w], next[w])
    /\ rows' = rows \cup {NewRow(w)}
    /\ Return(w, "ok")
    /\ UNCHANGED <<made, base>>

\* Mutants of Duplicate: the bound is off by one, either way.
MutantOneTooMany(w) ==
    /\ pc[w] = "insert"
    /\ Taken(HandleIdx[w], next[w])
    /\ \/ /\ attempt[w] > SeqRetries
          /\ Return(w, "exhausted")
       \/ /\ attempt[w] <= SeqRetries
          /\ pc' = [pc EXCEPT ![w] = "reread"]
          /\ UNCHANGED <<next, attempt, outcome>>
    /\ UNCHANGED <<rows, made, base>>

MutantOneTooFew(w) ==
    /\ pc[w] = "insert"
    /\ Taken(HandleIdx[w], next[w])
    /\ \/ /\ attempt[w] >= SeqRetries - 1
          /\ Return(w, "exhausted")
       \/ /\ attempt[w] < SeqRetries - 1
          /\ pc' = [pc EXCEPT ![w] = "reread"]
          /\ UNCHANGED <<next, attempt, outcome>>
    /\ UNCHANGED <<rows, made, base>>

\* Mutant of Duplicate: the same number is tried again, uncounted.
MutantRetryInPlace(w) ==
    /\ pc[w] = "insert"
    /\ Taken(HandleIdx[w], next[w])
    /\ UNCHANGED vars

\* The INSERT is a duplicate of (idx, seq): read again, or give up.
Duplicate(w) ==
    /\ pc[w] = "insert"
    /\ Taken(HandleIdx[w], next[w])
    /\ \/ /\ attempt[w] >= SeqRetries
          /\ Return(w, "exhausted")
       \/ /\ attempt[w] < SeqRetries
          /\ pc' = [pc EXCEPT ![w] = "reread"]
          /\ UNCHANGED <<next, attempt, outcome>>
    /\ UNCHANGED <<rows, made, base>>

\* SELECT MAX(seq)+1 again, and round the loop.
Reread(w) ==
    /\ pc[w] = "reread"
    /\ next' = [next EXCEPT ![w] = MaxSeq(HandleIdx[w]) + 1]
    /\ attempt' = [attempt EXCEPT ![w] = @ + 1]
    /\ pc' = [pc EXCEPT ![w] = "insert"]
    /\ UNCHANGED <<rows, made, outcome, base>>

\* Mutant of Fail: isDuplicateSeq is not asked, so every error of the INSERT is
\* retried, a lost reply too.
MutantRetryEveryError(w) ==
    /\ pc[w] = "insert"
    /\ attempt[w] < SeqRetries
    /\ ~ Taken(HandleIdx[w], next[w])
    /\ rows' = rows \cup {NewRow(w)}
    /\ pc' = [pc EXCEPT ![w] = "reread"]
    /\ UNCHANGED <<made, next, attempt, outcome, base>>

\* A statement fails for any other reason, which Append returns as it is, or the
\* process dies between two statements.  An INSERT whose reply was lost has
\* landed all the same.
Fail(w) ==
    /\ pc[w] \in {"read", "insert", "reread"}
    /\ \/ UNCHANGED rows
       \/ /\ pc[w] = "insert"
          /\ ~ Taken(HandleIdx[w], next[w])
          /\ rows' = rows \cup {NewRow(w)}
    /\ Return(w, "unknown")
    /\ UNCHANGED <<made, base>>

\* What the code does by itself, without a new call and without a failure.
Step(w) == ReadMax(w) \/ Insert(w) \/ Duplicate(w) \/ Reread(w)

Next == \E w \in Writers : Begin(w) \/ Step(w) \/ Fail(w)

Spec == Init /\ [][Next]_vars

\* The runtime keeps scheduling a call in flight and the database answers it.
FairSpec == Spec /\ \A w \in Writers : WF_vars(Step(w))

-----------------------------------------------------------------------------
Outcomes == {"uncalled", "pending", "ok", "invalid", "exhausted", "unknown"}

\* The types of the variables.
TypeOK ==
    /\ rows \subseteq Row
    /\ pc \in [Writers -> {"idle", "read", "insert", "reread"}]
    /\ made \in [Writers -> 0..MaxCalls]
    /\ next \in [Writers -> Nat]
    /\ attempt \in [Writers -> 0..SeqRetries]
    /\ outcome \in [Calls -> Outcomes]
    /\ base \in [Calls -> Nat]

\* The numbers of an index are 1..MAX, each used once: MAX+1 under contention
\* leaves no hole and overwrites nothing, and one index's volume never
\* advances another's (Append, and the PRIMARY KEY of storeSchema).
SeqDense ==
    /\ \A i \in Indexes : SeqsOf(i) = 1..MaxSeq(i)
    /\ \A r, q \in rows : r.idx = q.idx /\ r.seq = q.seq => r = q

\* "Losing an assertion is the one outcome an append-only log may not have"
\* (Append): an acknowledged call has its row, in its own index; a refused one
\* has none; and no call, acknowledged or not, has two.
AcknowledgedOnce ==
    /\ \A c \in Calls : outcome[c] = "ok" =>
          \E r \in rows : r.call = c /\ r.idx = IndexOf(c)
    /\ \A r \in rows : outcome[r.call] \in {"ok", "unknown"}
    /\ \A r, q \in rows : r.call = q.call => r = q

\* A call gives up only on contention that really happened: SeqRetries+1 other
\* rows entered its index since it was called (the bound in Append and its
\* comment on "something that is not going to stop").
ExhaustedOnlyByProgress ==
    \A c \in Calls : outcome[c] = "exhausted" =>
        MaxSeq(IndexOf(c)) >= base[c] + SeqRetries + 1

\* The table is append-only: no step removes or rewrites a row.
AppendOnly == [][rows \subseteq rows']_vars

\* Every call returns: the retry loop cannot spin, whatever the others do.
EveryCallReturns == \A w \in Writers : pc[w] # "idle" ~> pc[w] = "idle"

-----------------------------------------------------------------------------
(***************************************************************************)
(* The table implements an append-only log per index.                      *)
(***************************************************************************)
LogOf(i) ==
    [s \in 1..MaxSeq(i) |-> (CHOOSE r \in rows : r.idx = i /\ r.seq = s).call]

Promise == INSTANCE AppendOnlyLog WITH log <- [i \in Indexes |-> LogOf(i)]

\* The racing appenders implement the promise of AppendOnlyLog.
ImplementsLog == Promise!Spec
=============================================================================
