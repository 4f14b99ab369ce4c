------------------------------ MODULE WriteOps ------------------------------
(***************************************************************************)
(* The write operations (write.go, and Amend in store.go): processes that  *)
(* stamp a batch of lines, read the log, fold and build what it would      *)
(* become, and only then append the batch, line by line.  Nothing holds    *)
(* the log between the read and the appends, and nothing holds it between  *)
(* two lines of one batch.                                                 *)
(*                                                                         *)
(* One step per trip to the store.  Appending one line is atomic here:     *)
(* SeqAppend says what that rests on.                                      *)
(***************************************************************************)
EXTENDS FoldCheck

CONSTANTS
    Writers,        \* processes that write (a kg command, an MCP server)
    MaxShared       \* bound: nor is one this long begun on beside another writer

VARIABLES
    clock,          \* time.Now, in seconds: what RFC 3339 keeps of it
    act             \* act[w]: the operation w is executing

vars == <<log, clock, act>>

Unstamped == 0
CorrectionLead == 1     \* now.Add(time.Second)

Idle == [pc |-> "idle", op |-> "none", batch |-> << >>, landed |-> 0, read |-> 0]

AssertLine(id, f, at) == Line("assert", id, f, NoId, at)
WithdrawLine(id, at) == Line("withdraw", id, Absent, NoId, at)
RetireLine(id, into) == Line("retire", id, Absent, into, Unstamped)

\* Assertion.validate, of what an enumerated line can get wrong.
Valid(a) == a.op = "retire" => a.into # a.id

Init ==
    /\ log = << >>
    /\ clock = 1
    /\ act = [w \in Writers |-> Idle]

-----------------------------------------------------------------------------
(* The operations: each prepares a batch and hands it to Apply. *)

Prepare(w, op, batch) ==
    /\ act' = [act EXCEPT ![w] = [Idle EXCEPT !.pc = "stamp", !.op = op, !.batch = batch,
                                          !.read = Len(log)]]
    /\ UNCHANGED <<log, clock>>

\* Apply returns, with a result or an error.
Return(w) == act' = [act EXCEPT ![w] = Idle]

Free(w) ==
    /\ act[w].pc = "idle"
    /\ Len(log) < MaxLines
    /\ Len(log) < MaxShared \/ \A x \in Writers : act[x].pc = "idle"

AssertFact(w, id, f) ==
    /\ Free(w)
    /\ Prepare(w, "assert", <<AssertLine(id, f, Unstamped)>>)

Withdraw(w, id) ==
    /\ Free(w)
    /\ Prepare(w, "withdraw", <<WithdrawLine(id, Unstamped)>>)

Retire(w, id, into) ==
    /\ Free(w)
    /\ Prepare(w, "retire", <<RetireLine(id, into)>>)

\* Mutants of Correct: the withdrawal is forgotten, or comes second.
MutantForgetsOld(w, old, new, f) ==
    /\ Free(w)
    /\ Prepare(w, "correct", <<AssertLine(new, [f EXCEPT !.supersedes = old], clock + CorrectionLead)>>)

MutantReplacesFirst(w, old, new, f) ==
    /\ Free(w)
    /\ Prepare(w, "correct",
           <<AssertLine(new, [f EXCEPT !.supersedes = old], clock + CorrectionLead),
             WithdrawLine(old, clock)>>)

\* Correct: the one operation that stamps its own lines, the replacement a
\* second after the withdrawal.
Correct(w, old, new, f) ==
    /\ Free(w)
    /\ old # new
    /\ Prepare(w, "correct",
           <<WithdrawLine(old, clock),
             AssertLine(new, [f EXCEPT !.supersedes = old], clock + CorrectionLead)>>)

\* The question as it was last asserted, if answering can close it.
Closable(q) ==
    {f \in {LastFields(log, q)} \ {Absent} : f.kind = "question" /\ f.status # "resolved"}

\* Mutant of AnswerQuestion: the question is closed before it is answered.
MutantClosesFirst(w, q, id, f) ==
    /\ Free(w)
    /\ Prepare(w, "answer",
           SetToSeq({AssertLine(q, [c EXCEPT !.status = "resolved"], Unstamped) : c \in Closable(q)})
           \o <<AssertLine(id, [f EXCEPT !.answers = q], Unstamped)>>)

\* AnswerQuestion: the answer, and the question closed in the same act.
AnswerQuestion(w, q, id, f) ==
    /\ Free(w)
    /\ Prepare(w, "answer",
           <<AssertLine(id, [f EXCEPT !.answers = q], Unstamped)>>
           \o SetToSeq({AssertLine(q, [c EXCEPT !.status = "resolved"], Unstamped) : c \in Closable(q)}))

\* Amend, of the words: the rest of the last assert is carried forward.
Amend(w, id, words) ==
    /\ Free(w)
    /\ LastFields(log, id) # Absent
    /\ Prepare(w, "amend",
           <<AssertLine(id, [LastFields(log, id) EXCEPT !.words = words], Unstamped)>>)

-----------------------------------------------------------------------------
(* Apply. *)

\* Lines without a timestamp get one, and an invalid line ends the operation.
Stamp(w) ==
    /\ act[w].pc = "stamp"
    /\ LET stamped == [k \in 1..Len(act[w].batch) |->
                          IF act[w].batch[k].at = Unstamped
                          THEN [act[w].batch[k] EXCEPT !.at = clock]
                          ELSE act[w].batch[k]]
       IN  \/ /\ \A k \in 1..Len(stamped) : Valid(stamped[k])
              /\ act' = [act EXCEPT ![w].pc = "check", ![w].batch = stamped]
           \/ /\ \E k \in 1..Len(stamped) : ~ Valid(stamped[k])
              /\ Return(w)
    /\ UNCHANGED <<log, clock>>

\* Mutant of Check: what the log would become is not built.
MutantNoCheck(w) ==
    /\ act[w].pc = "check"
    /\ act' = [act EXCEPT ![w].pc = "append"]
    /\ UNCHANGED <<log, clock>>

\* The log is read, and folded with the batch at its end: a batch that would
\* not load is refused.
Check(w) ==
    /\ act[w].pc = "check"
    /\ LET builds == Builds(Fold(InFoldOrder(log) \o act[w].batch))
       IN  \/ /\ builds
              /\ act' = [act EXCEPT ![w].pc = "append"]
           \/ /\ ~ builds
              /\ Return(w)
    /\ UNCHANGED <<log, clock>>

NextLine(w) == act[w].batch[act[w].landed + 1]
LastLine(w) == act[w].landed + 1 = Len(act[w].batch)

\* One line of the batch lands, and after the last Apply returns.
AppendLine(w) ==
    /\ act[w].pc = "append"
    /\ log' = Append(log, NextLine(w))
    /\ \/ /\ LastLine(w)
          /\ Return(w)
       \/ /\ ~ LastLine(w)
          /\ act' = [act EXCEPT ![w].landed = @ + 1]
    /\ UNCHANGED clock

\* Store.Append returns an error, its row landed or not: the rest of the batch
\* is dropped.
AppendFails(w) ==
    /\ act[w].pc = "append"
    /\ \E n \in {0, 1} :
          log' = log \o SubSeq(act[w].batch, act[w].landed + 1, act[w].landed + n)
    /\ Return(w)
    /\ UNCHANGED clock

\* The process dies between two trips to the store.
Crash(w) ==
    /\ act[w].pc # "idle"
    /\ Return(w)
    /\ UNCHANGED <<log, clock>>

Tick ==
    /\ clock + CorrectionLead < MaxAt
    /\ clock' = clock + 1
    /\ UNCHANGED <<log, act>>

Operation(w) ==
    \/ \E id \in Ids, f \in Facts : AssertFact(w, id, f)
    \/ \E id \in Ids : Withdraw(w, id)
    \/ \E id, into \in Ids : Retire(w, id, into)
    \/ \E old, new \in Ids, f \in Facts : Correct(w, old, new, f)
    \/ \E q, id \in Ids, f \in Facts : AnswerQuestion(w, q, id, f)
    \/ \E id \in Ids, words \in Words : Amend(w, id, words)

Next ==
    \/ \E w \in Writers :
          Operation(w) \/ Stamp(w) \/ Check(w) \/ AppendLine(w) \/ AppendFails(w) \/ Crash(w)
    \/ Tick

Spec == Init /\ [][Next]_vars

-----------------------------------------------------------------------------
\* w appends to the log its operation started from, and to nothing added since.
Uncontended(w) == Len(log) = act[w].read + act[w].landed

\* The line that lands answers a question under an id that is a question's so far:
\* that of the one it answers, or of another.
TakesAQuestionsId(w) ==
    /\ act[w].op = "answer" /\ act[w].landed = 0
    /\ \E before \in {LastFields(log, NextLine(w).id)} \ {Absent} : before.kind = "question"

\* The index loads: the fold is bound, so that TLC folds once.
Loads(lines) == \A doc \in {Fold(lines)} : Builds(doc)

\* A batch that meets nobody from its preparation to its last line keeps a log that
\* loads one that loads, after every line, a crash or a failed append in the
\* middle of the batch included: Apply builds the whole batch only, so every
\* prefix it can leave behind has to build too.  One does not: of an answer that
\* takes over a question's id (EveryUncontendedWriteBuilds).
UncontendedWriteBuilds ==
    [][ \A w \in Writers :
          /\ act[w].pc = "append" /\ act'[w] # act[w] /\ log' # log
          /\ Uncontended(w)
          /\ ~ TakesAQuestionsId(w)
          /\ Loads(log)
          => Loads(log') ]_vars

\* "Apply ... appends them only if the resulting graph builds", of every batch that
\* meets nobody.
EveryUncontendedWriteBuilds ==
    [][ \A w \in Writers :
          /\ act[w].pc = "append" /\ act'[w] # act[w] /\ log' # log
          /\ Uncontended(w)
          /\ Loads(log)
          => Loads(log') ]_vars

\* "Apply ... appends them only if the resulting graph builds": the log always
\* loads, whoever else writes to it.
LogBuilds == Loads(log)

\* Before line k there is one that does what its replacing, or its closing, needs.
Withdrawn(k) ==
    \E j \in 1..(k - 1) :
        log[j].op = "withdraw" /\ log[j].id = log[k].fields.supersedes
Answered(k) ==
    \E j \in 1..(k - 1) :
        log[j].op = "assert" /\ log[j].fields.answers = log[k].id

\* A batch that breaks off leaves its first line alone, and which line that is, is
\* promised: "the withdrawal is stamped a tick earlier so the fold sees it before the
\* replacement" (Correct), and "what closes a question is a fact" that comes FIRST, "a
\* question flipped to `resolved` with nothing attached is an answer nobody can check"
\* (AnswerQuestion).  However many processes write and whatever fails in between, a
\* replacement is never in the log without the withdrawal of what it replaces before
\* it, and no line closes a question before a line that answers it.  The half that does
\* stay is not harmless: Apply calls it "strictly worse" (BatchesLandWhole).  Neither is
\* asked of a reference or a status that a caller of Assert writes itself.
HalvesComeInOrder ==
    \A k \in {k \in 1..Len(log) : log[k].op = "assert"} :
        /\ log[k].fields.supersedes \notin {NoId} \cup {f.supersedes : f \in Facts} => Withdrawn(k)
        /\ log[k].fields.status = "resolved" /\ (\A f \in Facts : f.status # "resolved")
             => Answered(k)

\* "ALL OR NOTHING ... a half-applied correction leaves a fact withdrawn with nothing
\* standing in its place, which is strictly worse than the wrong fact it was fixing.  So
\* the whole batch is ... written together" (Apply): an operation that has landed a line
\* ends with its last.
BatchesLandWhole ==
    [][ \A w \in Writers :
          act[w].landed > 0 /\ act'[w].pc = "idle" =>
              LastLine(w) /\ log' = Append(log, NextLine(w)) ]_vars

\* The last line of w's operation of that name lands in this step.
Done(w, op) ==
    /\ act[w].op = op /\ act[w].pc = "append" /\ LastLine(w)
    /\ act'[w] # act[w] /\ log' # log

OldOf(w) == act[w].batch[1].id
NewOf(w) == act[w].batch[2].id
LiveOpen(doc, id) == doc[id] # Absent /\ doc[id].status # "withdrawn"

\* A correction acknowledged leaves the old fact withdrawn and the new one in its
\* place, unless either carries a line stamped later than the correction or
\* another writer's lines landed beside it.
SettledCorrectionTakesEffect ==
    [][ \A w \in Writers :
          /\ Done(w, "correct")
          /\ Uncontended(w)
          /\ \A k \in 1..Len(log) : log[k].id \in {OldOf(w), NewOf(w)} =>
                 log[k].at <= act[w].batch[1].at
          => /\ ~ LiveOpen(Fold(log'), OldOf(w))
             /\ Fold(log')[NewOf(w)].supersedes = OldOf(w) ]_vars

\* Correct is "the old fact withdrawn, and a new one asserted in its place", one
\* act: whenever it is acknowledged the old fact is withdrawn.
CorrectionTakesEffect ==
    [][ \A w \in Writers : Done(w, "correct") => ~ LiveOpen(Fold(log'), OldOf(w)) ]_vars
=============================================================================
