-------------------------- MODULE SeqAppendProofs --------------------------
(***************************************************************************)
(* What SeqAppend's runs check on three handles, for any number of them,   *)
(* of indexes, of calls and of retries.                                    *)
(***************************************************************************)
EXTENDS SeqAppend, SequenceTheorems, TLAPS

-----------------------------------------------------------------------------
(* The inductive invariant. *)

\* The numbers of every index are 1..n for some n.
Dense == \A i \in Indexes : \E n \in Nat : SeqsOf(i) = 1..n

UniqueNumbers == \A r, q \in rows : r.idx = q.idx /\ r.seq = q.seq => r = q

\* A row is in its call's index, and its call has returned.
RowsOfReturned ==
    \A r \in rows : r.idx = IndexOf(r.call) /\ outcome[r.call] \in {"ok", "unknown"}

OneRowPerCall == \A r, q \in rows : r.call = q.call => r = q

OkHasRow ==
    \A c \in Calls : outcome[c] = "ok" => \E r \in rows : r.call = c /\ r.idx = IndexOf(c)

\* Where each call stands: the ones made returned, but for the one in flight.
CallStates ==
    /\ \A w \in Writers : pc[w] # "idle" => made[w] > 0
    /\ \A c \in Calls :
          /\ c[2] > made[c[1]] => outcome[c] = "uncalled"
          /\ c[2] = made[c[1]] /\ pc[c[1]] # "idle" => outcome[c] = "pending"

\* The MAX seen by a call counts the rows that got in its way: every retry was
\* caused by one more row than the retry before.
Contention ==
    \A w \in Writers :
        /\ pc[w] # "idle" => base[Current(w)] <= MaxSeq(HandleIdx[w])
        /\ pc[w] = "insert" =>
              /\ base[Current(w)] + attempt[w] + 1 <= next[w]
              /\ next[w] <= MaxSeq(HandleIdx[w]) + 1
        /\ pc[w] = "reread" =>
              /\ base[Current(w)] + attempt[w] + 1 <= MaxSeq(HandleIdx[w])
              /\ attempt[w] < SeqRetries

IInv ==
    /\ TypeOK
    /\ Dense
    /\ UniqueNumbers
    /\ RowsOfReturned
    /\ OneRowPerCall
    /\ OkHasRow
    /\ CallStates
    /\ Contention
    /\ ExhaustedOnlyByProgress

-----------------------------------------------------------------------------
(* MAX(seq) and what a new row does to it. *)

\* The greatest of 1..n, or 0.
LEMMA GreatestOfInterval ==
    ASSUME NEW n \in Nat
    PROVE  (CHOOSE m \in (1..n) \cup {0} : \A s \in 1..n : s <= m) = n
<1>1. n \in (1..n) \cup {0} /\ \A s \in 1..n : s <= n
  OBVIOUS
<1>2. ASSUME NEW m \in (1..n) \cup {0}, \A s \in 1..n : s <= m
      PROVE  m = n
  <2>1. CASE n = 0
    BY <2>1
  <2>2. CASE n # 0
    BY <1>2, <2>2
  <2> QED BY <2>1, <2>2
<1> QED BY <1>1, <1>2

\* Where the numbers are 1..n, COALESCE(MAX(seq), 0) is n.
LEMMA MaxOfDense ==
    ASSUME NEW i, NEW n \in Nat
    PROVE  /\ SeqsOf(i) = 1..n => MaxSeq(i) = n
           /\ SeqsOf(i)' = 1..n => MaxSeq(i)' = n
<1>1. SeqsOf(i) = 1..n => MaxSeq(i) = n
  BY GreatestOfInterval DEF MaxSeq
<1>2. SeqsOf(i)' = 1..n => MaxSeq(i)' = n
  BY GreatestOfInterval DEF MaxSeq
<1> QED BY <1>1, <1>2

LEMMA MaxIsNat ==
    ASSUME Dense, NEW i \in Indexes
    PROVE  MaxSeq(i) \in Nat /\ SeqsOf(i) = 1..MaxSeq(i)
BY MaxOfDense DEF Dense

\* The numbers and the MAX of an index depend on the rows alone.
LEMMA SameRows ==
    ASSUME rows' = rows, NEW i
    PROVE  SeqsOf(i)' = SeqsOf(i) /\ MaxSeq(i)' = MaxSeq(i)
BY DEF SeqsOf, MaxSeq

\* A row lands at MAX+1 or not at all: the one gap a stale `next` could fill is
\* the one PRIMARY KEY leaves open.
LEMMA LandsAtEnd ==
    ASSUME IInv, NEW w \in Writers, pc[w] = "insert",
           ~ Taken(HandleIdx[w], next[w]), rows' = rows \cup {NewRow(w)}
    PROVE  /\ next[w] = MaxSeq(HandleIdx[w]) + 1
           /\ Dense'
           /\ \A i \in Indexes :
                 MaxSeq(i)' = IF i = HandleIdx[w] THEN MaxSeq(i) + 1 ELSE MaxSeq(i)
<1> DEFINE h == HandleIdx[w]
<1>1. h \in Indexes
  BY SeqAppendAssumption
<1>2. /\ MaxSeq(h) \in Nat
      /\ SeqsOf(h) = 1..MaxSeq(h)
  BY <1>1, MaxIsNat DEF IInv
<1>3. next[w] \in Nat /\ next[w] >= 1 /\ next[w] <= MaxSeq(h) + 1
  <2>1. Current(w) \in Calls
    BY DEF IInv, TypeOK, CallStates, Calls, Current
  <2>2. base[Current(w)] \in Nat /\ attempt[w] \in Nat
    BY <2>1, SeqAppendAssumption DEF IInv, TypeOK
  <2> QED BY <2>2 DEF IInv, TypeOK, Contention
<1>4. next[w] = MaxSeq(h) + 1
  BY <1>2, <1>3 DEF Taken
<1>5. ASSUME NEW i \in Indexes
      PROVE  SeqsOf(i)' = IF i = h THEN SeqsOf(i) \cup {next[w]} ELSE SeqsOf(i)
  <2>1. NewRow(w).idx = h /\ NewRow(w).seq = next[w]
    BY DEF NewRow
  <2>2. CASE i = h
    BY <2>1, <2>2 DEF SeqsOf
  <2>3. CASE i # h
    BY <2>1, <2>3 DEF SeqsOf
  <2> QED BY <2>2, <2>3
<1>6. SeqsOf(h)' = 1..(MaxSeq(h) + 1)
  <2>1. SeqsOf(h)' = (1..MaxSeq(h)) \cup {MaxSeq(h) + 1}
    BY <1>1, <1>2, <1>4, <1>5
  <2>2. (1..MaxSeq(h)) \cup {MaxSeq(h) + 1} = 1..(MaxSeq(h) + 1)
    BY <1>2
  <2> QED BY <2>1, <2>2
<1>7. Dense'
  <2> SUFFICES ASSUME NEW i \in Indexes
               PROVE  \E n \in Nat : SeqsOf(i)' = 1..n
    BY DEF Dense
  <2>1. CASE i = h
    BY <2>1, <1>2, <1>6
  <2>2. CASE i # h
    BY <2>2, <1>5 DEF IInv, Dense
  <2> QED BY <2>1, <2>2
<1>8. ASSUME NEW i \in Indexes
      PROVE  MaxSeq(i)' = IF i = h THEN MaxSeq(i) + 1 ELSE MaxSeq(i)
  <2>1. CASE i = h
    <3>1. (MaxSeq(h) + 1) \in Nat
      BY <1>2
    <3> QED BY <2>1, <3>1, <1>6, MaxOfDense
  <2>2. CASE i # h
    <3>1. MaxSeq(i) \in Nat /\ SeqsOf(i)' = 1..MaxSeq(i)
      BY <2>2, <1>5, MaxIsNat DEF IInv
    <3> QED BY <2>2, <3>1, MaxOfDense
  <2> QED BY <2>1, <2>2
<1> QED BY <1>4, <1>7, <1>8

-----------------------------------------------------------------------------
(* The steps. *)

LEMMA CurrentIsCall ==
    ASSUME IInv, NEW w \in Writers, pc[w] # "idle"
    PROVE  Current(w) \in Calls /\ outcome[Current(w)] = "pending"
BY DEF IInv, TypeOK, CallStates, Calls, Current

LEMMA InitIInv == Init => IInv
<1> SUFFICES ASSUME Init PROVE IInv
  OBVIOUS
<1>1. TypeOK
  BY SeqAppendAssumption DEF Init, TypeOK, Outcomes
<1>2. Dense
  <2>1. \A i \in Indexes : SeqsOf(i) = 1..0
    BY DEF Init, SeqsOf
  <2> QED BY <2>1 DEF Dense
<1>3. UniqueNumbers /\ RowsOfReturned /\ OneRowPerCall
  BY DEF Init, UniqueNumbers, RowsOfReturned, OneRowPerCall
<1>4. OkHasRow /\ CallStates /\ ExhaustedOnlyByProgress
  BY DEF Init, OkHasRow, CallStates, Calls, ExhaustedOnlyByProgress
<1>5. Contention
  BY DEF Init, Contention
<1> QED BY <1>1, <1>2, <1>3, <1>4, <1>5 DEF IInv

LEMMA StepBegin ==
    ASSUME IInv, NEW w \in Writers, Begin(w)
    PROVE  IInv'
<1> DEFINE c == <<w, made[w] + 1>>
<1> USE SeqAppendAssumption
<1>1. c \in Calls /\ HandleIdx[w] \in Indexes
  <2>1. made[w] + 1 \in 1..MaxCalls
    BY DEF IInv, TypeOK, Begin
  <2> QED BY <2>1 DEF Calls
<1>2. MaxSeq(HandleIdx[w]) \in Nat
  BY <1>1, MaxIsNat DEF IInv
<1>3. rows' = rows /\ outcome[c] = "uncalled"
  BY <1>1 DEF IInv, TypeOK, Begin, CallStates
<1>4. TypeOK'
  BY <1>1, <1>2 DEF IInv, TypeOK, Begin, Outcomes
<1>5. Dense' /\ UniqueNumbers' /\ OneRowPerCall'
  BY <1>3, SameRows DEF IInv, Dense, UniqueNumbers, OneRowPerCall
<1>6. \A d \in Calls : d # c => outcome'[d] = outcome[d] /\ base'[d] = base[d]
  BY DEF Begin, IInv, TypeOK
<1>7. outcome'[c] \in {"pending", "invalid"} /\ base'[c] = MaxSeq(HandleIdx[w])
  BY <1>1 DEF Begin, IInv, TypeOK
<1>8. RowsOfReturned'
  <2>1. \A r \in rows : r.call \in Calls /\ r.call # c
    BY <1>3 DEF IInv, TypeOK, Row, RowsOfReturned
  <2> QED BY <2>1, <1>3, <1>6 DEF IInv, RowsOfReturned, IndexOf
<1>9. OkHasRow'
  BY <1>3, <1>6, <1>7 DEF IInv, OkHasRow, IndexOf
<1>10. CallStates'
  <2>1. ASSUME NEW v \in Writers, pc'[v] # "idle"
        PROVE  made'[v] > 0
    BY <2>1 DEF IInv, TypeOK, CallStates, Begin
  <2>2. ASSUME NEW d \in Calls
        PROVE  /\ d[2] > made'[d[1]] => outcome'[d] = "uncalled"
               /\ d[2] = made'[d[1]] /\ pc'[d[1]] # "idle" => outcome'[d] = "pending"
    <3>1. d[1] \in Writers /\ d[2] \in 1..MaxCalls /\ d = <<d[1], d[2]>>
      BY DEF Calls
    <3>2. made[w] \in Nat /\ made' = [made EXCEPT ![w] = made[w] + 1]
      BY DEF IInv, TypeOK, Begin
    <3>3. CASE d = c
      <4>1. d[1] = w /\ d[2] = made[w] + 1 /\ made'[w] = made[w] + 1
        BY <3>2, <3>3 DEF IInv, TypeOK
      <4>2. pc'[w] # "idle" => outcome'[c] = "pending"
        BY <1>1 DEF IInv, TypeOK, Begin
      <4> QED BY <3>2, <3>3, <4>1, <4>2
    <3>4. CASE d # c /\ d[1] = w
      <4>1. d[2] # made[w] + 1 /\ made'[w] = made[w] + 1
        BY <3>1, <3>2, <3>4 DEF IInv, TypeOK
      <4> QED BY <3>1, <3>2, <3>4, <4>1, <1>6 DEF IInv, CallStates
    <3>5. CASE d[1] # w
      <4>1. made'[d[1]] = made[d[1]] /\ pc'[d[1]] = pc[d[1]] /\ d # c
        BY <3>1, <3>5 DEF IInv, TypeOK, Begin
      <4> QED BY <4>1, <1>6 DEF IInv, CallStates
    <3> QED BY <3>3, <3>4, <3>5
  <2> QED BY <2>1, <2>2 DEF CallStates
<1>11. Contention'
  <2> SUFFICES ASSUME NEW v \in Writers, pc'[v] # "idle"
               PROVE  /\ base'[Current(v)'] <= MaxSeq(HandleIdx[v])'
                      /\ pc'[v] = "insert" =>
                            /\ base'[Current(v)'] + attempt'[v] + 1 <= next'[v]
                            /\ next'[v] <= MaxSeq(HandleIdx[v])' + 1
                      /\ pc'[v] = "reread" =>
                            /\ base'[Current(v)'] + attempt'[v] + 1 <= MaxSeq(HandleIdx[v])'
                            /\ attempt'[v] < SeqRetries
    BY DEF Contention
  <2>1. MaxSeq(HandleIdx[v])' = MaxSeq(HandleIdx[v])
    BY <1>3, SameRows
  <2>2. CASE v = w
    <3>1. pc'[v] = "read" /\ Current(v)' = c
      BY <2>2 DEF Begin, IInv, TypeOK, Current
    <3> QED BY <3>1, <2>1, <2>2, <1>2, <1>7
  <2>3. CASE v # w
    <3>1. pc'[v] = pc[v] /\ next'[v] = next[v] /\ attempt'[v] = attempt[v]
      BY <2>3 DEF Begin, IInv, TypeOK
    <3>2. Current(v)' = Current(v) /\ Current(v) # c
      BY <2>3 DEF Begin, IInv, TypeOK, Current
    <3>3. base'[Current(v)'] = base[Current(v)]
      BY <3>1, <3>2, <1>6, CurrentIsCall
    <3> QED BY <3>1, <3>3, <2>1 DEF IInv, Contention
  <2> QED BY <2>2, <2>3
<1>12. ExhaustedOnlyByProgress'
  <2>1. \A d \in Calls : outcome'[d] = "exhausted" => d # c
    BY <1>7
  <2> QED BY <2>1, <1>3, <1>6, SameRows DEF IInv, ExhaustedOnlyByProgress, IndexOf
<1> QED BY <1>4, <1>5, <1>8, <1>9, <1>10, <1>11, <1>12 DEF IInv

\* What Contention says of one handle.
ContentionOf(v) ==
    /\ pc[v] # "idle" => base[Current(v)] <= MaxSeq(HandleIdx[v])
    /\ pc[v] = "insert" =>
          /\ base[Current(v)] + attempt[v] + 1 <= next[v]
          /\ next[v] <= MaxSeq(HandleIdx[v]) + 1
    /\ pc[v] = "reread" =>
          /\ base[Current(v)] + attempt[v] + 1 <= MaxSeq(HandleIdx[v])
          /\ attempt[v] < SeqRetries

\* A step of w leaves the others where they were, and a MAX that grows under
\* them takes nothing from what they know.
LEMMA OthersContend ==
    ASSUME IInv, NEW w \in Writers, NEW v \in Writers, v # w,
           made' = made, base' = base,
           pc'[v] = pc[v], next'[v] = next[v], attempt'[v] = attempt[v],
           MaxSeq(HandleIdx[v])' \in Nat, MaxSeq(HandleIdx[v])' >= MaxSeq(HandleIdx[v])
    PROVE  ContentionOf(v)'
<1>1. MaxSeq(HandleIdx[v]) \in Nat
  BY MaxIsNat, SeqAppendAssumption DEF IInv
<1>2. Current(v)' = Current(v)
  BY DEF Current
<1>3. next[v] \in Nat /\ attempt[v] \in Nat
  BY SeqAppendAssumption DEF IInv, TypeOK
<1>4. pc[v] # "idle" => base[Current(v)] \in Nat
  BY CurrentIsCall DEF IInv, TypeOK
<1>5. ContentionOf(v)
  BY DEF IInv, Contention, ContentionOf
<1>6. CASE pc[v] = "idle"
  BY <1>6 DEF ContentionOf
<1>7. CASE pc[v] # "idle"
  BY <1>1, <1>2, <1>3, <1>4, <1>5, <1>7 DEF ContentionOf
<1> QED BY <1>6, <1>7

\* A call that goes on without touching the table: it only has to know where it
\* stands itself.
LEMMA StepAdvance ==
    ASSUME IInv, NEW w \in Writers, pc[w] # "idle",
           UNCHANGED <<rows, made, outcome, base>>,
           NEW p \in {"insert", "reread"}, pc' = [pc EXCEPT ![w] = p],
           NEW n \in Nat, next' = [next EXCEPT ![w] = n],
           NEW a \in 0..SeqRetries, attempt' = [attempt EXCEPT ![w] = a],
           ContentionOf(w)'
    PROVE  IInv'
<1>1. TypeOK'
  BY DEF IInv, TypeOK
<1>2. Dense' /\ UniqueNumbers' /\ RowsOfReturned' /\ OneRowPerCall' /\ OkHasRow'
  BY SameRows DEF IInv, Dense, UniqueNumbers, RowsOfReturned, OneRowPerCall, OkHasRow, IndexOf
<1>3. CallStates'
  <2>1. \A v \in Writers : pc'[v] # "idle" <=> pc[v] # "idle"
    BY DEF IInv, TypeOK
  <2>2. \A c \in Calls : c[1] \in Writers
    BY DEF Calls
  <2> QED BY <2>1, <2>2 DEF IInv, CallStates
<1>4. Contention'
  <2>1. ASSUME NEW v \in Writers, v # w
        PROVE  ContentionOf(v)'
    <3>1. pc'[v] = pc[v] /\ next'[v] = next[v] /\ attempt'[v] = attempt[v]
      BY <2>1 DEF IInv, TypeOK
    <3>2. MaxSeq(HandleIdx[v])' = MaxSeq(HandleIdx[v]) /\ MaxSeq(HandleIdx[v]) \in Nat
      BY SameRows, MaxIsNat, SeqAppendAssumption DEF IInv
    <3> QED BY <2>1, <3>1, <3>2, OthersContend
  <2>2. \A v \in Writers : ContentionOf(v)'
    BY <2>1
  <2> QED BY <2>2 DEF Contention, ContentionOf
<1>5. ExhaustedOnlyByProgress'
  BY SameRows DEF IInv, ExhaustedOnlyByProgress, IndexOf
<1> QED BY <1>1, <1>2, <1>3, <1>4, <1>5 DEF IInv

\* What Return does to the history and to the handle.
LEMMA ReturnFrame ==
    ASSUME IInv, NEW w \in Writers, pc[w] # "idle",
           NEW o \in {"ok", "exhausted", "unknown"}, Return(w, o), UNCHANGED <<made, base>>
    PROVE  /\ outcome'[Current(w)] = o
           /\ \A c \in Calls : c # Current(w) => outcome'[c] = outcome[c]
           /\ pc'[w] = "idle"
           /\ \A v \in Writers : v # w =>
                 pc'[v] = pc[v] /\ next'[v] = next[v] /\ attempt'[v] = attempt[v]
           /\ pc' \in [Writers -> {"idle", "read", "insert", "reread"}]
           /\ next' \in [Writers -> Nat]
           /\ attempt' \in [Writers -> 0..SeqRetries]
           /\ outcome' \in [Calls -> Outcomes]
           /\ CallStates'
<1>1. Current(w) \in Calls
  BY CurrentIsCall
<1>2. outcome'[Current(w)] = o /\ \A c \in Calls : c # Current(w) => outcome'[c] = outcome[c]
  BY <1>1 DEF IInv, TypeOK, Return
<1>3. pc'[w] = "idle"
  BY DEF IInv, TypeOK, Return
<1>4. \A v \in Writers : v # w =>
         pc'[v] = pc[v] /\ next'[v] = next[v] /\ attempt'[v] = attempt[v]
  BY DEF IInv, TypeOK, Return
<1>5. /\ pc' \in [Writers -> {"idle", "read", "insert", "reread"}]
      /\ next' \in [Writers -> Nat]
      /\ attempt' \in [Writers -> 0..SeqRetries]
      /\ outcome' \in [Calls -> Outcomes]
  BY <1>1, SeqAppendAssumption DEF IInv, TypeOK, Return, Outcomes
<1>6. CallStates'
  <2>1. \A v \in Writers : pc'[v] # "idle" => made[v] > 0
    BY <1>3, <1>4 DEF IInv, CallStates
  <2>2. ASSUME NEW c \in Calls
        PROVE  /\ c[2] > made[c[1]] => outcome'[c] = "uncalled"
               /\ c[2] = made[c[1]] /\ pc'[c[1]] # "idle" => outcome'[c] = "pending"
    <3>1. c[1] \in Writers /\ made[w] \in Nat
      BY DEF IInv, TypeOK, Calls
    <3>2. CASE c = Current(w)
      <4>1. c[1] = w /\ c[2] = made[w]
        BY <3>2 DEF Current
      <4> QED BY <3>1, <4>1, <1>3
    <3>3. CASE c # Current(w)
      BY <3>1, <3>3, <1>2, <1>3, <1>4 DEF IInv, CallStates
    <3> QED BY <3>2, <3>3
  <2> QED BY <2>1, <2>2 DEF CallStates
<1> QED BY <1>2, <1>3, <1>4, <1>5, <1>6

\* A call that returns without a row.
LEMMA StepGiveUp ==
    ASSUME IInv, NEW w \in Writers, pc[w] # "idle", UNCHANGED <<rows, made, base>>,
           NEW o \in {"exhausted", "unknown"}, Return(w, o),
           o = "exhausted" => MaxSeq(HandleIdx[w]) >= base[Current(w)] + SeqRetries + 1
    PROVE  IInv'
<1>1. Current(w) \in Calls /\ outcome[Current(w)] = "pending"
  BY CurrentIsCall
<1>2. TypeOK'
  BY ReturnFrame DEF IInv, TypeOK
<1>3. Dense' /\ UniqueNumbers' /\ OneRowPerCall' /\ CallStates'
  BY SameRows, ReturnFrame DEF IInv, Dense, UniqueNumbers, OneRowPerCall
<1>4. RowsOfReturned'
  <2>1. \A r \in rows : r.call \in Calls /\ r.call # Current(w)
    BY <1>1 DEF IInv, TypeOK, Row, RowsOfReturned
  <2> QED BY <2>1, ReturnFrame DEF IInv, RowsOfReturned, IndexOf
<1>5. OkHasRow'
  BY ReturnFrame DEF IInv, OkHasRow, IndexOf
<1>6. Contention'
  <2>1. ASSUME NEW v \in Writers
        PROVE  ContentionOf(v)'
    <3>1. CASE v = w
      BY <3>1, ReturnFrame DEF ContentionOf
    <3>2. CASE v # w
      <4>1. MaxSeq(HandleIdx[v])' = MaxSeq(HandleIdx[v]) /\ MaxSeq(HandleIdx[v]) \in Nat
        BY SameRows, MaxIsNat, SeqAppendAssumption DEF IInv
      <4>2. pc'[v] = pc[v] /\ next'[v] = next[v] /\ attempt'[v] = attempt[v]
        BY <3>2, ReturnFrame
      <4> QED BY <3>2, <4>1, <4>2, OthersContend
    <3> QED BY <3>1, <3>2
  <2> QED BY <2>1 DEF Contention, ContentionOf
<1>7. ExhaustedOnlyByProgress'
  <2> SUFFICES ASSUME NEW c \in Calls, outcome'[c] = "exhausted"
               PROVE  MaxSeq(IndexOf(c))' >= base'[c] + SeqRetries + 1
    BY DEF ExhaustedOnlyByProgress, IndexOf
  <2>1. MaxSeq(IndexOf(c))' = MaxSeq(IndexOf(c))
    BY SameRows
  <2>2. CASE c = Current(w)
    <3>1. o = "exhausted" /\ IndexOf(c) = HandleIdx[w]
      BY <2>2, ReturnFrame DEF Current, IndexOf
    <3> QED BY <2>1, <2>2, <3>1
  <2>3. CASE c # Current(w)
    BY <2>1, <2>3, ReturnFrame DEF IInv, ExhaustedOnlyByProgress
  <2> QED BY <2>2, <2>3
<1> QED BY <1>2, <1>3, <1>4, <1>5, <1>6, <1>7 DEF IInv

\* A row lands, whatever its caller is told.
Lands(w, o) ==
    /\ pc[w] = "insert"
    /\ ~ Taken(HandleIdx[w], next[w])
    /\ rows' = rows \cup {NewRow(w)}
    /\ Return(w, o)
    /\ UNCHANGED <<made, base>>

LEMMA StepLands ==
    ASSUME IInv, NEW w \in Writers, NEW o \in {"ok", "unknown"}, Lands(w, o)
    PROVE  IInv'
<1> DEFINE h == HandleIdx[w]
           c == Current(w)
<1>1. pc[w] = "insert" /\ ~ Taken(h, next[w]) /\ rows' = rows \cup {NewRow(w)}
      /\ Return(w, o) /\ made' = made /\ base' = base
  BY DEF Lands
<1>2. c \in Calls /\ outcome[c] = "pending" /\ IndexOf(c) = h
  BY <1>1, CurrentIsCall DEF Current, IndexOf
<1>3. /\ next[w] = MaxSeq(h) + 1
      /\ Dense'
      /\ \A i \in Indexes : MaxSeq(i)' = IF i = h THEN MaxSeq(i) + 1 ELSE MaxSeq(i)
  BY <1>1, LandsAtEnd
<1>4. /\ outcome'[c] = o
      /\ \A d \in Calls : d # c => outcome'[d] = outcome[d]
      /\ pc'[w] = "idle"
      /\ \A v \in Writers : v # w =>
            pc'[v] = pc[v] /\ next'[v] = next[v] /\ attempt'[v] = attempt[v]
      /\ pc' \in [Writers -> {"idle", "read", "insert", "reread"}]
      /\ next' \in [Writers -> Nat]
      /\ attempt' \in [Writers -> 0..SeqRetries]
      /\ outcome' \in [Calls -> Outcomes]
      /\ CallStates'
  BY <1>1, ReturnFrame
<1>5. \A i \in Indexes : MaxSeq(i) \in Nat /\ MaxSeq(i)' \in Nat /\ MaxSeq(i)' >= MaxSeq(i)
  BY <1>3, MaxIsNat DEF IInv
<1>6. h \in Indexes
  BY SeqAppendAssumption
<1>7. NewRow(w).idx = h /\ NewRow(w).seq = next[w] /\ NewRow(w).call = c
  BY DEF NewRow
<1>8. \A r \in rows : r.call \in Calls /\ r.call # c
  BY <1>2 DEF IInv, TypeOK, Row, RowsOfReturned
<1>9. TypeOK'
  <2>1. NewRow(w) \in Row
    BY <1>2, <1>3, <1>5, <1>6 DEF NewRow, Row
  <2> QED BY <2>1, <1>1, <1>4 DEF IInv, TypeOK
<1>10. UniqueNumbers'
  <2>1. \A r \in rows : ~ (r.idx = h /\ r.seq = next[w])
    BY <1>1 DEF Taken, SeqsOf
  <2> QED BY <2>1, <1>1, <1>7 DEF IInv, UniqueNumbers
<1>11. RowsOfReturned'
  <2>1. \A r \in rows : r.idx = IndexOf(r.call) /\ outcome'[r.call] \in {"ok", "unknown"}
    BY <1>4, <1>8 DEF IInv, RowsOfReturned
  <2> QED BY <2>1, <1>1, <1>2, <1>4, <1>7 DEF RowsOfReturned, IndexOf
<1>12. OneRowPerCall'
  BY <1>1, <1>7, <1>8 DEF IInv, OneRowPerCall
<1>13. OkHasRow'
  <2> SUFFICES ASSUME NEW d \in Calls, outcome'[d] = "ok"
               PROVE  \E r \in rows' : r.call = d /\ r.idx = IndexOf(d)
    BY DEF OkHasRow, IndexOf
  <2>1. CASE d = c
    BY <2>1, <1>1, <1>2, <1>7
  <2>2. CASE d # c
    BY <2>2, <1>1, <1>4 DEF IInv, OkHasRow
  <2> QED BY <2>1, <2>2
<1>14. Contention'
  <2>1. ASSUME NEW v \in Writers
        PROVE  ContentionOf(v)'
    <3>1. CASE v = w
      BY <3>1, <1>4 DEF ContentionOf
    <3>2. CASE v # w
      <4>1. HandleIdx[v] \in Indexes
        BY SeqAppendAssumption
      <4>2. pc'[v] = pc[v] /\ next'[v] = next[v] /\ attempt'[v] = attempt[v]
        BY <3>2, <1>4
      <4> QED BY <3>2, <4>1, <4>2, <1>1, <1>5, OthersContend
    <3> QED BY <3>1, <3>2
  <2> QED BY <2>1 DEF Contention, ContentionOf
<1>15. ExhaustedOnlyByProgress'
  <2> SUFFICES ASSUME NEW d \in Calls, outcome'[d] = "exhausted"
               PROVE  MaxSeq(IndexOf(d))' >= base'[d] + SeqRetries + 1
    BY DEF ExhaustedOnlyByProgress, IndexOf
  <2>1. d # c /\ outcome[d] = "exhausted"
    BY <1>4
  <2>2. IndexOf(d) \in Indexes /\ base[d] \in Nat
    BY SeqAppendAssumption DEF IndexOf, Calls, IInv, TypeOK
  <2>3. MaxSeq(IndexOf(d)) >= base[d] + SeqRetries + 1
    BY <2>1 DEF IInv, ExhaustedOnlyByProgress
  <2> QED BY <2>2, <2>3, <1>1, <1>5, SeqAppendAssumption
<1> QED BY <1>3, <1>4, <1>9, <1>10, <1>11, <1>12, <1>13, <1>14, <1>15 DEF IInv

LEMMA StepReadMax ==
    ASSUME IInv, NEW w \in Writers, ReadMax(w)
    PROVE  IInv'
<1>1. HandleIdx[w] \in Indexes /\ MaxSeq(HandleIdx[w]) \in Nat
  BY MaxIsNat, SeqAppendAssumption DEF IInv
<1>2. Current(w) \in Calls /\ base[Current(w)] \in Nat
  BY CurrentIsCall DEF ReadMax, IInv, TypeOK
<1>3. base[Current(w)] <= MaxSeq(HandleIdx[w])
  BY DEF ReadMax, IInv, Contention
<1>4. /\ pc'[w] = "insert" /\ attempt'[w] = 0 /\ next'[w] = MaxSeq(HandleIdx[w]) + 1
      /\ Current(w)' = Current(w)
  BY DEF ReadMax, IInv, TypeOK, Current
<1>5. ContentionOf(w)'
  <2>1. MaxSeq(HandleIdx[w])' = MaxSeq(HandleIdx[w]) /\ base' = base
    BY SameRows DEF ReadMax
  <2> QED BY <2>1, <1>1, <1>2, <1>3, <1>4 DEF ContentionOf
<1>6. (MaxSeq(HandleIdx[w]) + 1) \in Nat /\ 0 \in 0..SeqRetries
  BY <1>1, SeqAppendAssumption
<1> QED BY <1>5, <1>6, StepAdvance DEF ReadMax

LEMMA StepReread ==
    ASSUME IInv, NEW w \in Writers, Reread(w)
    PROVE  IInv'
<1>1. HandleIdx[w] \in Indexes /\ MaxSeq(HandleIdx[w]) \in Nat
  BY MaxIsNat, SeqAppendAssumption DEF IInv
<1>2. Current(w) \in Calls /\ base[Current(w)] \in Nat
  BY CurrentIsCall DEF Reread, IInv, TypeOK
<1>3. /\ attempt[w] \in Nat /\ attempt[w] < SeqRetries
      /\ base[Current(w)] + attempt[w] + 1 <= MaxSeq(HandleIdx[w])
  BY SeqAppendAssumption DEF Reread, IInv, TypeOK, Contention
<1>4. /\ pc'[w] = "insert" /\ attempt'[w] = attempt[w] + 1
      /\ next'[w] = MaxSeq(HandleIdx[w]) + 1 /\ Current(w)' = Current(w)
  BY DEF Reread, IInv, TypeOK, Current
<1>5. ContentionOf(w)'
  <2>1. MaxSeq(HandleIdx[w])' = MaxSeq(HandleIdx[w]) /\ base' = base
    BY SameRows DEF Reread
  <2> QED BY <2>1, <1>1, <1>2, <1>3, <1>4 DEF ContentionOf
<1>6. (MaxSeq(HandleIdx[w]) + 1) \in Nat /\ attempt[w] + 1 \in 0..SeqRetries
  BY <1>1, <1>3, SeqAppendAssumption
<1> QED BY <1>5, <1>6, StepAdvance DEF Reread

LEMMA StepDuplicate ==
    ASSUME IInv, NEW w \in Writers, Duplicate(w)
    PROVE  IInv'
<1>1. HandleIdx[w] \in Indexes /\ MaxSeq(HandleIdx[w]) \in Nat
      /\ SeqsOf(HandleIdx[w]) = 1..MaxSeq(HandleIdx[w])
  BY MaxIsNat, SeqAppendAssumption DEF IInv
<1>2. Current(w) \in Calls /\ base[Current(w)] \in Nat
  BY CurrentIsCall DEF Duplicate, IInv, TypeOK
<1>3. /\ attempt[w] \in 0..SeqRetries /\ next[w] \in Nat
      /\ base[Current(w)] + attempt[w] + 1 <= next[w]
  BY DEF Duplicate, IInv, TypeOK, Contention
<1>4. next[w] <= MaxSeq(HandleIdx[w])
  BY <1>1 DEF Duplicate, Taken
<1>5. base[Current(w)] + attempt[w] + 1 <= MaxSeq(HandleIdx[w])
  BY <1>1, <1>2, <1>3, <1>4
<1>6. CASE attempt[w] >= SeqRetries /\ Return(w, "exhausted")
  <2>1. MaxSeq(HandleIdx[w]) >= base[Current(w)] + SeqRetries + 1
    BY <1>1, <1>2, <1>3, <1>5, <1>6, SeqAppendAssumption
  <2> QED BY <2>1, <1>6, StepGiveUp DEF Duplicate
<1>7. CASE /\ attempt[w] < SeqRetries
           /\ pc' = [pc EXCEPT ![w] = "reread"]
           /\ UNCHANGED <<next, attempt, outcome>>
  <2>1. /\ pc'[w] = "reread" /\ Current(w)' = Current(w) /\ rows' = rows
        /\ base' = base /\ made' = made /\ attempt'[w] = attempt[w]
    BY <1>7 DEF Duplicate, IInv, TypeOK, Current
  <2>2. MaxSeq(HandleIdx[w])' = MaxSeq(HandleIdx[w])
    BY <2>1, SameRows
  <2>3. ContentionOf(w)'
    BY <2>1, <2>2, <1>1, <1>2, <1>3, <1>5, <1>7, SeqAppendAssumption DEF ContentionOf
  <2>4. next' = [next EXCEPT ![w] = next[w]] /\ attempt' = [attempt EXCEPT ![w] = attempt[w]]
    BY <1>7 DEF IInv, TypeOK
  <2> QED BY <2>1, <2>3, <2>4, <1>3, <1>7, StepAdvance DEF Duplicate
<1> QED BY <1>6, <1>7 DEF Duplicate

LEMMA StepInsert ==
    ASSUME IInv, NEW w \in Writers, Insert(w)
    PROVE  IInv'
BY StepLands DEF Insert, Lands

LEMMA StepFail ==
    ASSUME IInv, NEW w \in Writers, Fail(w)
    PROVE  IInv'
<1>1. CASE rows' = rows
  BY <1>1, StepGiveUp DEF Fail
<1>2. CASE /\ pc[w] = "insert"
           /\ ~ Taken(HandleIdx[w], next[w])
           /\ rows' = rows \cup {NewRow(w)}
  BY <1>2, StepLands DEF Fail, Lands
<1> QED BY <1>1, <1>2 DEF Fail

LEMMA StepIInv == IInv /\ [Next]_vars => IInv'
<1> SUFFICES ASSUME IInv, [Next]_vars PROVE IInv'
  OBVIOUS
<1>1. CASE UNCHANGED vars
  <2>1. /\ rows' = rows /\ pc' = pc /\ made' = made /\ next' = next
        /\ attempt' = attempt /\ outcome' = outcome /\ base' = base
    BY <1>1 DEF vars
  <2>2. \A i : SeqsOf(i)' = SeqsOf(i) /\ MaxSeq(i)' = MaxSeq(i)
    BY <2>1, SameRows
  <2>3. TypeOK' /\ UniqueNumbers' /\ RowsOfReturned' /\ OneRowPerCall' /\ OkHasRow'
    BY <2>1 DEF IInv, TypeOK, UniqueNumbers, RowsOfReturned, OneRowPerCall, OkHasRow, IndexOf
  <2>4. Dense' /\ ExhaustedOnlyByProgress'
    BY <2>1, <2>2 DEF IInv, Dense, ExhaustedOnlyByProgress, IndexOf
  <2>5. CallStates'
    BY <2>1 DEF IInv, CallStates
  <2>6. Contention'
    BY <2>1, <2>2 DEF IInv, Contention, Current
  <2> QED BY <2>3, <2>4, <2>5, <2>6 DEF IInv
<1>2. ASSUME NEW w \in Writers, Begin(w) PROVE IInv'
  BY <1>2, StepBegin
<1>3. ASSUME NEW w \in Writers, ReadMax(w) PROVE IInv'
  BY <1>3, StepReadMax
<1>4. ASSUME NEW w \in Writers, Insert(w) PROVE IInv'
  BY <1>4, StepInsert
<1>5. ASSUME NEW w \in Writers, Duplicate(w) PROVE IInv'
  BY <1>5, StepDuplicate
<1>6. ASSUME NEW w \in Writers, Reread(w) PROVE IInv'
  BY <1>6, StepReread
<1>7. ASSUME NEW w \in Writers, Fail(w) PROVE IInv'
  BY <1>7, StepFail
<1> QED BY <1>1, <1>2, <1>3, <1>4, <1>5, <1>6, <1>7 DEF Next, Step

\* The inductive invariant holds in every reachable state (Append).
THEOREM Invariance == Spec => []IInv
<1>1. Init => IInv
  BY InitIInv
<1>2. IInv /\ [Next]_vars => IInv'
  BY StepIInv
<1> QED BY <1>1, <1>2, PTL DEF Spec

-----------------------------------------------------------------------------
(* What it implies. *)

\* The variables keep their types, whatever the bounds.
THEOREM TypeCorrect == Spec => []TypeOK
<1>1. IInv => TypeOK
  BY DEF IInv
<1> QED BY <1>1, Invariance, PTL

\* However many handles race on however many indexes, the numbers of an index
\* are 1..MAX and each is used once (Append's MAX+1 under the PRIMARY KEY).
THEOREM NumbersAreDense == Spec => []SeqDense
<1>1. IInv => SeqDense
  BY MaxIsNat DEF IInv, SeqDense, UniqueNumbers
<1> QED BY <1>1, Invariance, PTL

\* An acknowledged call has its row, a refused one has none, and no call has
\* two, however many retries and lost replies there were (Append).
THEOREM NoCallIsLost == Spec => []AcknowledgedOnce
<1>1. IInv => AcknowledgedOnce
  BY DEF IInv, AcknowledgedOnce, OkHasRow, RowsOfReturned, OneRowPerCall
<1> QED BY <1>1, Invariance, PTL

\* A call gives up only when at least SeqRetries+1 rows of others entered its
\* index while it was in flight, for every value of seqRetries.
THEOREM GivingUpIsContention == Spec => []ExhaustedOnlyByProgress
<1>1. IInv => ExhaustedOnlyByProgress
  BY DEF IInv
<1> QED BY <1>1, Invariance, PTL

\* No step of any handle removes or rewrites a row (the storeSchema's rules).
THEOREM RowsOnlyGrow == Spec => AppendOnly
<1>1. [Next]_vars => [rows \subseteq rows']_vars
  BY DEF Next, Step, Begin, ReadMax, Insert, Duplicate, Reread, Fail, vars
<1> QED BY <1>1, PTL DEF Spec, AppendOnly

-----------------------------------------------------------------------------
(* The refinement: the table is an append-only log per index. *)

TheLog == [i \in Indexes |-> LogOf(i)]

\* The line at position s of an index is the call of the one row numbered s.
LEMMA LineOfRow ==
    ASSUME IInv, NEW i \in Indexes
    PROVE  /\ LogOf(i) \in Seq(Calls)
           /\ Len(LogOf(i)) = MaxSeq(i)
           /\ \A r \in rows : r.idx = i => r.seq \in 1..MaxSeq(i) /\ LogOf(i)[r.seq] = r.call
           /\ \A s \in 1..MaxSeq(i) : \E r \in rows : r.idx = i /\ r.seq = s /\ LogOf(i)[s] = r.call
<1>1. MaxSeq(i) \in Nat /\ SeqsOf(i) = 1..MaxSeq(i)
  BY MaxIsNat DEF IInv
<1>2. \A s \in 1..MaxSeq(i) : \E r \in rows : r.idx = i /\ r.seq = s
  BY <1>1 DEF SeqsOf
<1>3. ASSUME NEW s \in 1..MaxSeq(i), NEW r \in rows, r.idx = i, r.seq = s
      PROVE  (CHOOSE q \in rows : q.idx = i /\ q.seq = s) = r
  BY <1>3 DEF IInv, UniqueNumbers
<1>4. \A s \in 1..MaxSeq(i) : \E r \in rows : r.idx = i /\ r.seq = s /\ LogOf(i)[s] = r.call
  BY <1>2, <1>3 DEF LogOf
<1>5. \A r \in rows : r.idx = i => r.seq \in 1..MaxSeq(i) /\ LogOf(i)[r.seq] = r.call
  <2> SUFFICES ASSUME NEW r \in rows, r.idx = i
               PROVE  r.seq \in 1..MaxSeq(i) /\ LogOf(i)[r.seq] = r.call
    OBVIOUS
  <2>1. r.seq \in 1..MaxSeq(i)
    BY <1>1 DEF SeqsOf
  <2> QED BY <2>1, <1>3 DEF LogOf
<1>6. LogOf(i) \in [1..MaxSeq(i) -> Calls]
  <2>1. \A s \in 1..MaxSeq(i) : LogOf(i)[s] \in Calls
    BY <1>4 DEF IInv, TypeOK, Row
  <2> QED BY <2>1 DEF LogOf
<1> QED BY <1>1, <1>4, <1>5, <1>6

\* A step that leaves the rows alone leaves the log alone.
LEMMA SameLog ==
    ASSUME rows' = rows
    PROVE  TheLog' = TheLog
BY SameRows DEF TheLog, LogOf

\* A row that lands is a line at the end of its index, which did not hold it.
LEMMA LandAppends ==
    ASSUME IInv, NEW w \in Writers, NEW o \in {"ok", "unknown"}, Lands(w, o)
    PROVE  /\ \A k \in 1..Len(LogOf(HandleIdx[w])) : LogOf(HandleIdx[w])[k] # Current(w)
           /\ TheLog' = [TheLog EXCEPT ![HandleIdx[w]] = Append(@, Current(w))]
<1> DEFINE h == HandleIdx[w]
           c == Current(w)
           n == MaxSeq(h)
<1>1. IInv'
  BY StepLands
<1>2. h \in Indexes /\ n \in Nat
  BY MaxIsNat, SeqAppendAssumption DEF IInv
<1>3. /\ next[w] = n + 1
      /\ \A i \in Indexes : MaxSeq(i)' = IF i = h THEN n + 1 ELSE MaxSeq(i)
      /\ rows' = rows \cup {NewRow(w)}
  BY LandsAtEnd DEF Lands
<1>4. NewRow(w).idx = h /\ NewRow(w).seq = n + 1 /\ NewRow(w).call = c
  BY <1>3 DEF NewRow
<1>5. c \in Calls /\ \A r \in rows : r.call # c
  BY CurrentIsCall DEF Lands, IInv, RowsOfReturned
<1>6. \A k \in 1..Len(LogOf(h)) : LogOf(h)[k] # c
  BY <1>2, <1>5, LineOfRow
<1>7. ASSUME NEW i \in Indexes, i # h
      PROVE  LogOf(i)' = LogOf(i)
  <2>1. MaxSeq(i)' = MaxSeq(i)
    BY <1>3, <1>7
  <2>2. ASSUME NEW s \in 1..MaxSeq(i)
        PROVE  LogOf(i)'[s] = LogOf(i)[s]
    <3>1. PICK r \in rows : r.idx = i /\ r.seq = s /\ LogOf(i)[s] = r.call
      BY LineOfRow
    <3>2. r \in rows'
      BY <1>3
    <3>3. (CHOOSE q \in rows' : q.idx = i /\ q.seq = s) = r
      BY <1>1, <3>1, <3>2 DEF IInv, UniqueNumbers
    <3> QED BY <2>1, <3>1, <3>3 DEF LogOf
  <2>3. LogOf(i)' = [s \in 1..MaxSeq(i) |-> LogOf(i)'[s]]
    BY <2>1 DEF LogOf
  <2>4. LogOf(i) = [s \in 1..MaxSeq(i) |-> LogOf(i)[s]]
    BY DEF LogOf
  <2> QED BY <2>2, <2>3, <2>4
<1>8. LogOf(h)' = Append(LogOf(h), c)
  <2>1. LogOf(h) \in Seq(Calls) /\ Len(LogOf(h)) = n
    BY <1>2, LineOfRow
  <2>2. DOMAIN LogOf(h)' = 1..(n + 1) /\ LogOf(h)' = [s \in 1..(n + 1) |-> LogOf(h)'[s]]
    BY <1>2, <1>3 DEF LogOf
  <2>3. ASSUME NEW s \in 1..(n + 1), NEW r \in rows', r.idx = h, r.seq = s
        PROVE  LogOf(h)'[s] = r.call
    <3>1. (CHOOSE q \in rows' : q.idx = h /\ q.seq = s) = r
      BY <1>1, <2>3 DEF IInv, UniqueNumbers
    <3> QED BY <3>1, <1>2, <1>3 DEF LogOf
  <2>4. LogOf(h)'[n + 1] = c
    BY <2>3, <1>2, <1>3, <1>4
  <2>5. ASSUME NEW s \in 1..n
        PROVE  LogOf(h)'[s] = LogOf(h)[s]
    <3>1. PICK r \in rows : r.idx = h /\ r.seq = s /\ LogOf(h)[s] = r.call
      BY <1>2, LineOfRow
    <3>2. r \in rows' /\ s \in 1..(n + 1)
      BY <1>2, <1>3
    <3> QED BY <3>1, <3>2, <2>3
  <2>6. LogOf(h)' \in Seq(Calls) /\ Len(LogOf(h)') = n + 1
    <3>1. \A s \in 1..n : LogOf(h)[s] \in Calls
      BY <2>1, ElementOfSeq
    <3>2. \A s \in 1..(n + 1) : LogOf(h)'[s] \in Calls
      BY <1>2, <1>5, <2>4, <2>5, <3>1
    <3>3. LogOf(h)' \in [1..(n + 1) -> Calls]
      BY <2>2, <3>2
    <3> QED BY <1>2, <3>3
  <2>7. /\ Append(LogOf(h), c) \in Seq(Calls)
        /\ Len(Append(LogOf(h), c)) = n + 1
        /\ \A s \in 1..n : Append(LogOf(h), c)[s] = LogOf(h)[s]
        /\ Append(LogOf(h), c)[n + 1] = c
    BY <1>5, <2>1, AppendProperties
  <2>8. \A s \in 1..(n + 1) : LogOf(h)'[s] = Append(LogOf(h), c)[s]
    BY <1>2, <2>4, <2>5, <2>7
  <2> QED BY <2>6, <2>7, <2>8, SeqEqual
<1>9. TheLog' = [TheLog EXCEPT ![h] = Append(@, c)]
  BY <1>2, <1>7, <1>8 DEF TheLog
<1> QED BY <1>6, <1>9

LEMMA InitRefines == Init => Promise!Init
<1> SUFFICES ASSUME Init PROVE Promise!Init
  OBVIOUS
<1>1. IInv
  BY InitIInv
<1>2. ASSUME NEW i \in Indexes
      PROVE  LogOf(i) = << >>
  <2>1. SeqsOf(i) = 1..0
    BY DEF Init, SeqsOf
  <2>2. MaxSeq(i) = 0
    BY <2>1, MaxOfDense
  <2> QED BY <1>1, <2>2, LineOfRow
<1> QED BY <1>2 DEF Promise!Init, Init

\* What a step of the promise is, said of the rows' own log.
LEMMA PromiseSteps ==
    ASSUME NEW c \in Calls
    PROVE  /\ /\ outcome[c] = "uncalled"
              /\ outcome' = [outcome EXCEPT ![c] = "pending"]
              /\ TheLog' = TheLog
              => Promise!Next
           /\ /\ outcome[c] \in {"uncalled", "pending"}
              /\ \E o \in {"invalid", "exhausted"} : outcome' = [outcome EXCEPT ![c] = o]
              /\ TheLog' = TheLog
              => Promise!Next
           /\ /\ outcome[c] = "pending"
              /\ outcome' = [outcome EXCEPT ![c] = "unknown"]
              /\ TheLog' = TheLog
              => Promise!Next
           /\ /\ outcome[c] = "pending"
              /\ ~ \E k \in 1..Len(TheLog[IndexOf(c)]) : TheLog[IndexOf(c)][k] = c
              /\ TheLog' = [TheLog EXCEPT ![IndexOf(c)] = Append(@, c)]
              /\ \E o \in {"ok", "unknown"} : outcome' = [outcome EXCEPT ![c] = o]
              => Promise!Next
<1>1. Promise!Call(c) => Promise!Next
  BY DEF Promise!Next
<1>2. Promise!Refuse(c) => Promise!Next
  BY DEF Promise!Next
<1>3. Promise!GiveUp(c) => Promise!Next
  BY DEF Promise!Next
<1>4. Promise!Land(c) => Promise!Next
  BY DEF Promise!Next
<1> QED
  BY <1>1, <1>2, <1>3, <1>4
     DEF Promise!Call, Promise!Refuse, Promise!GiveUp, Promise!Land, Promise!Refusals,
         Promise!InLog, TheLog

LEMMA StepRefines == IInv /\ [Next]_vars => [Promise!Next]_(Promise!vars)
<1> SUFFICES ASSUME IInv, [Next]_vars PROVE [Promise!Next]_(Promise!vars)
  OBVIOUS
<1>1. ASSUME rows' = rows, outcome' = outcome
      PROVE  UNCHANGED Promise!vars
  BY <1>1, SameLog DEF Promise!vars, TheLog
<1>2. CASE UNCHANGED vars
  BY <1>1, <1>2 DEF vars
<1>3. ASSUME NEW w \in Writers, Begin(w)
      PROVE  Promise!Next
  <2> DEFINE c == <<w, made[w] + 1>>
  <2>1. c \in Calls /\ outcome[c] = "uncalled"
    <3>1. made[w] \in Nat /\ made[w] + 1 \in 1..MaxCalls
      BY <1>3, SeqAppendAssumption DEF IInv, TypeOK, Begin
    <3>2. c \in Calls
      BY <3>1 DEF Calls
    <3> QED BY <3>1, <3>2 DEF IInv, CallStates
  <2>2. TheLog' = TheLog
    BY <1>3, SameLog DEF Begin
  <2> QED BY <1>3, <2>1, <2>2, PromiseSteps DEF Begin
<1>4. ASSUME NEW w \in Writers, NEW o \in {"ok", "unknown"}, Lands(w, o)
      PROVE  Promise!Next
  <2>1. Current(w) \in Calls /\ outcome[Current(w)] = "pending"
    BY <1>4, CurrentIsCall DEF Lands
  <2>2. IndexOf(Current(w)) = HandleIdx[w] /\ HandleIdx[w] \in Indexes
    BY SeqAppendAssumption DEF IndexOf, Current
  <2>3. TheLog[HandleIdx[w]] = LogOf(HandleIdx[w])
    BY <2>2 DEF TheLog
  <2>4. outcome' = [outcome EXCEPT ![Current(w)] = o]
    BY <1>4 DEF Lands, Return
  <2>5. /\ \A k \in 1..Len(LogOf(HandleIdx[w])) : LogOf(HandleIdx[w])[k] # Current(w)
        /\ TheLog' = [TheLog EXCEPT ![HandleIdx[w]] = Append(@, Current(w))]
    BY <1>4, LandAppends
  <2>6. ~ \E k \in 1..Len(TheLog[IndexOf(Current(w))]) :
             TheLog[IndexOf(Current(w))][k] = Current(w)
    BY <2>2, <2>3, <2>5
  <2>7. TheLog' = [TheLog EXCEPT ![IndexOf(Current(w))] = Append(@, Current(w))]
    BY <2>2, <2>5
  <2> QED BY <2>1, <2>4, <2>6, <2>7, PromiseSteps
<1>5. ASSUME NEW w \in Writers, pc[w] # "idle", rows' = rows,
             NEW o \in {"exhausted", "unknown"}, Return(w, o)
      PROVE  Promise!Next
  <2>1. Current(w) \in Calls /\ outcome[Current(w)] = "pending"
    BY <1>5, CurrentIsCall
  <2>2. TheLog' = TheLog
    BY <1>5, SameLog
  <2>3. outcome' = [outcome EXCEPT ![Current(w)] = o]
    BY <1>5 DEF Return
  <2> QED BY <2>1, <2>2, <2>3, PromiseSteps
<1>6. ASSUME NEW w \in Writers, ReadMax(w) \/ Reread(w)
      PROVE  UNCHANGED Promise!vars
  BY <1>1, <1>6 DEF ReadMax, Reread
<1>7. ASSUME NEW w \in Writers, Duplicate(w)
      PROVE  [Promise!Next]_(Promise!vars)
  <2>1. CASE Return(w, "exhausted")
    BY <1>5, <1>7, <2>1 DEF Duplicate
  <2>2. CASE UNCHANGED <<next, attempt, outcome>>
    BY <1>1, <1>7, <2>2 DEF Duplicate
  <2> QED BY <1>7, <2>1, <2>2 DEF Duplicate
<1>8. ASSUME NEW w \in Writers, Insert(w)
      PROVE  Promise!Next
  BY <1>4, <1>8 DEF Insert, Lands
<1>9. ASSUME NEW w \in Writers, Fail(w)
      PROVE  Promise!Next
  <2>1. CASE rows' = rows
    BY <1>5, <1>9, <2>1 DEF Fail
  <2>2. CASE /\ pc[w] = "insert"
             /\ ~ Taken(HandleIdx[w], next[w])
             /\ rows' = rows \cup {NewRow(w)}
    BY <1>4, <1>9, <2>2 DEF Fail, Lands
  <2> QED BY <1>9, <2>1, <2>2 DEF Fail
<1> QED BY <1>2, <1>3, <1>6, <1>7, <1>8, <1>9 DEF Next, Step

\* Racing handles implement one append-only log per index (the comments on
\* Store and Append): every step is a step of AppendOnlyLog or a stutter.
THEOREM Implements == Spec => ImplementsLog
<1>1. Init => Promise!Init
  BY InitRefines
<1>2. IInv /\ [Next]_vars => [Promise!Next]_(Promise!vars)
  BY StepRefines
<1> QED BY <1>1, <1>2, Invariance, PTL DEF Spec, ImplementsLog, Promise!Spec
=============================================================================
