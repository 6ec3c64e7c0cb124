---------------------------- MODULE OutboxProofs ----------------------------
(***************************************************************************)
(* The two outboxes for every number of events, callers and attempts, and  *)
(* with no assumption on how long a request or a batch takes.  The webhook *)
(* outbox: the attempt limit, and that only a lease that ran out under its *)
(* caller makes an event go to two callers or reopens a delivered one.     *)
(* The collaboration outbox: what is made of an event is made once, or     *)
(* owed, or due to such a lease; and delivered creations are linked.       *)
(***************************************************************************)
EXTENDS WebhookOutbox, CollaborationOutbox, FiniteSetTheorems, TLAPS

USE OutboxAssumption DEF OutboxAssumption, Waiting, Settled

-----------------------------------------------------------------------------
(* Types. *)

LEMMA InitTyped == OutboxInit => OutboxTypeOK
BY DEF OutboxInit, OutboxTypeOK, Blank, Idle, EventRow, CallerRow

Status == Waiting \cup Settled \cup {"NEW", "SENDING", "GONE"}

\* One column at a time, an update keeps the type of a row.
LEMMA SetColumn ==
    ASSUME NEW r \in EventRow
    PROVE  /\ \A st \in Status : [r EXCEPT !.status = st] \in EventRow
           /\ \A n \in Nat : [r EXCEPT !.attempts = n] \in EventRow
           /\ \A d \in 0..MaxDelay : [r EXCEPT !.wait = d] \in EventRow
           /\ \A n \in 0..Lease + 1 : [r EXCEPT !.age = n] \in EventRow
           /\ \A n \in 0..MaxRuns : [r EXCEPT !.run = n] \in EventRow
           /\ \A n \in Nat : [r EXCEPT !.born = n] \in EventRow
<1>1. \A st \in Status : [r EXCEPT !.status = st] \in EventRow
  BY DEF EventRow, Status
<1>2. \A n \in Nat : [r EXCEPT !.attempts = n] \in EventRow
  BY DEF EventRow
<1>3. \A d \in 0..MaxDelay : [r EXCEPT !.wait = d] \in EventRow
  BY DEF EventRow
<1>4. \A n \in 0..Lease + 1 : [r EXCEPT !.age = n] \in EventRow
  BY DEF EventRow
<1>5. \A n \in 0..MaxRuns : [r EXCEPT !.run = n] \in EventRow
  BY DEF EventRow
<1>6. \A n \in Nat : [r EXCEPT !.born = n] \in EventRow
  BY DEF EventRow
<1>7. QED
  BY <1>1, <1>2, <1>3, <1>4, <1>5, <1>6

LEMMA RowFields ==
    ASSUME NEW r \in EventRow
    PROVE  /\ r.status \in Status
           /\ r.attempts \in Nat /\ r.wait \in 0..MaxDelay /\ r.age \in 0..Lease + 1
           /\ r.born \in Nat /\ r.run \in 0..MaxRuns
BY DEF EventRow, Status

\* The updates of a row.
Moved(r, st)          == [r EXCEPT !.status = st, !.age = 0]
Back(r)               == [r EXCEPT !.status = "RETRY", !.wait = 0, !.age = 0]
Older(r)              == [r EXCEPT !.age = IF r.status = "SENDING" /\ @ <= Lease THEN @ + 1 ELSE @,
                                   !.wait = IF @ > 0 THEN @ - 1 ELSE 0]
Recorded(r, st, n, d) == [r EXCEPT !.status = st, !.attempts = n, !.age = 0,
                                   !.wait = IF st = "RETRY" THEN d ELSE 0]
NewRow(n)             == [Blank EXCEPT !.status = "PENDING", !.born = n]

LEMMA MovedTyped ==
    ASSUME NEW r \in EventRow, NEW st \in Status
    PROVE  Moved(r, st) \in EventRow
<1> DEFINE a == [r EXCEPT !.status = st]
<1>1. a \in EventRow
  BY SetColumn
<1> HIDE DEF a
<1>2. [a EXCEPT !.age = 0] \in EventRow
  BY <1>1, SetColumn
<1>3. QED
  BY <1>2 DEF Moved, a

LEMMA BackTyped ==
    ASSUME NEW r \in EventRow
    PROVE  Back(r) \in EventRow
<1> DEFINE a == [r EXCEPT !.status = "RETRY"]
           b == [a EXCEPT !.wait = 0]
<1>1. a \in EventRow
  BY SetColumn DEF Status
<1> HIDE DEF a
<1>2. b \in EventRow
  BY <1>1, SetColumn
<1> HIDE DEF b
<1>3. [b EXCEPT !.age = 0] \in EventRow
  BY <1>2, SetColumn
<1>4. QED
  BY <1>3 DEF Back, a, b

LEMMA RecordedTyped ==
    ASSUME NEW r \in EventRow, NEW st \in Status, NEW n \in Nat, NEW d \in 0..MaxDelay
    PROVE  Recorded(r, st, n, d) \in EventRow
<1> DEFINE a == [r EXCEPT !.status = st]
           b == [a EXCEPT !.attempts = n]
           e == [b EXCEPT !.age = 0]
           w == IF st = "RETRY" THEN d ELSE 0
<1>1. a \in EventRow
  BY SetColumn
<1> HIDE DEF a
<1>2. b \in EventRow
  BY <1>1, SetColumn
<1> HIDE DEF b
<1>3. e \in EventRow
  BY <1>2, SetColumn
<1> HIDE DEF e
<1>4. w \in 0..MaxDelay
  OBVIOUS
<1> HIDE DEF w
<1>5. [e EXCEPT !.wait = w] \in EventRow
  BY <1>3, <1>4, SetColumn
<1>6. QED
  BY <1>5 DEF Recorded, a, b, e, w

LEMMA ResetTyped ==
    ASSUME NEW r \in EventRow, r.run < MaxRuns
    PROVE  Reset(r) \in EventRow
<1> DEFINE a == [r EXCEPT !.status = "PENDING"]
           b == [a EXCEPT !.attempts = 0]
           e == [b EXCEPT !.wait = 0]
           f == [e EXCEPT !.age = 0]
<1>1. a \in EventRow
  BY SetColumn DEF Status
<1> HIDE DEF a
<1>2. b \in EventRow
  BY <1>1, SetColumn
<1> HIDE DEF b
<1>3. e \in EventRow
  BY <1>2, SetColumn
<1> HIDE DEF e
<1>4. f \in EventRow
  BY <1>3, SetColumn
<1> HIDE DEF f
<1>5. r.run + 1 \in 0..MaxRuns
  BY RowFields
<1>6. [f EXCEPT !.run = r.run + 1] \in EventRow
  BY <1>4, <1>5, SetColumn
<1>7. QED
  BY <1>6 DEF Reset, a, b, e, f

LEMMA OlderTyped ==
    ASSUME NEW r \in EventRow
    PROVE  Older(r) \in EventRow
<1> DEFINE n == IF r.status = "SENDING" /\ r.age <= Lease THEN r.age + 1 ELSE r.age
           d == IF r.wait > 0 THEN r.wait - 1 ELSE 0
           a == [r EXCEPT !.age = n]
<1>1. n \in 0..Lease + 1 /\ d \in 0..MaxDelay
  BY RowFields
<1> HIDE DEF n, d
<1>2. a \in EventRow
  BY <1>1, SetColumn
<1> HIDE DEF a
<1>3. [a EXCEPT !.wait = d] \in EventRow
  BY <1>1, <1>2, SetColumn
<1>4. QED
  BY <1>3 DEF Older, a, n, d

LEMMA FreshTyped ==
    /\ [Blank EXCEPT !.status = "GONE"] \in EventRow
    /\ \A n \in Nat : NewRow(n) \in EventRow
<1>1. [Blank EXCEPT !.status = "GONE"] \in EventRow
  BY DEF EventRow, Blank
<1>2. ASSUME NEW n \in Nat PROVE NewRow(n) \in EventRow
  <2> DEFINE a == [Blank EXCEPT !.status = "PENDING"]
  <2>1. a \in EventRow
    BY DEF EventRow, Blank
  <2> HIDE DEF a
  <2>2. [a EXCEPT !.born = n] \in EventRow
    BY <2>1, SetColumn
  <2>3. QED
    BY <2>2 DEF NewRow, a
<1>3. QED
  BY <1>1, <1>2

LEMMA InsertTyped ==
    ASSUME OutboxTypeOK, NEW e \in Events, Insert(e)
    PROVE  event' \in [Events -> EventRow] /\ era' \in Nat
<1>1. PICK d \in {0, 1} :
        /\ era' = era + d
        /\ event' = [event EXCEPT ![e] = NewRow(era + d)]
  BY DEF Insert, NewRow
<1>2. era + d \in Nat
  BY DEF OutboxTypeOK
<1>3. QED
  BY <1>1, <1>2, FreshTyped DEF OutboxTypeOK

LEMMA ReapedTyped ==
    ASSUME OutboxTypeOK
    PROVE  Reaped \in [Events -> EventRow]
<1>1. Reaped = [e \in Events |-> IF LeaseExpired(event[e]) THEN Back(event[e]) ELSE event[e]]
  BY DEF Reaped, Back
<1>2. QED
  BY <1>1, BackTyped DEF OutboxTypeOK

LEMMA TableTyped ==
    ASSUME OutboxTypeOK,
           \/ \E e \in Events : Enqueue(e) \/ ManualRetry(e)
           \/ \E e, f \in Events : Replay(e, f)
           \/ \E old \in SUBSET Events : Purge(old)
    PROVE  OutboxTypeOK'
<1>1. ASSUME NEW e \in Events, Enqueue(e) PROVE OutboxTypeOK'
  BY <1>1, InsertTyped DEF Enqueue, OutboxTypeOK
<1>2. ASSUME NEW e \in Events, ManualRetry(e) PROVE OutboxTypeOK'
  <2>1. event[e] \in EventRow /\ event[e].run < MaxRuns
    BY <1>2 DEF ManualRetry, OutboxTypeOK
  <2>2. event' \in [Events -> EventRow]
    BY <1>2, <2>1, ResetTyped DEF ManualRetry, OutboxTypeOK
  <2>3. QED
    BY <1>2, <2>2 DEF ManualRetry, OutboxTypeOK
<1>3. ASSUME NEW e \in Events, NEW f \in Events, Replay(e, f) PROVE OutboxTypeOK'
  BY <1>3, InsertTyped DEF Replay, OutboxTypeOK
<1>4. ASSUME NEW old \in SUBSET Events, Purge(old) PROVE OutboxTypeOK'
  BY <1>4, FreshTyped DEF Purge, OutboxTypeOK
<1>5. QED
  BY <1>1, <1>2, <1>3, <1>4

LEMMA ListDueTyped ==
    ASSUME OutboxTypeOK, NEW c \in Callers, ListDue(c)
    PROVE  OutboxTypeOK'
<1>1. PICK S \in Batches \ {{}} :
        /\ event' = [e \in Events |->
              IF e \in S THEN [Reaped[e] EXCEPT !.status = "SENDING", !.age = 0] ELSE Reaped[e]]
        /\ caller' = [caller EXCEPT ![c].todo = S]
  BY DEF ListDue
<1>2. event' \in [Events -> EventRow]
  <2>1. event' = [e \in Events |-> IF e \in S THEN Moved(Reaped[e], "SENDING") ELSE Reaped[e]]
    BY <1>1 DEF Moved
  <2>2. QED
    BY <2>1, ReapedTyped, MovedTyped DEF Status
<1>3. S \in SUBSET Events
  BY DEF Batches, Due
<1>4. [caller[c] EXCEPT !.todo = S] \in CallerRow /\ [caller[c] EXCEPT !.todo = S].at \notin S
  <2>1. caller[c] \in CallerRow
    BY DEF OutboxTypeOK
  <2>2. [caller[c] EXCEPT !.todo = S] \in CallerRow
    BY <2>1, <1>3 DEF CallerRow
  <2>3. [caller[c] EXCEPT !.todo = S].at = caller[c].at
    BY <2>1 DEF CallerRow
  <2>4. caller[c].at = NoEvent
    <3>1. caller[c] = Idle
      BY DEF ListDue
    <3>2. QED
      BY <3>1 DEF Idle
  <2>5. QED
    BY <1>3, <2>2, <2>3, <2>4
<1>5. /\ caller' \in [Callers -> CallerRow]
      /\ \A d \in Callers : caller'[d].at \notin caller'[d].todo
  <2>1. [caller[c] EXCEPT !.todo = S].todo = S
    BY DEF OutboxTypeOK, CallerRow
  <2>2. caller' = [caller EXCEPT ![c] = [caller[c] EXCEPT !.todo = S]]
    BY <1>1
  <2>3. QED
    BY <1>4, <2>1, <2>2 DEF OutboxTypeOK
<1>6. QED
  BY <1>2, <1>5 DEF ListDue, OutboxTypeOK

LEMMA CallerTyped ==
    ASSUME OutboxTypeOK, NEW c \in Callers, CallerStep(c) \/ Abandon(c)
    PROVE  OutboxTypeOK'
<1>1. ASSUME NEW e \in Events, NEW a \in {"none", "fail"}, Takes(c, e, a) PROVE OutboxTypeOK'
  <2> DEFINE r == [todo |-> caller[c].todo \ {e}, at |-> e, clock |-> 0, answer |-> a]
  <2>1. r \in CallerRow /\ r.at \notin r.todo
    BY DEF OutboxTypeOK, CallerRow
  <2>2. caller' = [caller EXCEPT ![c] = r]
    BY <1>1 DEF Takes
  <2> HIDE DEF r
  <2>3. QED
    BY <1>1, <2>1, <2>2, ZenonT(40) DEF Takes, OutboxTypeOK
<1>2. CASE \E e \in Events : Post(c, e) \/ Unconfigured(c, e)
  BY <1>1, <1>2 DEF Post, Unconfigured
<1>3. CASE Answer(c)
  BY <1>3 DEF Answer, OutboxTypeOK, CallerRow
<1>4. CASE Record(c)
  <2>1. caller[c].at \in Events
    BY <1>4 DEF Record, Recording, OutboxTypeOK, CallerRow
  <2>2. event' \in [Events -> EventRow]
    <3>1. event[caller[c].at] \in EventRow /\ event[caller[c].at].attempts + 1 \in Nat
      BY <2>1, RowFields DEF OutboxTypeOK
    <3>2. \A n : Decision(n, caller[c].answer) \in Status
      BY DEF Decision, Status
    <3>3. PICK d \in 1..MaxDelay :
            event' = [event EXCEPT ![caller[c].at] = Recorded(event[caller[c].at],
                Decision(event[caller[c].at].attempts + 1, caller[c].answer),
                event[caller[c].at].attempts + 1, d)]
      BY <1>4 DEF Record, Recorded
    <3>4. QED
      BY <2>1, <3>1, <3>2, <3>3, RecordedTyped DEF OutboxTypeOK
  <2>3. letters' \in [Events -> Nat]
    BY <1>4, <2>1 DEF Record, OutboxTypeOK
  <2>4. caller' \in [Callers -> CallerRow] /\ \A d \in Callers : caller'[d].at \notin caller'[d].todo
    BY <1>4 DEF Record, OutboxTypeOK, CallerRow, Idle
  <2>5. QED
    BY <1>4, <2>2, <2>3, <2>4 DEF Record, OutboxTypeOK
<1>5. CASE RecordGone(c) \/ Abandon(c)
  BY <1>5 DEF RecordGone, Abandon, OutboxTypeOK, CallerRow, Idle
<1>6. QED
  BY <1>2, <1>3, <1>4, <1>5 DEF CallerStep

LEMMA SetClock ==
    ASSUME NEW r \in CallerRow, NEW n \in Nat
    PROVE  /\ [r EXCEPT !.clock = n] \in CallerRow
           /\ [r EXCEPT !.clock = n].at = r.at
           /\ [r EXCEPT !.clock = n].todo = r.todo
           /\ [r EXCEPT !.clock = n].answer = r.answer
           /\ [r EXCEPT !.clock = n].clock = n
BY DEF CallerRow

\* What a second does to the callers.
LEMMA TickCallers ==
    ASSUME OutboxTypeOK, Tick
    PROVE  /\ caller' \in [Callers -> CallerRow]
           /\ \A c \in Callers :
                 /\ caller'[c].at = caller[c].at /\ caller'[c].todo = caller[c].todo
                 /\ caller'[c].answer = caller[c].answer
                 /\ caller'[c].clock = IF PunctualCallers /\ caller[c] # Idle
                                       THEN caller[c].clock + 1 ELSE 0
<1> DEFINE n(c) == IF PunctualCallers /\ caller[c] # Idle THEN caller[c].clock + 1 ELSE 0
<1>1. \A c \in Callers : caller[c] \in CallerRow
  BY DEF OutboxTypeOK
<1>2. \A c \in Callers : n(c) \in Nat
  BY <1>1 DEF CallerRow
<1>3. caller' = [c \in Callers |-> [caller[c] EXCEPT !.clock = n(c)]]
  BY DEF Tick
<1> HIDE DEF n
<1>4. QED
  <2>1. caller' \in [Callers -> CallerRow]
    BY <1>1, <1>2, <1>3, SetClock
  <2>2. ASSUME NEW c \in Callers
        PROVE  /\ caller'[c].at = caller[c].at /\ caller'[c].todo = caller[c].todo
               /\ caller'[c].answer = caller[c].answer
               /\ caller'[c].clock = n(c)
    BY <1>1, <1>2, <1>3, SetClock
  <2>3. QED
    BY <2>1, <2>2 DEF n

LEMMA TickTyped ==
    ASSUME OutboxTypeOK, Tick
    PROVE  OutboxTypeOK'
<1>1. event' \in [Events -> EventRow]
  <2>1. event' = [e \in Events |-> Older(event[e])]
    BY DEF Tick, Older
  <2>2. QED
    BY <2>1, OlderTyped DEF OutboxTypeOK
<1>2. caller' \in [Callers -> CallerRow] /\ \A c \in Callers : caller'[c].at \notin caller'[c].todo
  BY TickCallers DEF OutboxTypeOK
<1>3. QED
  BY <1>1, <1>2 DEF Tick, OutboxTypeOK

LEMMA NextTyped == OutboxTypeOK /\ [OutboxNext]_outboxVars => OutboxTypeOK'
<1>1. ASSUME OutboxTypeOK, UNCHANGED outboxVars PROVE OutboxTypeOK'
  BY <1>1 DEF outboxVars, OutboxTypeOK
<1>2. QED
  BY <1>1, TableTyped, ListDueTyped, CallerTyped, TickTyped DEF OutboxNext

\* OutboxTypeOK: the rows and batches stay well formed for any number of
\* events, callers and attempts.
THEOREM OutboxTyped == OutboxSpec => []OutboxTypeOK
BY InitTyped, NextTyped, PTL DEF OutboxSpec

-----------------------------------------------------------------------------
(* The attempt limit. *)

Sent(r) == r.status \in Waiting \cup {"SENDING"} => r.attempts < MaxAttempts

LEMMA RowEffects ==
    ASSUME NEW r \in EventRow, NEW st \in Status, NEW n \in Nat, NEW d \in 0..MaxDelay
    PROVE  /\ Moved(r, st).status = st /\ Moved(r, st).attempts = r.attempts
           /\ Moved(r, st).age = 0
           /\ Back(r).status = "RETRY" /\ Back(r).attempts = r.attempts
           /\ Reset(r).status = "PENDING" /\ Reset(r).attempts = 0
           /\ Older(r).status = r.status /\ Older(r).attempts = r.attempts
           /\ Older(r).age <= r.age + 1
           /\ Recorded(r, st, n, d).status = st /\ Recorded(r, st, n, d).attempts = n
<1>1. /\ Moved(r, st).status = st /\ Moved(r, st).attempts = r.attempts
      /\ Moved(r, st).age = 0
  BY DEF EventRow, Moved
<1>2. /\ Back(r).status = "RETRY" /\ Back(r).attempts = r.attempts
      /\ Reset(r).status = "PENDING" /\ Reset(r).attempts = 0
  BY DEF EventRow, Back, Reset
<1>3. /\ Older(r).status = r.status /\ Older(r).attempts = r.attempts
      /\ Older(r).age <= r.age + 1
  BY DEF EventRow, Older
<1>4. Recorded(r, st, n, d).status = st /\ Recorded(r, st, n, d).attempts = n
  BY DEF EventRow, Recorded
<1>5. QED
  BY <1>1, <1>2, <1>3, <1>4

LEMMA FreshEffects ==
    /\ \A n \in Nat : NewRow(n).status = "PENDING" /\ NewRow(n).attempts = 0
    /\ [Blank EXCEPT !.status = "GONE"].status = "GONE"
BY DEF NewRow, Blank

LEMMA ReapedRows ==
    ASSUME OutboxTypeOK, NEW e \in Events
    PROVE  /\ event[e] \in EventRow
           /\ Reaped[e] = IF LeaseExpired(event[e]) THEN Back(event[e]) ELSE event[e]
BY DEF OutboxTypeOK, Reaped, Back

LEMMA InsertRows ==
    ASSUME OutboxTypeOK, NEW e \in Events, Insert(e)
    PROVE  /\ event[e].status = "NEW"
           /\ \E n \in Nat : event' = [event EXCEPT ![e] = NewRow(n)]
<1>1. PICK d \in {0, 1} : event' = [event EXCEPT ![e] = NewRow(era + d)]
  BY DEF Insert, NewRow
<1>2. era + d \in Nat
  BY DEF OutboxTypeOK
<1>3. QED
  BY <1>1, <1>2 DEF Insert

LEMMA ListDueRows ==
    ASSUME OutboxTypeOK, NEW c \in Callers, ListDue(c)
    PROVE  \E S \in Batches :
              /\ event' = [e \in Events |->
                    IF e \in S THEN Moved(Reaped[e], "SENDING") ELSE Reaped[e]]
              /\ caller' = [caller EXCEPT ![c].todo = S]
BY DEF ListDue, Moved

LEMMA RecordRows ==
    ASSUME OutboxTypeOK, NEW c \in Callers, Record(c)
    PROVE  LET e == caller[c].at
               n == event[e].attempts + 1
           IN  /\ e \in Events
               /\ \E d \in 1..MaxDelay :
                    event' = [event EXCEPT ![e] =
                        Recorded(event[e], Decision(n, caller[c].answer), n, d)]
<1>1. caller[c].at \in Events
  BY DEF Record, Recording, OutboxTypeOK, CallerRow
<1>2. QED
  BY <1>1 DEF Record, Recorded

\* The decision never leaves an event to be sent without an attempt left.
LEMMA DecisionBounds ==
    ASSUME NEW n \in Nat, NEW answer
    PROVE  /\ Decision(n, answer) \in {"DELIVERED", "RETRY", "FAILED"}
           /\ Decision(n, answer) \in Status
           /\ Decision(n, answer) = "RETRY" => n < MaxAttempts
BY DEF Decision, Status

LEMMA NextWithin ==
    ASSUME OutboxTypeOK, SentWithinLimit, [OutboxNext]_outboxVars
    PROVE  SentWithinLimit'
<1> DEFINE Good == \A e \in Events : Sent(event'[e])
<1>1. SUFFICES Good
  BY DEF SentWithinLimit, Sent
<1>0. \A e \in Events : event[e] \in EventRow /\ Sent(event[e])
  BY DEF OutboxTypeOK, SentWithinLimit, Sent
<1>2. ASSUME NEW e \in Events, Insert(e) PROVE Good
  BY <1>0, <1>2, InsertRows, FreshEffects DEF Sent, OutboxTypeOK
<1>3. ASSUME NEW e \in Events, ManualRetry(e) PROVE Good
  <2>1. Sent(Reset(event[e]))
    BY <1>0, RowEffects DEF Sent, Status
  <2>2. QED
    BY <1>0, <1>3, <2>1 DEF ManualRetry, OutboxTypeOK
<1>4. ASSUME NEW old \in SUBSET Events, Purge(old) PROVE Good
  <2>1. Sent([Blank EXCEPT !.status = "GONE"])
    BY FreshEffects DEF Sent
  <2>2. QED
    BY <1>0, <1>4, <2>1 DEF Purge
<1>5. ASSUME NEW c \in Callers, ListDue(c) PROVE Good
  <2>1. PICK S \in Batches : event' = [e \in Events |->
            IF e \in S THEN Moved(Reaped[e], "SENDING") ELSE Reaped[e]]
    BY <1>5, ListDueRows
  <2>2. ASSUME NEW e \in Events
        PROVE  Reaped[e] \in EventRow /\ Sent(Reaped[e])
    BY <1>0, ReapedRows, BackTyped, RowEffects DEF Sent, LeaseExpired, Status
  <2>3. ASSUME NEW e \in S PROVE e \in Events /\ Sent(Moved(Reaped[e], "SENDING"))
    <3>1. e \in Events /\ Reaped[e].status \in Waiting
      BY DEF Batches, Due
    <3>2. Reaped[e] \in EventRow /\ Reaped[e].attempts < MaxAttempts
      BY <2>2, <3>1 DEF Sent
    <3>3. Moved(Reaped[e], "SENDING").attempts = Reaped[e].attempts
      BY <3>2, RowEffects DEF Status
    <3>4. QED
      BY <3>1, <3>2, <3>3 DEF Sent
  <2>4. QED
    BY <2>1, <2>2, <2>3
<1>6. ASSUME NEW c \in Callers, Record(c) PROVE Good
  <2> DEFINE e == caller[c].at
             n == event[e].attempts + 1
             st == Decision(n, caller[c].answer)
  <2>1. e \in Events /\ event[e] \in EventRow /\ n \in Nat
    BY <1>0, <1>6, RecordRows, RowFields
  <2>2. PICK d \in 1..MaxDelay : event' = [event EXCEPT ![e] = Recorded(event[e], st, n, d)]
    BY <1>6, RecordRows
  <2>3. st \in Status /\ st \in {"DELIVERED", "RETRY", "FAILED"} /\ (st = "RETRY" => n < MaxAttempts)
    BY <2>1, DecisionBounds
  <2>4. Sent(Recorded(event[e], st, n, d))
    BY <2>1, <2>3, RowEffects DEF Sent
  <2> HIDE DEF e, n, st
  <2>5. QED
    BY <1>0, <2>1, <2>2, <2>4 DEF OutboxTypeOK
<1>7. ASSUME Tick PROVE Good
  <2>1. event' = [e \in Events |-> Older(event[e])]
    BY <1>7 DEF Tick, Older
  <2>2. QED
    BY <1>0, <2>1, RowEffects DEF Sent, Status
<1>8. ASSUME event' = event PROVE Good
  BY <1>0, <1>8
<1>9. QED
  <2>1. ASSUME NEW c \in Callers, CallerStep(c) PROVE Record(c) \/ event' = event
    BY <2>1 DEF CallerStep, Post, Unconfigured, Takes, Answer, RecordGone
  <2>2. ASSUME NEW c \in Callers, Abandon(c) PROVE event' = event
    BY <2>2 DEF Abandon
  <2>3. CASE OutboxNext
    BY <2>3, <2>1, <2>2, <1>2, <1>3, <1>4, <1>5, <1>6, <1>7, <1>8
       DEF OutboxNext, Enqueue, Replay
  <2>4. QED
    BY <2>3, <1>8 DEF outboxVars

\* SentWithinLimit: whatever comes late, twice or never, no event that is going
\* to be sent has used up its attempts.
THEOREM OutboxSentWithinLimit == OutboxSpec => []SentWithinLimit
<1>1. OutboxInit => SentWithinLimit
  BY DEF OutboxInit, SentWithinLimit, Blank
<1>2. OutboxTypeOK /\ SentWithinLimit /\ [OutboxNext]_outboxVars => SentWithinLimit'
  BY NextWithin
<1>3. QED
  BY <1>1, <1>2, OutboxTyped, PTL DEF OutboxSpec

-----------------------------------------------------------------------------
(* Exclusive delivery.  The invariant: an event whose lease never ran out   *)
(* under a caller is in the batch of one caller at most, and SENDING under  *)
(* a lease that lasts as long as it is in one.                              *)

Single(e) ==
    /\ \A c, d \in Callers : Has(c, e) /\ Has(d, e) => c = d
    /\ \A c \in Callers : Has(c, e) => event[e].status = "SENDING" /\ event[e].age <= Lease

SingleInv == \A e \in Events \ overrun : Single(e)

\* A step that gives e to no caller, and leaves its row alone while one has it.
LEMMA SingleKept ==
    ASSUME NEW e \in Events, Single(e),
           \A c \in Callers : Has(c, e)' => Has(c, e),
           (\E c \in Callers : Has(c, e)') => event'[e] = event[e]
    PROVE  Single(e)'
BY DEF Single

LEMMA TableKeepsSingle ==
    ASSUME OutboxTypeOK, NEW e \in Events, Single(e),
           \/ \E f \in Events : Enqueue(f) \/ ManualRetry(f)
           \/ \E f, g \in Events : Replay(f, g)
           \/ \E old \in SUBSET Events : Purge(old)
    PROVE  Single(e)'
<1> DEFINE Kept == event[e].status = "SENDING" => event'[e] = event[e]
<1>1. ASSUME NEW f \in Events, Insert(f) PROVE Kept
  BY <1>1, InsertRows DEF OutboxTypeOK
<1>2. ASSUME NEW f \in Events, ManualRetry(f) PROVE Kept
  BY <1>2 DEF ManualRetry, OutboxTypeOK
<1>3. ASSUME NEW old \in SUBSET Events, Purge(old) PROVE Kept
  BY <1>3 DEF Purge, Purgeable
<1>4. caller' = caller
  BY DEF Enqueue, ManualRetry, Replay, Purge
<1>5. Kept
  BY <1>1, <1>2, <1>3 DEF Enqueue, Replay
<1>6. \A c \in Callers : Has(c, e)' <=> Has(c, e)
  BY <1>4 DEF Has
<1>7. QED
  BY <1>5, <1>6, SingleKept DEF Single

\* No claim takes or takes back an event that a caller has within its lease.
LEMMA HeldNotDue ==
    ASSUME OutboxTypeOK, NEW e \in Events, Single(e), NEW c \in Callers, Has(c, e)
    PROVE  Reaped[e] = event[e] /\ e \notin Due
<1>1. event[e].status = "SENDING" /\ event[e].age <= Lease
  BY DEF Single
<1>2. event[e].age \in Nat
  BY RowFields DEF OutboxTypeOK
<1>3. Reaped[e] = event[e]
  BY <1>1, <1>2, ReapedRows DEF LeaseExpired
<1>4. QED
  BY <1>1, <1>3 DEF Due

LEMMA ListDueKeepsSingle ==
    ASSUME OutboxTypeOK, NEW e \in Events, Single(e), NEW c \in Callers, ListDue(c)
    PROVE  Single(e)'
<1>1. PICK S \in Batches :
        /\ event' = [f \in Events |-> IF f \in S THEN Moved(Reaped[f], "SENDING") ELSE Reaped[f]]
        /\ caller' = [caller EXCEPT ![c].todo = S]
  BY ListDueRows
<1>2. S \subseteq Due
  BY DEF Batches
<1>3. /\ caller'[c].todo = S /\ caller'[c].at = NoEvent
      /\ \A d \in Callers \ {c} : caller'[d] = caller[d]
  <2>1. caller[c] = Idle
    BY DEF ListDue
  <2>2. caller'[c] = [caller[c] EXCEPT !.todo = S]
    BY <1>1 DEF OutboxTypeOK
  <2>3. QED
    BY <1>1, <2>1, <2>2 DEF Idle, OutboxTypeOK
<1>4. Has(c, e)' <=> e \in S
  BY <1>3 DEF Has
<1>5. \A d \in Callers \ {c} : Has(d, e)' <=> Has(d, e)
  BY <1>3 DEF Has
<1>6. CASE e \in S
  <2>1. \A d \in Callers : ~Has(d, e)
    BY <1>2, <1>6, HeldNotDue
  <2>2. event'[e].status = "SENDING" /\ event'[e].age <= Lease
    <3>1. Moved(Reaped[e], "SENDING").status = "SENDING" /\ Moved(Reaped[e], "SENDING").age = 0
      BY ReapedTyped, RowEffects DEF Status
    <3>2. event'[e] = Moved(Reaped[e], "SENDING")
      BY <1>1, <1>6
    <3>3. QED
      BY <3>1, <3>2
  <2>3. QED
    BY <1>5, <2>1, <2>2 DEF Single
<1>7. CASE e \notin S
  <2>1. \A d \in Callers : Has(d, e)' => Has(d, e)
    BY <1>4, <1>5, <1>7
  <2>2. (\E d \in Callers : Has(d, e)') => event'[e] = event[e]
    BY <1>1, <1>7, <2>1, HeldNotDue
  <2>3. QED
    BY <2>1, <2>2, SingleKept
<1>8. QED
  BY <1>6, <1>7

LEMMA CallerKeepsSingle ==
    ASSUME OutboxTypeOK, NEW e \in Events, Single(e),
           NEW c \in Callers, CallerStep(c) \/ Abandon(c)
    PROVE  Single(e)'
<1>1. ASSUME \A d \in Callers \ {c} : caller'[d] = caller[d],
             Has(c, e)' => Has(c, e), event'[e] = event[e]
      PROVE  Single(e)'
  <2>1. \A d \in Callers : Has(d, e)' => Has(d, e)
    BY <1>1 DEF Has
  <2>2. QED
    BY <1>1, <2>1, SingleKept
<1>2. ASSUME NEW f \in Events, NEW a, Oldest(c, f), Takes(c, f, a) PROVE Single(e)'
  <2>1. /\ caller'[c].todo = caller[c].todo \ {f} /\ caller'[c].at = f
        /\ \A d \in Callers \ {c} : caller'[d] = caller[d]
        /\ event' = event
    BY <1>2 DEF Takes, OutboxTypeOK
  <2>2. QED
    BY <1>1, <1>2, <2>1 DEF Oldest, Has
<1>3. CASE Answer(c)
  <2>1. PICK a : caller' = [caller EXCEPT ![c].answer = a]
    BY <1>3 DEF Answer
  <2>2. /\ caller'[c].todo = caller[c].todo /\ caller'[c].at = caller[c].at
        /\ \A d \in Callers \ {c} : caller'[d] = caller[d]
    BY <2>1 DEF OutboxTypeOK, CallerRow
  <2>3. QED
    BY <1>1, <1>3, <2>2 DEF Answer, Has
<1>4. CASE Record(c)
  <2>1. caller[c].at \in Events /\ caller[c].at \notin caller[c].todo
    BY <1>4, RecordRows DEF OutboxTypeOK
  <2>2. \A f \in Events \ {caller[c].at} : event'[f] = event[f]
    BY <1>4, RecordRows DEF OutboxTypeOK
  <2>3. /\ caller'[c].todo = caller[c].todo /\ caller'[c].at = NoEvent
        /\ \A d \in Callers \ {c} : caller'[d] = caller[d]
    BY <1>4 DEF Record, Idle, OutboxTypeOK
  <2>4. Has(c, e)' <=> e \in caller[c].todo
    BY <2>3 DEF Has
  <2>5. CASE e = caller[c].at
    <3>1. \A d \in Callers : ~Has(d, e)'
      BY <2>1, <2>3, <2>4, <2>5 DEF Single, Has
    <3>2. QED
      BY <3>1 DEF Single
  <2>6. CASE e # caller[c].at
    <3>1. event'[e] = event[e]
      BY <2>2, <2>6
    <3>2. Has(c, e)' => Has(c, e)
      BY <2>4 DEF Has
    <3>3. QED
      BY <1>1, <2>3, <3>1, <3>2
  <2>7. QED
    BY <2>5, <2>6
<1>5. CASE RecordGone(c) \/ Abandon(c)
  <2>1. /\ caller'[c] = Idle /\ event' = event
        /\ \A d \in Callers \ {c} : caller'[d] = caller[d]
    BY <1>5 DEF RecordGone, Abandon, OutboxTypeOK
  <2>2. ~Has(c, e)'
    BY <2>1 DEF Has, Idle
  <2>3. QED
    BY <1>1, <2>1, <2>2
<1>6. QED
  BY <1>2, <1>3, <1>4, <1>5 DEF CallerStep, Post, Unconfigured

\* The second in which a lease runs out under a caller is the one overrun records.
LEMMA TickKeepsSingle ==
    ASSUME OutboxTypeOK, NEW e \in Events \ overrun', Single(e), Tick
    PROVE  Single(e)'
<1>1. \A c \in Callers : Has(c, e)' <=> Has(c, e)
  BY TickCallers DEF Has
<1>2. event'[e] = Older(event[e]) /\ event[e] \in EventRow
  BY DEF Tick, Older, OutboxTypeOK
<1>3. ASSUME NEW c \in Callers, Has(c, e)
      PROVE  event'[e].status = "SENDING" /\ event'[e].age <= Lease
  <2>1. event[e].status = "SENDING" /\ event[e].age <= Lease /\ event[e].age \in Nat
    BY <1>2, <1>3, RowFields DEF Single
  <2>2. event[e].age # Lease
    BY <1>3, <2>1 DEF Tick
  <2>3. Older(event[e]).status = event[e].status /\ Older(event[e]).age <= event[e].age + 1
    BY <1>2, RowEffects DEF Status
  <2>4. Older(event[e]).age \in Nat
    BY <1>2, OlderTyped, RowFields
  <2>5. QED
    BY <1>2, <2>1, <2>2, <2>3, <2>4
<1>4. QED
  BY <1>1, <1>3 DEF Single

LEMMA NextKeepsSingle == OutboxTypeOK /\ SingleInv /\ [OutboxNext]_outboxVars => SingleInv'
<1> SUFFICES ASSUME OutboxTypeOK, SingleInv, [OutboxNext]_outboxVars, NEW e \in Events \ overrun'
             PROVE  Single(e)'
  BY DEF SingleInv
<1>1. overrun \subseteq overrun'
  BY DEF OutboxNext, outboxVars, Enqueue, ManualRetry, Replay, Purge, ListDue, CallerStep, Post,
         Unconfigured, Takes, Answer, Record, RecordGone, Abandon, Tick
<1>2. Single(e)
  BY <1>1 DEF SingleInv
<1>3. CASE UNCHANGED outboxVars
  BY <1>2, <1>3 DEF outboxVars, Single, Has
<1>4. QED
  BY <1>2, <1>3, TableKeepsSingle, ListDueKeepsSingle, CallerKeepsSingle, TickKeepsSingle
     DEF OutboxNext

LEMMA InitSingle == OutboxInit => SingleInv
BY DEF OutboxInit, SingleInv, Single, Has, Idle

\* SharedIsOverrun: for any number of events, callers and losses and whatever
\* the callers' timing, an event is in two batches only after its lease ran out
\* while a caller still had it.
THEOREM OutboxSharedIsOverrun == OutboxSpec => []SharedIsOverrun
<1>1. OutboxTypeOK /\ SingleInv => SharedIsOverrun
  BY DEF SingleInv, Single, SharedIsOverrun
<1>2. QED
  BY InitSingle, NextKeepsSingle, <1>1, OutboxTyped, PTL DEF OutboxSpec

\* ReopenedIsOverrun: a delivered event is sent or recorded again only after its
\* lease ran out while a caller still had it.
THEOREM OutboxReopenedIsOverrun == OutboxSpec => ReopenedIsOverrun
<1> DEFINE Final == \A e \in Events : event[e].status = "DELIVERED" =>
                        event'[e].status \in {"DELIVERED", "GONE"} \/ e \in overrun
<1>1. OutboxTypeOK /\ SingleInv /\ [OutboxNext]_outboxVars => [Final]_outboxVars
  <2> SUFFICES ASSUME OutboxTypeOK, SingleInv, OutboxNext PROVE Final
    OBVIOUS
  <2>1. ASSUME NEW e \in Events, Insert(e) PROVE Final
    BY <2>1, InsertRows DEF OutboxTypeOK
  <2>2. ASSUME NEW e \in Events, ManualRetry(e) PROVE Final
    BY <2>2 DEF ManualRetry, OutboxTypeOK
  <2>3. ASSUME NEW old \in SUBSET Events, Purge(old) PROVE Final
    BY <2>3, FreshEffects DEF Purge
  <2>4. ASSUME NEW c \in Callers, ListDue(c) PROVE Final
    <3>1. PICK S \in Batches : event' = [e \in Events |->
              IF e \in S THEN Moved(Reaped[e], "SENDING") ELSE Reaped[e]]
      BY <2>4, ListDueRows
    <3>2. ASSUME NEW e \in Events, event[e].status = "DELIVERED"
          PROVE  Reaped[e] = event[e] /\ e \notin S
      BY <3>2, ReapedRows DEF LeaseExpired, Batches, Due
    <3>3. QED
      BY <3>1, <3>2
  <2>5. ASSUME NEW c \in Callers, Record(c) PROVE Final
    <3>1. caller[c].at \in overrun \/ event[caller[c].at].status = "SENDING"
      BY <2>5, RecordRows DEF SingleInv, Single, Has
    <3>2. \A f \in Events \ {caller[c].at} : event'[f] = event[f]
      BY <2>5, RecordRows DEF OutboxTypeOK
    <3>3. QED
      BY <3>1, <3>2
  <2>6. ASSUME Tick PROVE Final
    <3>1. event' = [e \in Events |-> Older(event[e])]
      BY <2>6 DEF Tick, Older
    <3>2. QED
      BY <3>1, RowEffects DEF OutboxTypeOK, Status
  <2>7. ASSUME event' = event PROVE Final
    BY <2>7
  <2>8. ASSUME NEW c \in Callers, CallerStep(c) \/ Abandon(c) PROVE Record(c) \/ event' = event
    BY <2>8 DEF CallerStep, Post, Unconfigured, Takes, Answer, RecordGone, Abandon
  <2>9. QED
    BY <2>1, <2>2, <2>3, <2>4, <2>5, <2>6, <2>7, <2>8 DEF OutboxNext, Enqueue, Replay
<1>2. QED
  BY InitSingle, NextKeepsSingle, <1>1, OutboxTyped, PTL DEF OutboxSpec, ReopenedIsOverrun

USE CollabAssumption DEF CollabAssumption, Open, Closed, Items

-----------------------------------------------------------------------------
(* The collaboration outbox: types. *)

ItemStatus == Open \cup Closed \cup {"NEW", "SENDING"}

\* One column at a time, an update keeps the type of a row.
LEMMA ItemColumn ==
    ASSUME NEW r \in ItemRow
    PROVE  /\ r.status \in ItemStatus /\ r.attempts \in Nat /\ r.wait \in 0..SendDelay
           /\ r.age \in 0..SendLease + 1 /\ r.run \in 0..MaxRequeues
           /\ \A st \in ItemStatus : LET u == [r EXCEPT !.status = st]
                                     IN  u \in ItemRow /\ u.status = st /\ u.run = r.run
           /\ \A n \in Nat : LET u == [r EXCEPT !.attempts = n]
                             IN  u \in ItemRow /\ u.status = r.status /\ u.run = r.run
           /\ \A a \in 0..SendLease + 1 : LET u == [r EXCEPT !.age = a]
                IN  u \in ItemRow /\ u.status = r.status /\ u.run = r.run /\ u.age = a
           /\ \A d \in 0..SendDelay : LET u == [r EXCEPT !.wait = d]
                IN  u \in ItemRow /\ u.status = r.status /\ u.run = r.run /\ u.age = r.age
           /\ \A k \in 0..MaxRequeues : LET u == [r EXCEPT !.run = k]
                IN  u \in ItemRow /\ u.status = r.status
<1>1. /\ r.status \in ItemStatus /\ r.attempts \in Nat /\ r.wait \in 0..SendDelay
      /\ r.age \in 0..SendLease + 1 /\ r.run \in 0..MaxRequeues
  BY DEF ItemRow, ItemStatus
<1>2. ASSUME NEW st \in ItemStatus
      PROVE  LET u == [r EXCEPT !.status = st] IN u \in ItemRow /\ u.status = st /\ u.run = r.run
  BY DEF ItemRow, ItemStatus
<1>3. ASSUME NEW n \in Nat
      PROVE  LET u == [r EXCEPT !.attempts = n] IN u \in ItemRow /\ u.status = r.status /\ u.run = r.run
  BY DEF ItemRow
<1>4. ASSUME NEW a \in 0..SendLease + 1
      PROVE  LET u == [r EXCEPT !.age = a]
             IN  u \in ItemRow /\ u.status = r.status /\ u.run = r.run /\ u.age = a
  BY DEF ItemRow
<1>5. ASSUME NEW d \in 0..SendDelay
      PROVE  LET u == [r EXCEPT !.wait = d]
             IN  u \in ItemRow /\ u.status = r.status /\ u.run = r.run /\ u.age = r.age
  BY DEF ItemRow
<1>6. ASSUME NEW k \in 0..MaxRequeues
      PROVE  LET u == [r EXCEPT !.run = k] IN u \in ItemRow /\ u.status = r.status
  BY DEF ItemRow
<1>7. QED
  BY <1>1, <1>2, <1>3, <1>4, <1>5, <1>6

\* The updates of a row.
LEMMA ClaimedItem ==
    ASSUME NEW r \in ItemRow
    PROVE  LET u == [r EXCEPT !.status = "SENDING", !.age = 0]
           IN  u \in ItemRow /\ u.status = "SENDING" /\ u.age = 0
<1> DEFINE a == [r EXCEPT !.status = "SENDING"]
<1>1. a \in ItemRow /\ a.status = "SENDING"
  BY ItemColumn, ZenonT(40) DEF ItemStatus
<1> HIDE DEF a
<1>2. LET u == [a EXCEPT !.age = 0] IN u \in ItemRow /\ u.status = "SENDING" /\ u.age = 0
  BY <1>1, ItemColumn
<1>3. QED
  BY <1>2 DEF a

LEMMA ReturnedItem ==
    ASSUME NEW r \in ItemRow
    PROVE  LET u == [r EXCEPT !.status = "RETRY", !.wait = 0, !.age = 0]
           IN  u \in ItemRow /\ u.status = "RETRY"
<1> DEFINE a == [r EXCEPT !.status = "RETRY"]
           b == [a EXCEPT !.wait = 0]
<1>1. a \in ItemRow /\ a.status = "RETRY"
  BY ItemColumn DEF ItemStatus
<1> HIDE DEF a
<1>2. b \in ItemRow /\ b.status = "RETRY"
  BY <1>1, ItemColumn
<1> HIDE DEF b
<1>3. LET u == [b EXCEPT !.age = 0] IN u \in ItemRow /\ u.status = "RETRY"
  BY <1>2, ItemColumn
<1>4. QED
  BY <1>3 DEF a, b

LEMMA RequeuedItem ==
    ASSUME NEW r \in ItemRow, r.run < MaxRequeues
    PROVE  Requeued(r) \in ItemRow /\ Requeued(r).status = "PENDING"
<1> DEFINE a == [r EXCEPT !.status = "PENDING"]
           b == [a EXCEPT !.attempts = 0]
           c == [b EXCEPT !.wait = 0]
           d == [c EXCEPT !.age = 0]
<1>1. a \in ItemRow /\ a.status = "PENDING"
  BY ItemColumn DEF ItemStatus
<1> HIDE DEF a
<1>2. b \in ItemRow /\ b.status = "PENDING"
  BY <1>1, ItemColumn
<1> HIDE DEF b
<1>3. c \in ItemRow /\ c.status = "PENDING"
  BY <1>2, ItemColumn
<1> HIDE DEF c
<1>4. d \in ItemRow /\ d.status = "PENDING"
  BY <1>3, ItemColumn
<1> HIDE DEF d
<1>5. r.run + 1 \in 0..MaxRequeues
  BY ItemColumn
<1>6. [d EXCEPT !.run = r.run + 1] \in ItemRow /\ [d EXCEPT !.run = r.run + 1].status = "PENDING"
  BY <1>4, <1>5, ItemColumn
<1>7. QED
  BY <1>6 DEF a, b, c, d, Requeued

WithOutcome(r, st, n, w) == [r EXCEPT !.status = st, !.attempts = n, !.age = 0, !.wait = w]

LEMMA RecordedItem ==
    ASSUME NEW r \in ItemRow, NEW st \in ItemStatus, NEW n \in Nat, NEW w \in 0..SendDelay
    PROVE  WithOutcome(r, st, n, w) \in ItemRow /\ WithOutcome(r, st, n, w).status = st
<1> DEFINE a == [r EXCEPT !.status = st]
           b == [a EXCEPT !.attempts = n]
           c == [b EXCEPT !.age = 0]
<1>1. a \in ItemRow /\ a.status = st
  BY ItemColumn
<1> HIDE DEF a
<1>2. b \in ItemRow /\ b.status = st
  BY <1>1, ItemColumn
<1> HIDE DEF b
<1>3. c \in ItemRow /\ c.status = st
  BY <1>2, ItemColumn
<1> HIDE DEF c
<1>4. [c EXCEPT !.wait = w] \in ItemRow /\ [c EXCEPT !.wait = w].status = st
  BY <1>3, ItemColumn
<1>5. QED
  BY <1>4 DEF a, b, c, WithOutcome

\* What the claim's first UPDATE leaves.
LEMMA ReturnedRows ==
    ASSUME CollabTypeOK, NEW e \in Items
    PROVE  /\ item[e] \in ItemRow /\ Returned[e] \in ItemRow
           /\ ~OutOfLease(item[e]) => Returned[e] = item[e]
           /\ OutOfLease(item[e]) => item[e].status = "SENDING" /\ Returned[e].status = "RETRY"
<1>1. item[e] \in ItemRow
  BY DEF CollabTypeOK
<1>2. QED
  BY <1>1, ReturnedItem DEF Returned, OutOfLease

\* A second of the clock.
LEMMA TickRows ==
    ASSUME CollabTypeOK, CollabTick
    PROVE  /\ item' \in [Items -> ItemRow]
           /\ \A e \in Items : item'[e].status = item[e].status /\ item'[e].age <= item[e].age + 1
<1>1. ASSUME NEW e \in Items
      PROVE  /\ item'[e] \in ItemRow
             /\ item'[e].status = item[e].status /\ item'[e].age <= item[e].age + 1
  <2> DEFINE a == IF item[e].status = "SENDING" /\ item[e].age <= SendLease
                  THEN item[e].age + 1 ELSE item[e].age
             d == IF item[e].wait > 0 THEN item[e].wait - 1 ELSE 0
  <2>1. item[e] \in ItemRow /\ item'[e] = [item[e] EXCEPT !.age = a, !.wait = d]
    BY DEF CollabTick, CollabTypeOK
  <2>2. a \in 0..SendLease + 1 /\ a <= item[e].age + 1 /\ d \in 0..SendDelay
    BY <2>1, ItemColumn
  <2> HIDE DEF a, d
  <2> DEFINE b == [item[e] EXCEPT !.age = a]
  <2>3. b \in ItemRow /\ b.status = item[e].status /\ b.age = a
    BY <2>1, <2>2, ItemColumn
  <2>4. item'[e] = [b EXCEPT !.wait = d]
    BY <2>1
  <2> HIDE DEF b
  <2>5. QED
    BY <2>2, <2>3, <2>4, ItemColumn
<1>2. QED
  BY <1>1 DEF CollabTick

\* What recording an outcome does.
LEMMA OutcomeRows ==
    ASSUME CollabTypeOK, NEW s \in Senders, RecordOutcome(s)
    PROVE  LET e == sender[s].at
               stage == sender[s].stage
           IN  /\ e \in Items /\ stage \in {"ok", "blank", "retry", "fail"}
               /\ item' \in [Items -> ItemRow]
               /\ \A i \in Items \ {e} : item'[i] = item[i]
               /\ item'[e].status \in Closed \cup {"RETRY"}
               /\ item'[e].status = "DELIVERED" <=> stage \in {"ok", "blank"}
               /\ sender' = [sender EXCEPT ![s] =
                     IF LinksNext(e, stage) THEN [sender[s] EXCEPT !.stage = "link"]
                     ELSE [Resting EXCEPT !.todo = sender[s].todo]]
<1> DEFINE e == sender[s].at
           n == item[e].attempts + 1
           st == Outcome(n, sender[s].stage)
<1>1. e \in Items
  BY DEF RecordOutcome, CollabTypeOK, SenderRow
<1>2. item[e] \in ItemRow /\ n \in Nat
  BY <1>1, ItemColumn DEF CollabTypeOK
<1>3. st \in ItemStatus /\ st \in Closed \cup {"RETRY"}
      /\ (st = "DELIVERED" <=> sender[s].stage \in {"ok", "blank"})
  BY DEF Outcome, ItemStatus
<1>4. PICK d \in 1..SendDelay :
        item' = [item EXCEPT ![e] = [item[e] EXCEPT !.status = st, !.attempts = n, !.age = 0,
                                                    !.wait = IF st = "RETRY" THEN d ELSE 0]]
  BY DEF RecordOutcome
<1> DEFINE w == IF st = "RETRY" THEN d ELSE 0
           u == WithOutcome(item[e], st, n, w)
<1>5. w \in 0..SendDelay
  OBVIOUS
<1>6. u \in ItemRow /\ u.status = st
  <2> HIDE DEF w, st, n, e
  <2>1. QED
    BY <1>2, <1>3, <1>5, RecordedItem
<1>7. item' = [item EXCEPT ![e] = u]
  BY <1>4 DEF WithOutcome
<1> HIDE DEF u, st
<1>8. item' \in [Items -> ItemRow] /\ item'[e] = u /\ \A i \in Items \ {e} : item'[i] = item[i]
  BY <1>1, <1>6, <1>7 DEF CollabTypeOK
<1>9. QED
  BY <1>1, <1>3, <1>6, <1>8 DEF RecordOutcome

\* CollabTypeOK: rows, batches and counts stay well formed.
LEMMA CollabNextTyped == CollabTypeOK /\ [CollabNext]_collabVars => CollabTypeOK'
<1> SUFFICES ASSUME CollabTypeOK, [CollabNext]_collabVars PROVE CollabTypeOK'
  OBVIOUS
<1> DEFINE SendersOK == /\ sender' \in [Senders -> SenderRow]
                        /\ \A s \in Senders :
                             /\ sender'[s].at \notin sender'[s].todo
                             /\ sender'[s].stage = "link" => sender'[s].at \in Creations
<1>1. ASSUME NEW s \in Senders, NEW r \in SenderRow, sender' = [sender EXCEPT ![s] = r],
             r.at \notin r.todo, r.stage = "link" => r.at \in Creations
      PROVE  SendersOK
  BY <1>1 DEF CollabTypeOK
<1>2. ASSUME NEW s \in Senders, NEW S \in SUBSET Items
      PROVE  LET r == [Resting EXCEPT !.todo = S]
             IN  r \in SenderRow /\ r.at \notin r.todo /\ r.stage # "link"
  BY DEF Resting, SenderRow
<1>3. ASSUME NEW n \in Items, item[n].status \in {"NEW", "FAILED"},
             \/ item' = [item EXCEPT ![n].status = "PENDING"]
             \/ item[n].run < MaxRequeues /\ item' = [item EXCEPT ![n] = Requeued(@)]
      PROVE  item' \in [Items -> ItemRow]
  <2>1. item[n] \in ItemRow /\ "PENDING" \in ItemStatus
    BY DEF CollabTypeOK, ItemStatus
  <2>2. [item[n] EXCEPT !.status = "PENDING"] \in ItemRow
    BY <2>1, ItemColumn
  <2>3. item[n].run < MaxRequeues => Requeued(item[n]) \in ItemRow
    BY <2>1, RequeuedItem
  <2>4. QED
    BY <1>3, <2>2, <2>3 DEF CollabTypeOK
<1>4. ASSUME NEW n \in Notices, Announce(n) PROVE CollabTypeOK'
  BY <1>3, <1>4 DEF Announce, CollabTypeOK, history
<1>5. ASSUME NEW f \in Creations, QueueCreate(f) PROVE CollabTypeOK'
  BY <1>3, <1>5 DEF QueueCreate, CollabTypeOK, history
<1>6. ASSUME NEW s \in Senders, Claim(s) PROVE CollabTypeOK'
  <2>1. PICK S \in Claims \ {{}} :
          /\ item' = [e \in Items |->
                IF e \in S THEN [Returned[e] EXCEPT !.status = "SENDING", !.age = 0] ELSE Returned[e]]
          /\ sender' = [sender EXCEPT ![s].todo = S]
          /\ leased' = leased \cup {s} \X S
    BY <1>6 DEF Claim
  <2>2. S \in SUBSET Items
    BY DEF Claims, Ready
  <2>3. item' \in [Items -> ItemRow]
    BY <2>1, ReturnedRows, ClaimedItem
  <2>4. sender' = [sender EXCEPT ![s] = [Resting EXCEPT !.todo = S]]
    BY <1>6, <2>1 DEF Claim
  <2>5. SendersOK
    BY <1>1, <1>2, <2>2, <2>4
  <2>6. QED
    <3>1. leased' \subseteq Senders \X Items
      BY <1>6, <2>1, <2>2 DEF CollabTypeOK
    <3>2. QED
      BY <1>6, <2>3, <2>5, <3>1 DEF Claim, CollabTypeOK
<1>7. ASSUME NEW s \in Senders, NEW e \in Items, NEW g \in {"post", "fail", "blank"}, Picks(s, e, g)
      PROVE  CollabTypeOK'
  <2> DEFINE r == [todo |-> sender[s].todo \ {e}, at |-> e, stage |-> g]
  <2>1. r \in SenderRow /\ r.at \notin r.todo /\ r.stage # "link"
    BY DEF CollabTypeOK, SenderRow
  <2>2. sender' = [sender EXCEPT ![s] = r]
    BY <1>7 DEF Picks, history
  <2> HIDE DEF r
  <2>3. SendersOK
    BY <1>1, <2>1, <2>2
  <2>4. QED
    BY <1>7, <2>3 DEF Picks, CollabTypeOK, history
<1>8. ASSUME NEW s \in Senders, Reply(s) PROVE CollabTypeOK'
  <2>1. sender[s].at \in Items
    BY <1>8 DEF Reply, CollabTypeOK, SenderRow
  <2>2. PICK g \in {"ok", "blank", "retry", "fail"}, a \in {0, 1} :
          /\ sender' = [sender EXCEPT ![s].stage = g]
          /\ made' = [made EXCEPT ![sender[s].at] = @ + a]
          /\ owed' = [owed EXCEPT ![sender[s].at] = IF g \in {"ok", "blank"} THEN @ ELSE @ + a]
    BY <1>8 DEF Reply
  <2> DEFINE r == [sender[s] EXCEPT !.stage = g]
  <2>3. r \in SenderRow /\ r.at \notin r.todo /\ r.stage # "link"
    BY DEF CollabTypeOK, SenderRow
  <2>4. SendersOK
    <3>1. sender' = [sender EXCEPT ![s] = r]
      BY <2>2
    <3> HIDE DEF r
    <3>2. QED
      BY <1>1, <2>3, <3>1
  <2>5. made' \in [Items -> Nat] /\ owed' \in [Items -> Nat]
    BY <2>1, <2>2 DEF CollabTypeOK
  <2>6. QED
    BY <1>8, <2>4, <2>5 DEF Reply, CollabTypeOK
<1>9. ASSUME NEW s \in Senders, RecordOutcome(s) PROVE CollabTypeOK'
  <2>1. sender[s].at \in Items /\ item' \in [Items -> ItemRow]
    BY <1>9, OutcomeRows
  <2> DEFINE r == IF LinksNext(sender[s].at, sender[s].stage) THEN [sender[s] EXCEPT !.stage = "link"]
                  ELSE [Resting EXCEPT !.todo = sender[s].todo]
  <2>2. r \in SenderRow /\ r.at \notin r.todo /\ (r.stage = "link" => r.at \in Creations)
    <3>1. sender[s] \in SenderRow /\ sender[s].todo \in SUBSET Items
      BY DEF CollabTypeOK, SenderRow
    <3>2. CASE LinksNext(sender[s].at, sender[s].stage)
      BY <3>1, <3>2 DEF CollabTypeOK, SenderRow, LinksNext
    <3>3. CASE ~LinksNext(sender[s].at, sender[s].stage)
      BY <1>2, <3>1, <3>3
    <3>4. QED
      BY <3>2, <3>3
  <2>3. sender' = [sender EXCEPT ![s] = r]
    BY <1>9, OutcomeRows
  <2>4. SendersOK
    <3> HIDE DEF r
    <3>1. QED
      BY <1>1, <2>2, <2>3
  <2>5. linked' \subseteq Creations /\ orphans' \subseteq Creations
    BY <1>9 DEF RecordOutcome, CollabTypeOK
  <2>6. QED
    BY <1>9, <2>1, <2>4, <2>5 DEF RecordOutcome, CollabTypeOK
<1>10. ASSUME NEW s \in Senders, Link(s) PROVE CollabTypeOK'
  <2>1. sender[s].todo \in SUBSET Items /\ sender[s].at \in Creations
    BY <1>10 DEF CollabTypeOK, SenderRow, Link, history
  <2>2. SendersOK
    BY <1>1, <1>2, <1>10, <2>1 DEF Link, history
  <2>3. QED
    BY <1>10, <2>1, <2>2 DEF Link, CollabTypeOK, history
<1>11. ASSUME NEW s \in Senders, Drop(s) PROVE CollabTypeOK'
  <2>1. Resting \in SenderRow /\ Resting.at \notin Resting.todo /\ Resting.stage # "link"
    BY DEF Resting, SenderRow
  <2>2. SendersOK
    BY <1>1, <1>11, <2>1 DEF Drop, history
  <2>3. sender[s].at \in Items \cup {NoItem} /\ deaths' \in 0..MaxDeaths
    BY <1>11 DEF Drop, CollabTypeOK, SenderRow, history
  <2>4. made' \in [Items -> Nat] /\ owed' \in [Items -> Nat]
    BY <1>11, <2>3 DEF Drop, CollabTypeOK, history
  <2>5. orphans' \subseteq Creations
    BY <1>11, SMTT(30) DEF Drop, CollabTypeOK, history
  <2>6. QED
    BY <1>11, <2>2, <2>3, <2>4, <2>5 DEF Drop, CollabTypeOK, history
<1>12. CASE CollabTick
  <2>1. /\ item' \in [Items -> ItemRow] /\ leased' \subseteq leased
        /\ UNCHANGED <<linked, sender, made, owed, orphans, deaths>>
    BY <1>12, TickRows DEF CollabTick
  <2>2. late' \in [Items -> Nat]
    <3>1. \A e \in Items : late[e] \in Nat /\ late[e] + 1 \in Nat
      BY DEF CollabTypeOK
    <3>2. /\ late' = [e \in Items |-> late'[e]]
          /\ \A e \in Items : late'[e] \in {late[e], late[e] + 1}
      BY <1>12 DEF CollabTick
    <3>3. QED
      BY <3>1, <3>2
  <2>3. QED
    BY <2>1, <2>2 DEF CollabTypeOK
<1>13. CASE UNCHANGED collabVars
  BY <1>13 DEF collabVars, CollabTypeOK, history
<1>14. QED
  BY <1>4, <1>5, <1>6, <1>7, <1>8, <1>9, <1>10, <1>11, <1>12, <1>13
     DEF CollabNext, SenderStep, Send, Refuse, Skip

LEMMA CollabTyped == CollabSpec => []CollabTypeOK
<1>1. CollabInit => CollabTypeOK
  BY DEF CollabInit, CollabTypeOK, NewItem, Resting, ItemRow, SenderRow
<1>2. QED
  BY <1>1, CollabNextTyped, PTL DEF CollabSpec

-----------------------------------------------------------------------------
(* Who has an event, and whose lease of it still runs.  An event under a    *)
(* lease that runs is SENDING, no older than the lease, in the hands of one *)
(* sender.  Any number of others may have it too: their leases ran out, or  *)
(* a late result ended them.                                                *)

Holds(s, e) == e \in sender[s].todo \/ (sender[s].at = e /\ sender[s].stage # "link")

\* The sender was told that e was made, and has not recorded it yet.
Told(s, e) ==
    sender[s].at = e /\ (sender[s].stage = "ok" \/ (sender[s].stage = "blank" /\ e \in Creations))

Leases(s, e) == <<s, e>> \in leased

LeaseOK(s, e) == Holds(s, e) /\ item[e].status = "SENDING" /\ item[e].age <= SendLease

LeaseInv ==
    /\ \A s \in Senders, e \in Items : Leases(s, e) => LeaseOK(s, e)
    /\ \A s, t \in Senders, e \in Items : Leases(s, e) /\ Leases(t, e) => s = t

LEMMA SenderTyped ==
    ASSUME CollabTypeOK, NEW s \in Senders
    PROVE  /\ sender[s] \in SenderRow /\ sender[s].at \notin sender[s].todo
           /\ sender[s].todo \subseteq Items /\ sender[s].at \in Items \cup {NoItem}
           /\ sender[s].stage \in {"post", "ok", "blank", "retry", "fail", "link"}
BY DEF CollabTypeOK, SenderRow

\* Leases end; those that go on are kept in order.
LEMMA LeaseKept ==
    ASSUME LeaseInv, leased' \subseteq leased,
           \A s \in Senders, e \in Items : Leases(s, e)' => LeaseOK(s, e)'
    PROVE  LeaseInv'
BY DEF LeaseInv, Leases

-----------------------------------------------------------------------------
(* What the servers made of an event.  Credit: the event may be made once   *)
(* more on its account, unless it is delivered or whoever has its lease was *)
(* told it is made.  Adrift: the senders that have it without a lease may   *)
(* each make it once more.  With what may still be made, an event is never  *)
(* made more often than one and what is owed and the leases that ran out.   *)

Credit(e) ==
    IF item[e].status = "DELIVERED" \/ \E s \in Senders : Leases(s, e) /\ Told(s, e) THEN 0 ELSE 1

Adrift(e) == {s \in Senders : Holds(s, e) /\ ~Leases(s, e) /\ ~Told(s, e)}

CountOK(e) == made[e] + Credit(e) + Cardinality(Adrift(e)) <= 1 + owed[e] + late[e]

CountInv == \A e \in Items : CountOK(e)

LEMMA CountsTyped ==
    ASSUME CollabTypeOK, NEW e \in Items
    PROVE  made[e] \in Nat /\ owed[e] \in Nat /\ late[e] \in Nat
BY DEF CollabTypeOK

\* One sender more or less.
LEMMA SendersCounted ==
    ASSUME NEW X \in SUBSET Senders
    PROVE  /\ IsFiniteSet(X) /\ Cardinality(X) \in Nat
           /\ \A Y \in SUBSET X : Cardinality(Y) \in Nat /\ Cardinality(Y) <= Cardinality(X)
           /\ \A s \in X : Cardinality(X \ {s}) = Cardinality(X) - 1
           /\ \A s \in Senders : Cardinality(X \cup {s}) \in Nat /\ Cardinality(X \cup {s}) <= Cardinality(X) + 1
<1>1. IsFiniteSet(X) /\ Cardinality(X) \in Nat
  BY FS_Subset, FS_CardinalityType
<1>2. \A Y \in SUBSET X : Cardinality(Y) \in Nat /\ Cardinality(Y) <= Cardinality(X)
  BY <1>1, FS_Subset, FS_CardinalityType
<1>3. \A s \in X : Cardinality(X \ {s}) = Cardinality(X) - 1
  BY <1>1, FS_RemoveElement
<1>4. \A s \in Senders : Cardinality(X \cup {s}) \in Nat /\ Cardinality(X \cup {s}) <= Cardinality(X) + 1
  <2> SUFFICES ASSUME NEW s \in Senders
               PROVE  Cardinality(X \cup {s}) \in Nat /\ Cardinality(X \cup {s}) <= Cardinality(X) + 1
    OBVIOUS
  <2>1. Cardinality(X \cup {s}) = IF s \in X THEN Cardinality(X) ELSE Cardinality(X) + 1
    BY <1>1, FS_AddElement
  <2>2. QED
    BY <1>1, <2>1
<1>5. QED
  BY <1>1, <1>2, <1>3, <1>4

LEMMA AdriftCounted ==
    ASSUME NEW e \in Items
    PROVE  /\ Adrift(e) \in SUBSET Senders /\ Adrift(e)' \in SUBSET Senders
           /\ Cardinality(Adrift(e)) \in Nat /\ Cardinality(Adrift(e)') \in Nat
           /\ Cardinality(Adrift(e))' = Cardinality(Adrift(e)')
           /\ Credit(e) \in {0, 1} /\ Credit(e)' \in {0, 1}
<1>1. Adrift(e) \in SUBSET Senders /\ Adrift(e)' \in SUBSET Senders
  BY DEF Adrift
<1>2. Cardinality(Adrift(e)) \in Nat /\ Cardinality(Adrift(e)') \in Nat
  BY <1>1, SendersCounted
<1>3. Credit(e) \in {0, 1} /\ Credit(e)' \in {0, 1}
  BY DEF Credit
<1>4. QED
  BY <1>1, <1>2, <1>3

LEMMA AdriftHas ==
    ASSUME NEW e \in Items
    PROVE  /\ Adrift(e) \subseteq Senders /\ Adrift(e)' \subseteq Senders
           /\ \A s \in Senders :
                /\ s \in Adrift(e) <=> Holds(s, e) /\ ~Leases(s, e) /\ ~Told(s, e)
                /\ s \in Adrift(e)' <=> Holds(s, e)' /\ ~Leases(s, e)' /\ ~Told(s, e)'
BY DEF Adrift

\* The count of an event after a step: what may still be made did not grow,
\* or what is owed and what ran out grew as much.
LEMMA CountOfItem ==
    ASSUME CollabTypeOK, CollabTypeOK', NEW e \in Items, CountOK(e),
           NEW c \in {0, 1}, made'[e] = made[e] + c,
           owed'[e] + late'[e] + Credit(e) + Cardinality(Adrift(e))
              >= owed[e] + late[e] + c + Credit(e)' + Cardinality(Adrift(e)')
    PROVE  CountOK(e)'
<1>1. /\ made[e] \in Nat /\ owed[e] \in Nat /\ late[e] \in Nat
      /\ made'[e] \in Nat /\ owed'[e] \in Nat /\ late'[e] \in Nat
  BY DEF CollabTypeOK
<1>2. Cardinality(Adrift(e)) \in Nat /\ Cardinality(Adrift(e)') \in Nat /\ Credit(e) \in {0, 1} /\ Credit(e)' \in {0, 1}
  BY AdriftCounted
<1>3. made[e] + Credit(e) + Cardinality(Adrift(e)) <= 1 + owed[e] + late[e]
  BY DEF CountOK
<1>4. made'[e] + Credit(e)' + Cardinality(Adrift(e)') <= 1 + owed'[e] + late'[e]
  BY <1>1, <1>2, <1>3
<1>5. QED
  BY <1>4 DEF CountOK

\* An event nothing happened to that matters for its count.
LEMMA CountKept ==
    ASSUME CollabTypeOK, CollabTypeOK', NEW e \in Items, CountOK(e),
           made'[e] = made[e], owed'[e] >= owed[e], late'[e] = late[e],
           Credit(e)' <= Credit(e), Adrift(e)' \subseteq Adrift(e)
    PROVE  CountOK(e)'
<1>1. Cardinality(Adrift(e)') <= Cardinality(Adrift(e))
  BY AdriftCounted, SendersCounted
<1>2. /\ owed[e] \in Nat /\ late[e] \in Nat /\ owed'[e] \in Nat /\ made[e] \in Nat
  BY DEF CollabTypeOK
<1>3. owed'[e] + late'[e] + Credit(e) + Cardinality(Adrift(e))
         >= owed[e] + late[e] + 0 + Credit(e)' + Cardinality(Adrift(e)')
  BY <1>1, <1>2, AdriftCounted
<1>4. made'[e] = made[e] + 0
  BY <1>2
<1>5. QED
  BY <1>3, <1>4, CountOfItem

\* An event whose lease, holders and knowledge are as before.
LEMMA CountSame ==
    ASSUME CollabTypeOK, CollabTypeOK', NEW e \in Items, CountOK(e),
           made'[e] = made[e], owed'[e] = owed[e], late'[e] = late[e],
           item'[e].status = "DELIVERED" => item[e].status = "DELIVERED",
           item[e].status = "DELIVERED" => item'[e].status = "DELIVERED",
           \A s \in Senders : /\ Holds(s, e)' <=> Holds(s, e)
                              /\ Told(s, e)' <=> Told(s, e)
                              /\ Leases(s, e)' <=> Leases(s, e)
    PROVE  CountOK(e)'
<1>1. Adrift(e)' \subseteq Adrift(e)
  BY DEF Adrift
<1>2. Credit(e)' = Credit(e)
  BY DEF Credit
<1>3. owed'[e] >= owed[e]
  BY CountsTyped
<1>4. QED
  BY <1>1, <1>2, <1>3, CountKept, AdriftCounted

\* While its lease runs an event is neither delivered nor, unless whoever has
\* the lease was told so, made.
LEMMA LeasedCredit ==
    ASSUME LeaseInv, NEW s \in Senders, NEW e \in Items, Leases(s, e)
    PROVE  /\ item[e].status = "SENDING"
           /\ Credit(e) = IF Told(s, e) THEN 0 ELSE 1
BY DEF LeaseInv, LeaseOK, Credit

\* Announcing, queueing: a row that nobody leases changes.
LEMMA TableKeepsCount ==
    ASSUME LeaseInv, CountInv, CollabTypeOK, CollabTypeOK', NEW n \in Items,
           item[n].status \in {"NEW", "FAILED"}, item'[n].status # "DELIVERED",
           \A e \in Items \ {n} : item'[e] = item[e],
           UNCHANGED <<sender, made, owed, leased, late>>
    PROVE  LeaseInv' /\ CountInv'
<1>1. \A s \in Senders, e \in Items :
        /\ Holds(s, e)' <=> Holds(s, e)
        /\ Told(s, e)' <=> Told(s, e)
        /\ Leases(s, e)' <=> Leases(s, e)
  BY DEF Holds, Told, Leases
<1>2. \A s \in Senders : ~Leases(s, n)
  BY DEF LeaseInv, LeaseOK
<1>3. LeaseInv'
  BY <1>1, <1>2, LeaseKept DEF LeaseInv, LeaseOK
<1>4. \A e \in Items : CountOK(e)'
  BY <1>1, CountSame DEF CountInv
<1>5. QED
  BY <1>3, <1>4 DEF CountInv

\* A claim: what it takes was under no lease that runs.
LEMMA ClaimKeepsCount ==
    ASSUME LeaseInv, CountInv, CollabTypeOK, CollabTypeOK', NEW s \in Senders, Claim(s)
    PROVE  LeaseInv' /\ CountInv'
<1>1. PICK S \in Claims \ {{}} :
        /\ item' = [e \in Items |->
              IF e \in S THEN [Returned[e] EXCEPT !.status = "SENDING", !.age = 0] ELSE Returned[e]]
        /\ sender' = [sender EXCEPT ![s].todo = S]
        /\ leased' = leased \cup {s} \X S
  BY DEF Claim
<1>2. S \subseteq Ready /\ S \subseteq Items /\ UNCHANGED <<made, owed, late>>
  BY DEF Claims, Ready, Claim
<1>3. /\ sender'[s].todo = S /\ sender'[s].at = NoItem /\ sender'[s].stage = "post"
      /\ sender[s].todo = {} /\ sender[s].at = NoItem
      /\ \A t \in Senders \ {s} : sender'[t] = sender[t]
  <2>1. sender[s] = Resting /\ sender'[s] = [Resting EXCEPT !.todo = S]
    BY <1>1 DEF CollabTypeOK, Claim
  <2>2. QED
    <3>1. [Resting EXCEPT !.todo = S] = [todo |-> S, at |-> NoItem, stage |-> "post"]
      BY DEF Resting
    <3>2. sender[s] = [todo |-> {}, at |-> NoItem, stage |-> "post"]
      BY <2>1 DEF Resting
    <3>3. \A t \in Senders \ {s} : sender'[t] = sender[t]
      BY <1>1 DEF CollabTypeOK
    <3>4. QED
      BY <2>1, <3>1, <3>2, <3>3
<1>4. ASSUME NEW e \in Items, NEW t \in Senders, Leases(t, e)
      PROVE  e \notin S /\ item'[e] = item[e] /\ t # s
  <2>1. item[e].status = "SENDING" /\ item[e].age <= SendLease /\ Holds(t, e)
    BY <1>4 DEF LeaseInv, LeaseOK
  <2>2. item[e].age \in Nat
    BY ItemColumn DEF CollabTypeOK
  <2>3. Returned[e] = item[e]
    BY <2>1, <2>2, ReturnedRows DEF OutOfLease
  <2>4. e \notin S
    BY <1>2, <2>1, <2>3 DEF Ready
  <2>5. t # s
    BY <1>3, <2>1 DEF Holds
  <2>6. QED
    BY <1>1, <2>3, <2>4, <2>5
<1>5. ASSUME NEW t \in Senders, NEW e \in Items
      PROVE  /\ Told(t, e)' <=> Told(t, e)
             /\ t # s => (Holds(t, e)' <=> Holds(t, e))
             /\ t = s => ~Holds(t, e) /\ ~Told(t, e) /\ (Holds(t, e)' <=> e \in S)
             /\ Leases(t, e)' <=> Leases(t, e) \/ (t = s /\ e \in S)
  <2>1. Leases(t, e)' <=> Leases(t, e) \/ (t = s /\ e \in S)
    BY <1>1, <1>2 DEF Leases
  <2>2. CASE t = s
    BY <1>3, <2>1, <2>2 DEF Holds, Told
  <2>3. CASE t # s
    BY <1>3, <2>1, <2>3 DEF Holds, Told
  <2>4. QED
    BY <2>2, <2>3
<1>6. \A e \in S : item'[e].status = "SENDING" /\ item'[e].age = 0
  BY <1>1, <1>2, ReturnedRows, ClaimedItem
<1>7. LeaseInv'
  <2>1. ASSUME NEW t \in Senders, NEW e \in Items, Leases(t, e)' PROVE LeaseOK(t, e)'
    <3>1. CASE Leases(t, e)
      BY <1>4, <1>5, <3>1 DEF LeaseInv, LeaseOK
    <3>2. CASE t = s /\ e \in S
      BY <1>5, <1>6, <3>2 DEF LeaseOK
    <3>3. QED
      BY <1>5, <2>1, <3>1, <3>2
  <2>2. \A t, u \in Senders, e \in Items : Leases(t, e)' /\ Leases(u, e)' => t = u
    BY <1>4, <1>5 DEF LeaseInv
  <2>3. QED
    BY <2>1, <2>2 DEF LeaseInv
<1>8. ASSUME NEW e \in Items PROVE CountOK(e)'
  <2>1. Adrift(e)' \subseteq Adrift(e)
    BY <1>5 DEF Adrift
  <2>2. item'[e].status = "DELIVERED" <=> item[e].status = "DELIVERED"
    <3>1. CASE e \in S
      BY <1>2, <1>6, <3>1, ReturnedRows DEF Ready
    <3>2. CASE e \notin S
      BY <1>1, <3>2, ReturnedRows
    <3>3. QED
      BY <3>1, <3>2
  <2>3. Credit(e)' = Credit(e)
    BY <1>5, <2>2 DEF Credit
  <2>4. owed'[e] >= owed[e] /\ made'[e] = made[e] /\ late'[e] = late[e]
    BY <1>2, CountsTyped
  <2>5. QED
    BY <2>1, <2>3, <2>4, CountKept, AdriftCounted DEF CountInv
<1>9. QED
  BY <1>7, <1>8 DEF CountInv

\* A step of one sender that leaves the rows and the leases alone: what it does
\* to the event in hand is left to the caller.
LEMMA SenderKeepsLease ==
    ASSUME LeaseInv, NEW s \in Senders, UNCHANGED <<item, leased>>,
           \A t \in Senders \ {s} : sender'[t] = sender[t],
           \A e \in Items : Holds(s, e) => Holds(s, e)'
    PROVE  /\ LeaseInv'
           /\ \A t \in Senders, e \in Items :
                /\ Leases(t, e)' <=> Leases(t, e)
                /\ t # s => (Holds(t, e)' <=> Holds(t, e)) /\ (Told(t, e)' <=> Told(t, e))
<1>1. \A t \in Senders, e \in Items :
        /\ Leases(t, e)' <=> Leases(t, e)
        /\ t # s => (Holds(t, e)' <=> Holds(t, e)) /\ (Told(t, e)' <=> Told(t, e))
  BY DEF Leases, Holds, Told
<1>2. \A t \in Senders, e \in Items : Leases(t, e)' => LeaseOK(t, e)'
  BY <1>1 DEF LeaseInv, LeaseOK
<1>3. QED
  BY <1>1, <1>2, LeaseKept

LEMMA PicksKeepsCount ==
    ASSUME LeaseInv, CountInv, CollabTypeOK, CollabTypeOK', NEW s \in Senders, NEW e \in Items,
           NEW g \in {"post", "fail", "blank"}, Picks(s, e, g), g = "blank" => e \notin Creations
    PROVE  LeaseInv' /\ CountInv'
<1>1. /\ sender[s].at = NoItem /\ e \in sender[s].todo
      /\ sender'[s].todo = sender[s].todo \ {e} /\ sender'[s].at = e /\ sender'[s].stage = g
      /\ \A t \in Senders \ {s} : sender'[t] = sender[t]
      /\ UNCHANGED <<item, made, owed, leased, late>>
  BY DEF Picks, CollabTypeOK, history
<1>2. \A f \in Items : /\ Holds(s, f)' <=> Holds(s, f)
                       /\ ~Told(s, f) /\ ~Told(s, f)'
  BY <1>1 DEF Holds, Told
<1>3. /\ LeaseInv'
      /\ \A t \in Senders, f \in Items :
           /\ Leases(t, f)' <=> Leases(t, f)
           /\ t # s => (Holds(t, f)' <=> Holds(t, f)) /\ (Told(t, f)' <=> Told(t, f))
  BY <1>1, <1>2, SenderKeepsLease
<1>4. \A f \in Items : CountOK(f)'
  BY <1>1, <1>2, <1>3, CountSame DEF CountInv
<1>5. QED
  BY <1>3, <1>4 DEF CountInv

LEMMA LinkKeepsCount ==
    ASSUME LeaseInv, CountInv, CollabTypeOK, CollabTypeOK', NEW s \in Senders, Link(s)
    PROVE  LeaseInv' /\ CountInv'
<1>1. /\ sender[s].stage = "link"
      /\ sender'[s].todo = sender[s].todo /\ sender'[s].at = NoItem /\ sender'[s].stage = "post"
      /\ \A t \in Senders \ {s} : sender'[t] = sender[t]
      /\ UNCHANGED <<item, made, owed, leased, late>>
  BY DEF Link, CollabTypeOK, history, Resting
<1>2. \A f \in Items : /\ Holds(s, f)' <=> Holds(s, f)
                       /\ ~Told(s, f) /\ ~Told(s, f)'
  BY <1>1 DEF Holds, Told
<1>3. /\ LeaseInv'
      /\ \A t \in Senders, f \in Items :
           /\ Leases(t, f)' <=> Leases(t, f)
           /\ t # s => (Holds(t, f)' <=> Holds(t, f)) /\ (Told(t, f)' <=> Told(t, f))
  BY <1>1, <1>2, SenderKeepsLease
<1>4. \A f \in Items : CountOK(f)'
  BY <1>1, <1>2, <1>3, CountSame DEF CountInv
<1>5. QED
  BY <1>3, <1>4 DEF CountInv

\* A reply uses up the credit of a lease, or its sender is adrift no more.
LEMMA ReplyKeepsCount ==
    ASSUME LeaseInv, CountInv, CollabTypeOK, CollabTypeOK', NEW s \in Senders, Reply(s)
    PROVE  LeaseInv' /\ CountInv'
<1>. PICK e : e = sender[s].at
  OBVIOUS
<1>1. PICK g \in {"ok", "blank", "retry", "fail"}, acted \in {0, 1} :
        /\ g \in {"ok", "blank"} => acted = 1
        /\ g = "blank" => e \in Creations
        /\ sender' = [sender EXCEPT ![s].stage = g]
        /\ made' = [made EXCEPT ![e] = @ + acted]
        /\ owed' = [owed EXCEPT ![e] = IF g \in {"ok", "blank"} THEN @ ELSE @ + acted]
  BY DEF Reply
<1>2. /\ e \in Items /\ sender[s].at = e /\ sender[s].stage = "post"
      /\ UNCHANGED <<item, leased, late>>
  BY SenderTyped DEF Reply
<1>3. /\ sender'[s].todo = sender[s].todo /\ sender'[s].at = e /\ sender'[s].stage = g
      /\ \A t \in Senders \ {s} : sender'[t] = sender[t]
  BY <1>1, <1>2, SenderTyped DEF CollabTypeOK, SenderRow
<1>4. \A f \in Items : /\ Holds(s, f)' <=> Holds(s, f)
                       /\ ~Told(s, f)
                       /\ Told(s, f)' <=> f = e /\ g \in {"ok", "blank"}
  BY <1>1, <1>2, <1>3 DEF Holds, Told
<1>5. /\ LeaseInv'
      /\ \A t \in Senders, f \in Items :
           /\ Leases(t, f)' <=> Leases(t, f)
           /\ t # s => (Holds(t, f)' <=> Holds(t, f)) /\ (Told(t, f)' <=> Told(t, f))
  BY <1>2, <1>3, <1>4, SenderKeepsLease
<1>6. ASSUME NEW f \in Items, f # e PROVE CountOK(f)'
  <2>1. made'[f] = made[f] /\ owed'[f] = owed[f] /\ late'[f] = late[f] /\ item'[f] = item[f]
    BY <1>1, <1>2, <1>6 DEF CollabTypeOK
  <2>2. QED
    BY <1>4, <1>5, <1>6, <2>1, CountSame DEF CountInv
<1>7. CountOK(e)'
  <2>1. /\ made'[e] = made[e] + acted /\ late'[e] = late[e] /\ item'[e] = item[e]
        /\ owed'[e] = IF g \in {"ok", "blank"} THEN owed[e] ELSE owed[e] + acted
        /\ owed[e] \in Nat /\ late[e] \in Nat
    BY <1>1, <1>2 DEF CollabTypeOK
  <2>2. CASE g \notin {"ok", "blank"}
    <3>1. Adrift(e)' = Adrift(e)
      <4>1. \A u \in Senders : u \in Adrift(e)' <=> u \in Adrift(e)
        BY <1>2, <1>4, <1>5, <2>2, AdriftHas
      <4>2. QED
        BY <1>2, <4>1, AdriftHas
    <3>2. Credit(e)' = Credit(e)
      <4>1. \A u \in Senders : Leases(u, e)' /\ Told(u, e)' <=> Leases(u, e) /\ Told(u, e)
        BY <1>2, <1>4, <1>5, <2>2
      <4>2. QED
        BY <2>1, <4>1 DEF Credit
    <3>3. QED
      BY <1>2, <2>1, <2>2, <3>1, <3>2, AdriftCounted, CountOfItem DEF CountInv
  <2>3. CASE g \in {"ok", "blank"} /\ Leases(s, e)
    <3>1. Adrift(e)' = Adrift(e)
      <4>1. \A u \in Senders : u \in Adrift(e)' <=> u \in Adrift(e)
        BY <1>2, <1>4, <1>5, <2>3, AdriftHas
      <4>2. QED
        BY <1>2, <4>1, AdriftHas
    <3>2. Credit(e) = 1 /\ Credit(e)' = 0
      <4>1. Credit(e) = 1
        BY <1>2, <1>4, <2>3, LeasedCredit
      <4>2. Credit(e)' = 0
        BY <1>2, <1>4, <1>5, <2>3 DEF Credit
      <4>3. QED
        BY <4>1, <4>2
    <3>3. acted = 1
      BY <1>1, <2>3
    <3>4. QED
      BY <1>2, <2>1, <2>3, <3>1, <3>2, <3>3, AdriftCounted, CountOfItem DEF CountInv
  <2>4. CASE g \in {"ok", "blank"} /\ ~Leases(s, e)
    <3>1. s \in Adrift(e) /\ Adrift(e)' = Adrift(e) \ {s}
      <4>1. Holds(s, e)
        BY <1>2, SenderTyped DEF Holds
      <4>2. QED
        <5>1. s \in Adrift(e)
          BY <1>2, <1>4, <2>4, <4>1, AdriftHas
        <5>2. \A u \in Senders : u \in Adrift(e)' <=> u \in Adrift(e) /\ u # s
          BY <1>2, <1>4, <1>5, <2>4, <4>1, AdriftHas
        <5>3. QED
          BY <1>2, <5>1, <5>2, AdriftHas
    <3>2. Credit(e)' = Credit(e)
      <4>1. \A u \in Senders : Leases(u, e)' /\ Told(u, e)' <=> Leases(u, e) /\ Told(u, e)
        BY <1>2, <1>4, <1>5, <2>4
      <4>2. QED
        BY <2>1, <4>1 DEF Credit
    <3>3. Cardinality(Adrift(e)') = Cardinality(Adrift(e)) - 1
      BY <1>2, <3>1, AdriftCounted, SendersCounted
    <3>4. acted = 1
      BY <1>1, <2>4
    <3>5. QED
      BY <1>2, <2>1, <2>4, <3>2, <3>3, <3>4, AdriftCounted, CountOfItem DEF CountInv
  <2>5. QED
    BY <2>2, <2>3, <2>4
<1>8. QED
  BY <1>5, <1>6, <1>7 DEF CountInv

\* A result ends the lease of its event, whoever has it.  The sender that had
\* the lease is adrift from then on, unless it is the one that recorded.
LEMMA RecordKeepsCount ==
    ASSUME LeaseInv, CountInv, CollabTypeOK, CollabTypeOK', NEW s \in Senders, RecordOutcome(s)
    PROVE  LeaseInv' /\ CountInv'
<1>. PICK e : e = sender[s].at
  OBVIOUS
<1>1. /\ e \in Items /\ e # NoItem /\ sender[s].stage \in {"ok", "blank", "retry", "fail"}
      /\ \A f \in Items \ {e} : item'[f] = item[f]
      /\ item'[e].status = "DELIVERED" <=> sender[s].stage \in {"ok", "blank"}
      /\ item'[e].status # "SENDING"
      /\ UNCHANGED <<made, owed, late>> /\ leased' = leased \ (Senders \X {e})
  BY OutcomeRows DEF RecordOutcome
<1>2. /\ sender'[s].todo = sender[s].todo
      /\ sender'[s].at = NoItem \/ sender'[s].stage = "link"
      /\ sender'[s].stage \in {"post", "link"}
      /\ \A t \in Senders \ {s} : sender'[t] = sender[t]
  <2>1. sender' = [sender EXCEPT ![s] =
                     IF LinksNext(e, sender[s].stage) THEN [sender[s] EXCEPT !.stage = "link"]
                     ELSE [Resting EXCEPT !.todo = sender[s].todo]]
    BY OutcomeRows
  <2>2. QED
    BY <1>1, <2>1, SenderTyped DEF CollabTypeOK, SenderRow, Resting
<1>3. ASSUME NEW t \in Senders, NEW f \in Items
      PROVE  /\ Leases(t, f)' <=> Leases(t, f) /\ f # e
             /\ t # s => (Holds(t, f)' <=> Holds(t, f)) /\ (Told(t, f)' <=> Told(t, f))
             /\ t = s /\ f # e => (Holds(t, f)' <=> Holds(t, f)) /\ ~Told(t, f) /\ ~Told(t, f)'
  <2>1. Leases(t, f)' <=> Leases(t, f) /\ f # e
    BY <1>1 DEF Leases
  <2>2. CASE t = s
    BY <1>1, <1>2, <2>1, <2>2 DEF Holds, Told
  <2>3. CASE t # s
    BY <1>2, <2>1, <2>3 DEF Holds, Told
  <2>4. QED
    BY <2>2, <2>3
<1>4. /\ Holds(s, e) /\ ~Holds(s, e)' /\ ~Told(s, e)'
      /\ Told(s, e) => item'[e].status = "DELIVERED"
      /\ e \notin sender[s].todo
  BY <1>1, <1>2, SenderTyped DEF Holds, Told
<1>5. LeaseInv'
  <2>1. \A t \in Senders, f \in Items : Leases(t, f)' => LeaseOK(t, f)'
    BY <1>1, <1>3 DEF LeaseInv, LeaseOK
  <2>2. QED
    BY <1>1, <2>1, LeaseKept
<1>6. ASSUME NEW f \in Items, f # e PROVE CountOK(f)'
  BY <1>1, <1>3, <1>6, CountSame DEF CountInv
<1>7. CountOK(e)'
  <2>1. Credit(e)' = IF item'[e].status = "DELIVERED" THEN 0 ELSE 1
    BY <1>1, <1>3 DEF Credit
  <2>2. /\ made'[e] = made[e] + 0 /\ owed'[e] = owed[e] /\ late'[e] = late[e]
        /\ owed[e] \in Nat /\ late[e] \in Nat
    BY <1>1, CountsTyped
  <2>3. ASSUME Cardinality(Adrift(e)') + Credit(e)' <= Cardinality(Adrift(e)) + Credit(e)
        PROVE  CountOK(e)'
    <3>1. CountOK(e)
      BY <1>1 DEF CountInv
    <3>2. owed'[e] + late'[e] + Credit(e) + Cardinality(Adrift(e))
             >= owed[e] + late[e] + 0 + Credit(e)' + Cardinality(Adrift(e)')
      BY <1>1, <2>2, <2>3, AdriftCounted
    <3>3. QED
      BY <1>1, <2>2, <3>1, <3>2, CountOfItem
  <2>4. CASE \E t \in Senders \ {s} : Leases(t, e)
    <3>1. PICK t \in Senders \ {s} : Leases(t, e)
      BY <2>4
    <3>2. \A u \in Senders : Leases(u, e) <=> u = t
      BY <1>1, <3>1 DEF LeaseInv
    <3>3. Credit(e) = IF Told(t, e) THEN 0 ELSE 1
      BY <1>1, <3>1, LeasedCredit
    <3>4. Adrift(e)' \subseteq (Adrift(e) \ {s}) \cup {t}
      BY <1>1, <1>3, <1>4, <3>2, AdriftHas
    <3>5. CASE Told(t, e)
      <4>1. Adrift(e)' \subseteq Adrift(e) \ {s}
        BY <1>1, <1>3, <1>4, <3>2, <3>5, AdriftHas
      <4>2. CASE Told(s, e)
        <5>1. Cardinality(Adrift(e)') <= Cardinality(Adrift(e))
          BY <1>1, <4>1, AdriftCounted, SendersCounted
        <5>2. Credit(e)' = 0
          BY <1>4, <2>1, <4>2
        <5>3. QED
          BY <1>1, <2>3, <5>1, <5>2, AdriftCounted
      <4>3. CASE ~Told(s, e)
        <5>1. s \in Adrift(e)
          BY <1>1, <1>4, <3>1, <3>2, <4>3, AdriftHas
        <5>2. Cardinality(Adrift(e) \ {s}) = Cardinality(Adrift(e)) - 1
          BY <1>1, <5>1, AdriftCounted, SendersCounted
        <5>3. Cardinality(Adrift(e)') <= Cardinality(Adrift(e) \ {s})
          <6>1. Adrift(e) \ {s} \in SUBSET Senders
            BY DEF Adrift
          <6>2. QED
            BY <4>1, <6>1, SendersCounted
        <5>4. QED
          BY <1>1, <2>3, <5>2, <5>3, AdriftCounted
      <4>4. QED
        BY <4>2, <4>3
    <3>6. CASE ~Told(t, e)
      <4>1. Credit(e) = 1
        BY <3>3, <3>6
      <4>2. Adrift(e) \ {s} \in SUBSET Senders /\ (Adrift(e) \ {s}) \cup {t} \in SUBSET Senders
        BY DEF Adrift
      <4>3. Cardinality(Adrift(e)') <= Cardinality(Adrift(e) \ {s}) + 1
        <5>1. Cardinality(Adrift(e)') <= Cardinality((Adrift(e) \ {s}) \cup {t})
          BY <3>4, <4>2, SendersCounted
        <5>2. Cardinality((Adrift(e) \ {s}) \cup {t}) <= Cardinality(Adrift(e) \ {s}) + 1
          BY <4>2, SendersCounted
        <5>3. Cardinality((Adrift(e) \ {s}) \cup {t}) \in Nat /\ Cardinality(Adrift(e) \ {s}) \in Nat
          BY <4>2, SendersCounted
        <5>4. QED
          BY <1>1, <5>1, <5>2, <5>3, AdriftCounted
      <4>4. CASE Told(s, e)
        <5>1. Credit(e)' = 0
          BY <1>4, <2>1, <4>4
        <5>2. Cardinality(Adrift(e) \ {s}) <= Cardinality(Adrift(e)) /\ Cardinality(Adrift(e) \ {s}) \in Nat
          BY <1>1, AdriftCounted, SendersCounted
        <5>3. QED
          BY <1>1, <2>3, <4>1, <4>3, <5>1, <5>2, AdriftCounted
      <4>5. CASE ~Told(s, e)
        <5>1. s \in Adrift(e)
          BY <1>1, <1>4, <3>1, <3>2, <4>5, AdriftHas
        <5>2. Cardinality(Adrift(e) \ {s}) = Cardinality(Adrift(e)) - 1
          BY <1>1, <5>1, AdriftCounted, SendersCounted
        <5>3. QED
          BY <1>1, <2>3, <4>1, <4>3, <5>2, AdriftCounted
      <4>6. QED
        BY <4>4, <4>5
    <3>7. QED
      BY <3>5, <3>6
  <2>5. CASE \A t \in Senders \ {s} : ~Leases(t, e)
    <3>1. Adrift(e)' \subseteq Adrift(e) \ {s}
      BY <1>1, <1>3, <1>4, <2>5, AdriftHas
    <3>2. Cardinality(Adrift(e)') <= Cardinality(Adrift(e))
      BY <1>1, <3>1, AdriftCounted, SendersCounted
    <3>3. CASE Told(s, e)
      <4>1. Credit(e)' = 0
        BY <1>4, <2>1, <3>3
      <4>2. QED
        BY <1>1, <2>3, <3>2, <4>1, AdriftCounted
    <3>4. CASE ~Told(s, e) /\ Leases(s, e)
      <4>1. Credit(e) = 1
        BY <1>1, <3>4, LeasedCredit
      <4>2. QED
        BY <1>1, <2>3, <3>2, <4>1, AdriftCounted
    <3>5. CASE ~Told(s, e) /\ ~Leases(s, e)
      <4>1. s \in Adrift(e)
        BY <1>1, <1>4, <3>5, AdriftHas
      <4>2. Cardinality(Adrift(e) \ {s}) = Cardinality(Adrift(e)) - 1
        BY <1>1, <4>1, AdriftCounted, SendersCounted
      <4>3. Cardinality(Adrift(e)') <= Cardinality(Adrift(e) \ {s})
        <5>1. Adrift(e) \ {s} \in SUBSET Senders
          BY DEF Adrift
        <5>2. QED
          BY <3>1, <5>1, SendersCounted
      <4>4. QED
        BY <1>1, <2>3, <4>2, <4>3, AdriftCounted
    <3>6. QED
      BY <3>3, <3>4, <3>5
  <2>6. QED
    BY <2>4, <2>5
<1>8. QED
  BY <1>5, <1>6, <1>7 DEF CountInv

\* A call that is abandoned: what it was told and could not record is owed.
LEMMA DropKeepsCount ==
    ASSUME LeaseInv, CountInv, CollabTypeOK, CollabTypeOK', NEW s \in Senders, Drop(s)
    PROVE  LeaseInv' /\ CountInv'
<1>. PICK e : e = sender[s].at
  OBVIOUS
<1>1. /\ sender'[s] = Resting /\ \A t \in Senders \ {s} : sender'[t] = sender[t]
      /\ UNCHANGED <<item, late>> /\ leased' = leased \ ({s} \X Items)
  BY DEF Drop, CollabTypeOK
<1>2. \A t \in Senders, f \in Items :
        /\ Leases(t, f)' <=> Leases(t, f) /\ t # s
        /\ t # s => (Holds(t, f)' <=> Holds(t, f)) /\ (Told(t, f)' <=> Told(t, f))
        /\ ~Holds(s, f)' /\ ~Told(s, f)'
  BY <1>1 DEF Leases, Holds, Told, Resting
<1>3. LeaseInv'
  <2>1. \A t \in Senders, f \in Items : Leases(t, f)' => LeaseOK(t, f)'
    BY <1>1, <1>2 DEF LeaseInv, LeaseOK
  <2>2. QED
    BY <1>1, <2>1, LeaseKept
<1>4. ASSUME NEW f \in Items
      PROVE  /\ late'[f] = late[f] /\ owed[f] \in Nat /\ late[f] \in Nat /\ made[f] \in Nat
             /\ \/ made'[f] = made[f] /\ owed'[f] = owed[f] /\ ~Told(s, f)
                \/ made'[f] = made[f] /\ owed'[f] = owed[f] + 1 /\ Told(s, f)
                \/ made'[f] = made[f] + 1 /\ owed'[f] = owed[f] + 1 /\ ~Told(s, f)
  <2>1. late'[f] = late[f] /\ owed[f] \in Nat /\ late[f] \in Nat /\ made[f] \in Nat
    BY <1>1, CountsTyped
  <2>2. \/ /\ e # NoItem /\ sender[s].stage = "post"
           /\ made' = [made EXCEPT ![e] = @ + 1]
           /\ owed' = [owed EXCEPT ![e] = @ + 1]
        \/ /\ made' = made
           /\ owed' = IF \/ e # NoItem /\ sender[s].stage = "ok"
                         \/ e \in Creations /\ sender[s].stage = "blank"
                      THEN [owed EXCEPT ![e] = @ + 1] ELSE owed
    BY DEF Drop
  <2>3. Told(s, f) <=> /\ e = f
                       /\ \/ e # NoItem /\ sender[s].stage = "ok"
                          \/ e \in Creations /\ sender[s].stage = "blank"
    BY DEF Told
  <2>4. CASE f = e
    BY <2>1, <2>2, <2>3, <2>4 DEF CollabTypeOK
  <2>5. CASE f # e
    BY <2>1, <2>2, <2>3, <2>5 DEF CollabTypeOK
  <2>6. QED
    BY <2>4, <2>5
<1>5. ASSUME NEW f \in Items PROVE CountOK(f)'
  <2>1. Adrift(f)' \subseteq Adrift(f)
    BY <1>2, AdriftHas
  <2>2. Cardinality(Adrift(f)') <= Cardinality(Adrift(f))
    BY <2>1, AdriftCounted, SendersCounted
  <2>3. Told(s, f) \/ Credit(f)' <= Credit(f)
    <3>1. \A t \in Senders : Leases(t, f) /\ Told(t, f) => Told(s, f) \/ (Leases(t, f)' /\ Told(t, f)')
      BY <1>2
    <3>2. QED
      BY <1>1, <3>1, AdriftCounted DEF Credit
  <2>4. CASE made'[f] = made[f] + 1
    <3>1. owed'[f] = owed[f] + 1 /\ Credit(f)' <= Credit(f)
      BY <1>4, <2>3, <2>4
    <3>2. QED
      BY <1>4, <2>2, <2>4, <3>1, AdriftCounted, CountOfItem DEF CountInv
  <2>5. CASE made'[f] = made[f]
    <3>1. made'[f] = made[f] + 0 /\ owed'[f] + Credit(f) >= owed[f] + Credit(f)'
      BY <1>4, <2>3, <2>5, AdriftCounted
    <3>2. owed'[f] \in Nat
      BY <1>4
    <3>3. QED
      BY <1>4, <2>2, <3>1, <3>2, AdriftCounted, CountOfItem DEF CountInv
  <2>6. QED
    BY <1>4, <2>4, <2>5
<1>6. QED
  BY <1>3, <1>5 DEF CountInv

\* A tick: a lease that runs out leaves its sender adrift, and is counted.
LEMMA TickKeepsCount ==
    ASSUME LeaseInv, CountInv, CollabTypeOK, CollabTypeOK', CollabTick
    PROVE  LeaseInv' /\ CountInv'
<1> DEFINE Ends(e) == /\ item[e].status = "SENDING" /\ item[e].age = SendLease
                      /\ \E s \in Senders : <<s, e>> \in leased
<1>1. /\ UNCHANGED <<sender, made, owed>>
      /\ leased' = leased \ (Senders \X {e \in Items : Ends(e)})
      /\ \A e \in Items : late'[e] = IF Ends(e) THEN late[e] + 1 ELSE late[e]
  BY DEF CollabTick
<1>2. \A s \in Senders, e \in Items :
        /\ Leases(s, e)' <=> Leases(s, e) /\ ~Ends(e)
        /\ Holds(s, e)' <=> Holds(s, e)
        /\ Told(s, e)' <=> Told(s, e)
  BY <1>1 DEF Leases, Holds, Told
<1>3. ASSUME NEW s \in Senders, NEW e \in Items, Leases(s, e)'
      PROVE  LeaseOK(s, e)'
  <2>1. Leases(s, e) /\ LeaseOK(s, e)
    BY <1>2, <1>3 DEF LeaseInv
  <2>2. item[e].age # SendLease
    BY <1>2, <1>3, <2>1 DEF LeaseOK, Leases
  <2>3. item'[e].status = item[e].status /\ item'[e].age <= item[e].age + 1
    BY TickRows
  <2>4. item[e].age \in Nat /\ item'[e].age \in Nat
    BY ItemColumn DEF CollabTypeOK
  <2>5. QED
    BY <1>2, <2>1, <2>2, <2>3, <2>4 DEF LeaseOK
<1>4. LeaseInv'
  BY <1>1, <1>3, LeaseKept
<1>5. ASSUME NEW e \in Items PROVE CountOK(e)'
  <2>1. CASE ~Ends(e)
    <3>1. item'[e].status = item[e].status /\ late'[e] = late[e]
      BY <1>1, <2>1, TickRows
    <3>2. \A s \in Senders : /\ Holds(s, e)' <=> Holds(s, e)
                             /\ Told(s, e)' <=> Told(s, e)
                             /\ Leases(s, e)' <=> Leases(s, e)
      BY <1>2, <2>1
    <3> HIDE DEF Ends
    <3>3. QED
      BY <1>1, <3>1, <3>2, CountSame DEF CountInv
  <2>2. CASE Ends(e)
    <3>1. PICK s \in Senders : Leases(s, e)
      BY <2>2 DEF Leases
    <3>2. \A t \in Senders : Leases(t, e) <=> t = s
      BY <3>1 DEF LeaseInv
    <3>3. /\ late'[e] = late[e] + 1 /\ made'[e] = made[e] + 0 /\ owed'[e] = owed[e]
          /\ owed[e] \in Nat /\ late[e] \in Nat
      BY <1>1, <2>2, CountsTyped
    <3>4. Credit(e) = IF Told(s, e) THEN 0 ELSE 1
      BY <3>1, LeasedCredit
    <3>5. CASE Told(s, e)
      <4>1. Adrift(e)' \subseteq Adrift(e)
        BY <1>2, <3>2, <3>5, AdriftHas
      <4>2. Cardinality(Adrift(e)') <= Cardinality(Adrift(e))
        BY <4>1, AdriftCounted, SendersCounted
      <4> HIDE DEF Ends
      <4>3. QED
        BY <3>3, <4>2, AdriftCounted, CountOfItem DEF CountInv
    <3>6. CASE ~Told(s, e)
      <4>1. Adrift(e)' \subseteq Adrift(e) \cup {s} /\ Adrift(e) \cup {s} \in SUBSET Senders
        BY <1>2, <3>2, AdriftHas
      <4>2. /\ Cardinality(Adrift(e)') <= Cardinality(Adrift(e) \cup {s})
            /\ Cardinality(Adrift(e) \cup {s}) <= Cardinality(Adrift(e)) + 1
            /\ Cardinality(Adrift(e) \cup {s}) \in Nat
        BY <4>1, AdriftCounted, SendersCounted
      <4>3. Credit(e) = 1
        BY <3>4, <3>6
      <4> HIDE DEF Ends
      <4>4. QED
        BY <3>3, <4>2, <4>3, AdriftCounted, CountOfItem DEF CountInv
    <3>7. QED
      BY <3>5, <3>6
  <2>3. QED
    BY <2>1, <2>2
<1>6. QED
  BY <1>4, <1>5 DEF CountInv

LEMMA NextKeepsCount ==
    ASSUME LeaseInv, CountInv, CollabTypeOK, [CollabNext]_collabVars
    PROVE  LeaseInv' /\ CountInv'
<1>1. CollabTypeOK'
  BY CollabNextTyped
<1>2. ASSUME NEW n \in Items, item[n].status \in {"NEW", "FAILED"},
             \/ item' = [item EXCEPT ![n].status = "PENDING"]
             \/ item[n].run < MaxRequeues /\ item' = [item EXCEPT ![n] = Requeued(@)]
      PROVE  item'[n].status # "DELIVERED" /\ \A e \in Items \ {n} : item'[e] = item[e]
  <2>1. item[n] \in ItemRow /\ "PENDING" \in ItemStatus
    BY DEF CollabTypeOK, ItemStatus
  <2>2. [item[n] EXCEPT !.status = "PENDING"].status = "PENDING"
    BY <2>1, ItemColumn
  <2>3. item[n].run < MaxRequeues => Requeued(item[n]).status = "PENDING"
    BY <2>1, RequeuedItem
  <2>4. QED
    BY <1>2, <2>2, <2>3 DEF CollabTypeOK
<1>3. ASSUME NEW n \in Notices, Announce(n) PROVE LeaseInv' /\ CountInv'
  BY <1>1, <1>2, <1>3, TableKeepsCount DEF Announce, history
<1>4. ASSUME NEW f \in Creations, QueueCreate(f) PROVE LeaseInv' /\ CountInv'
  BY <1>1, <1>2, <1>4, TableKeepsCount DEF QueueCreate, history
<1>5. ASSUME NEW s \in Senders, NEW e \in Items, Send(s, e) \/ Refuse(s, e) \/ Skip(s, e)
      PROVE  LeaseInv' /\ CountInv'
  BY <1>1, <1>5, PicksKeepsCount DEF Send, Refuse, Skip, CollabAssumption
<1>6. ASSUME NEW s \in Senders, SenderStep(s) PROVE LeaseInv' /\ CountInv'
  BY <1>1, <1>5, <1>6, ReplyKeepsCount, RecordKeepsCount, LinkKeepsCount DEF SenderStep
<1>7. ASSUME NEW s \in Senders, Claim(s) \/ Drop(s) PROVE LeaseInv' /\ CountInv'
  BY <1>1, <1>7, ClaimKeepsCount, DropKeepsCount
<1>8. CASE UNCHANGED collabVars
  BY <1>8 DEF collabVars, history, LeaseInv, LeaseOK, Leases, Holds, Told,
              CountInv, CountOK, Credit, Adrift
<1>9. QED
  BY <1>1, <1>3, <1>4, <1>6, <1>7, <1>8, TickKeepsCount DEF CollabNext

\* claim_due_collaboration_events, record_collaboration_delivery and
\* queue_jira_issue_create, for any number of events, senders and requeues and
\* whatever the lease, the batch and the requests take: an event is made a
\* second time only for a success that was not recorded or for a lease that ran
\* out under its sender, and then once for each of them.
THEOREM OwedOnly == CollabSpec => []IssuesOwed
<1>1. CollabInit => LeaseInv /\ CountInv
  <2> SUFFICES ASSUME CollabInit PROVE LeaseInv /\ CountInv
    OBVIOUS
  <2>1. \A s \in Senders, e \in Items : ~Leases(s, e) /\ ~Holds(s, e) /\ ~Told(s, e)
    BY DEF CollabInit, Leases, Holds, Told, Resting
  <2>2. ASSUME NEW e \in Items PROVE CountOK(e)
    <3>1. Adrift(e) = {} /\ Credit(e) \in {0, 1} /\ made[e] = 0 /\ owed[e] = 0 /\ late[e] = 0
      BY <2>1 DEF Adrift, Credit, CollabInit
    <3>2. Cardinality(Adrift(e)) = 0
      BY <3>1, FS_EmptySet
    <3>3. QED
      BY <3>1, <3>2 DEF CountOK
  <2>3. QED
    BY <2>1, <2>2 DEF LeaseInv, CountInv
<1>2. CollabTypeOK /\ LeaseInv /\ CountInv /\ [CollabNext]_collabVars => LeaseInv' /\ CountInv'
  BY NextKeepsCount
<1>3. CollabTypeOK /\ CountInv => IssuesOwed
  <2> SUFFICES ASSUME CollabTypeOK, CountInv, NEW e \in Items
               PROVE  made[e] <= 1 + owed[e] + late[e]
    BY DEF IssuesOwed
  <2>1. CountOK(e)
    BY DEF CountInv
  <2>2. QED
    BY <2>1, CountsTyped, AdriftCounted DEF CountOK
<1>4. QED
  BY <1>1, <1>2, <1>3, CollabTyped, PTL DEF CollabSpec

-----------------------------------------------------------------------------
(* Delivered creations and their links. *)

Linking(s, f) == sender[s].at = f /\ sender[s].stage = "link"

LEMMA LinkedKept ==
    ASSUME DeliveredIsLinked, linked \subseteq linked', orphans \subseteq orphans',
           \A f \in Creations : item'[f].status = "DELIVERED" => item[f].status = "DELIVERED",
           \A f \in Creations : \A s \in Senders :
               Linking(s, f) => Linking(s, f)' \/ f \in linked' \/ f \in orphans'
    PROVE  DeliveredIsLinked'
BY DEF DeliveredIsLinked, Linking

LEMMA RecordKeepsLinked ==
    ASSUME DeliveredIsLinked, CollabTypeOK, NEW s \in Senders, RecordOutcome(s)
    PROVE  DeliveredIsLinked'
<1>. PICK e : e = sender[s].at
  BY Zenon
<1>1. e \in Items /\ e # NoItem /\ sender[s].stage \in {"ok", "blank", "retry", "fail"}
      /\ linked' = linked /\ orphans \subseteq orphans'
      /\ (sender[s].stage = "blank" /\ e \in Creations => e \in orphans')
  BY OutcomeRows DEF RecordOutcome
<1>2. ASSUME NEW f \in Creations, f # e, item'[f].status = "DELIVERED"
      PROVE  f \in linked' \/ f \in orphans' \/ \E t \in Senders : Linking(t, f)'
  <2>1. item'[f] = item[f] /\ \A t \in Senders \ {s} : sender'[t] = sender[t]
    BY <1>2, OutcomeRows DEF CollabTypeOK
  <2>2. QED
    BY <1>1, <1>2, <2>1 DEF DeliveredIsLinked, Linking
<1>3. ASSUME e \in Creations, item'[e].status = "DELIVERED"
      PROVE  e \in orphans' \/ Linking(s, e)'
  <2>1. sender[s].stage \in {"ok", "blank"}
    BY <1>3, OutcomeRows
  <2>2. CASE sender[s].stage = "ok"
    <3>1. sender' = [sender EXCEPT ![s] = [sender[s] EXCEPT !.stage = "link"]]
      BY <1>3, <2>2, OutcomeRows DEF LinksNext
    <3>2. sender'[s].at = e /\ sender'[s].stage = "link"
      BY <3>1, SenderTyped DEF CollabTypeOK, SenderRow
    <3>3. QED
      BY <3>2 DEF Linking
  <2>3. QED
    BY <1>1, <1>3, <2>1, <2>2
<1>4. QED
  BY <1>2, <1>3 DEF DeliveredIsLinked, Linking

LEMMA NextKeepsLinked ==
    ASSUME DeliveredIsLinked, CollabTypeOK, [CollabNext]_collabVars
    PROVE  DeliveredIsLinked'
<1> DEFINE OnceDelivered == \A f \in Creations : item'[f].status = "DELIVERED" => item[f].status = "DELIVERED"
           StaysLinked == \A f \in Creations : \A s \in Senders :
                             Linking(s, f) => Linking(s, f)' \/ f \in linked' \/ f \in orphans'
<1>1. ASSUME NEW n \in Notices, Announce(n) PROVE DeliveredIsLinked'
  <2>1. OnceDelivered
    BY <1>1 DEF Announce, CollabTypeOK, history
  <2>2. QED
    BY <1>1, <2>1, LinkedKept DEF Announce, Linking, history
<1>2. ASSUME NEW f \in Creations, QueueCreate(f) PROVE DeliveredIsLinked'
  <2>1. PICK u : u.status = "PENDING" /\ item' = [item EXCEPT ![f] = u]
    <3>1. item[f] \in ItemRow
      BY DEF CollabTypeOK
    <3>2. [item[f] EXCEPT !.status = "PENDING"].status = "PENDING"
      BY <3>1, ItemColumn DEF ItemStatus
    <3>3. item[f].run < MaxRequeues => Requeued(item[f]).status = "PENDING"
      BY <3>1, RequeuedItem
    <3>4. QED
      BY <1>2, <3>2, <3>3 DEF QueueCreate, history
  <2>2. OnceDelivered
    BY <2>1 DEF CollabTypeOK
  <2>3. QED
    BY <1>2, <2>2, LinkedKept DEF QueueCreate, Linking, history
<1>3. ASSUME NEW s \in Senders, Claim(s) PROVE DeliveredIsLinked'
  <2>1. PICK S \in Claims \ {{}} :
          /\ item' = [e \in Items |->
                IF e \in S THEN [Returned[e] EXCEPT !.status = "SENDING", !.age = 0] ELSE Returned[e]]
          /\ sender' = [sender EXCEPT ![s].todo = S]
    BY <1>3 DEF Claim
  <2>2. OnceDelivered
    <3>1. \A f \in Creations : f \in S => item'[f].status = "SENDING"
      BY <2>1, ReturnedRows, ClaimedItem
    <3>2. QED
      BY <2>1, <3>1, ReturnedRows
  <2>3. StaysLinked
    BY <2>1, SenderTyped, ZenonT(40) DEF Linking, CollabTypeOK, SenderRow
  <2>4. QED
    BY <1>3, <2>2, <2>3, LinkedKept DEF Claim
<1>4. ASSUME NEW s \in Senders, NEW e \in Items, NEW g \in {"post", "fail", "blank"}, Picks(s, e, g)
      PROVE  DeliveredIsLinked'
  <2>1. StaysLinked
    BY <1>4 DEF Picks, Linking, CollabTypeOK, history
  <2>2. QED
    BY <1>4, <2>1, LinkedKept DEF Picks, history
<1>5. ASSUME NEW s \in Senders, Link(s) PROVE DeliveredIsLinked'
  <2>1. StaysLinked
    BY <1>5 DEF Link, Linking, CollabTypeOK, history
  <2>2. QED
    BY <1>5, <2>1, LinkedKept DEF Link, history
<1>6. ASSUME NEW s \in Senders, Reply(s) PROVE DeliveredIsLinked'
  <2>1. StaysLinked
    BY <1>6, SenderTyped DEF Reply, Linking, CollabTypeOK, SenderRow
  <2>2. QED
    BY <1>6, <2>1, LinkedKept DEF Reply
<1>7. ASSUME NEW s \in Senders, Drop(s) PROVE DeliveredIsLinked'
  <2>1. StaysLinked
    BY <1>7 DEF Drop, Linking, CollabTypeOK, history
  <2>2. QED
    BY <1>7, <2>1, LinkedKept DEF Drop, history
<1>8. ASSUME NEW s \in Senders, SenderStep(s) PROVE DeliveredIsLinked'
  BY <1>4, <1>5, <1>6, <1>8, RecordKeepsLinked DEF SenderStep, Send, Refuse, Skip
<1>9. CASE CollabTick
  <2>1. OnceDelivered
    BY <1>9, TickRows
  <2>2. StaysLinked
    BY <1>9 DEF CollabTick, Linking
  <2>3. QED
    BY <1>9, <2>1, <2>2, LinkedKept DEF CollabTick
<1>10. CASE UNCHANGED collabVars
  BY <1>10, LinkedKept DEF collabVars, Linking, history
<1>11. QED
  BY <1>1, <1>2, <1>3, <1>7, <1>8, <1>9, <1>10 DEF CollabNext

\* deliver_collaboration_events records a delivery in one transaction and its
\* link in the next: no creation is ever delivered, without a link, with nobody
\* about to write it, unless its answer named no issue or a call died between.
THEOREM LinksFollow == CollabSpec => []DeliveredIsLinked
<1>1. CollabInit => DeliveredIsLinked
  BY DEF CollabInit, DeliveredIsLinked, NewItem
<1>2. QED
  BY <1>1, CollabTyped, NextKeepsLinked, PTL DEF CollabSpec
=============================================================================
