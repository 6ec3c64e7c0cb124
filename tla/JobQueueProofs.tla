--------------------------- MODULE JobQueueProofs ---------------------------
(***************************************************************************)
(* The job queue for every number of jobs, workers, keys, attempts, ticks  *)
(* and operator retries.  First the safety of the table: its invariant is  *)
(* one of rows (RowOK), kept by every row update, and one between rows and *)
(* receipts.  Then what one step may do to a row, which gives the life     *)
(* cycle of a job; last the worker loops and their threads, that settle    *)
(* the attempts they claimed, apply an import once, and while they are on  *)
(* time never execute a job twice at a time.                               *)
(***************************************************************************)
EXTENDS JobWorker, TLAPS

\* What every row satisfies.
RowOK(r) ==
    /\ r \in Row
    /\ r.status = "RUNNING" <=> r.owner # NoWorker
    /\ r.status = "RUNNING" => r.attempts > 0
    /\ r.status \in Waiting => r.attempts < MaxAttempts /\ ~r.cancel
    /\ r.cancel => r.status \in {"RUNNING", "CANCELLED"}

RowsOK == \A j \in Jobs : RowOK(job[j])

Shape ==
    /\ job \in [Jobs -> Row]
    /\ receipts \in [Jobs -> Seq(Receipt)]
    /\ replayed \subseteq Jobs \X Nat
    /\ era \in Nat

\* The receipts a worker wrote are all about attempts that are over.
Over(a, r) ==
    \/ a.run < r.run
    \/ /\ a.run = r.run
       /\ a.attempt < r.attempts \/ (a.attempt = r.attempts /\ r.status # "RUNNING")

ReceiptsBehind ==
    \A j \in Jobs :
        /\ job[j].status = "NEW" => receipts[j] = <<>>
        /\ job[j].status # "GONE" =>
              \A n \in DOMAIN receipts[j] :
                  receipts[j][n].by # NoWorker => Over(receipts[j][n], job[j])

QueueInv == Shape /\ RowsOK /\ ReceiptsBehind /\ OneReceiptPerAttempt /\ OneActivePerKey

USE QueueAssumption DEF QueueAssumption, Waiting, Active, Dead, Terminal

-----------------------------------------------------------------------------
(* Row updates, field by field. *)

Status == Active \cup Terminal \cup {"NEW", "GONE"}

\* One column at a time, an update keeps the type of a row.
LEMMA SetColumn ==
    ASSUME NEW r \in Row
    PROVE  /\ \A st \in Status : [r EXCEPT !.status = st] \in Row
           /\ \A n \in 0..MaxAttempts : [r EXCEPT !.attempts = n] \in Row
           /\ \A b \in BOOLEAN : [r EXCEPT !.cancel = b] \in Row
           /\ \A w \in Workers \cup {NoWorker} : [r EXCEPT !.owner = w] \in Row
           /\ \A n \in -1..Lease : [r EXCEPT !.ttl = n] \in Row
           /\ \A n \in 0..MaxDelay : [r EXCEPT !.wait = n] \in Row
           /\ \A n \in 0..MaxRuns : [r EXCEPT !.run = n] \in Row
<1>1. \A st \in Status : [r EXCEPT !.status = st] \in Row
  BY DEF Row, Status
<1>2. \A n \in 0..MaxAttempts : [r EXCEPT !.attempts = n] \in Row
  BY DEF Row
<1>3. \A b \in BOOLEAN : [r EXCEPT !.cancel = b] \in Row
  BY DEF Row
<1>4. \A w \in Workers \cup {NoWorker} : [r EXCEPT !.owner = w] \in Row
  BY DEF Row
<1>5. \A n \in -1..Lease : [r EXCEPT !.ttl = n] \in Row
  BY DEF Row
<1>6. \A n \in 0..MaxDelay : [r EXCEPT !.wait = n] \in Row
  BY DEF Row
<1>7. \A n \in 0..MaxRuns : [r EXCEPT !.run = n] \in Row
  BY DEF Row
<1>8. QED
  BY <1>1, <1>2, <1>3, <1>4, <1>5, <1>6, <1>7

\* What no row update below touches.
Kept(s, r) ==
    /\ s.attempts = r.attempts /\ s.cancel = r.cancel /\ s.run = r.run
    /\ s.key = r.key /\ s.prio = r.prio /\ s.born = r.born

\* Giving the lease back.
LEMMA UnleasedRow ==
    ASSUME NEW r \in Row, NEW st \in Status
    PROVE  /\ Unleased(r, st) \in Row
           /\ Unleased(r, st).status = st
           /\ Unleased(r, st).owner = NoWorker
           /\ Kept(Unleased(r, st), r)
<1> DEFINE a == [r EXCEPT !.status = st]
           b == [a EXCEPT !.owner = NoWorker]
<1>1. a \in Row
  BY SetColumn
<1> HIDE DEF a
<1>2. b \in Row
  BY <1>1, SetColumn
<1> HIDE DEF b
<1>3. [b EXCEPT !.ttl = 0] \in Row
  BY <1>2, SetColumn
<1>4. Unleased(r, st) \in Row
  BY <1>3 DEF Unleased, a, b
<1>5. QED
  BY <1>4 DEF Unleased, Row, Kept

\* The same, with a delay before the next attempt.
LEMMA DelayedRow ==
    ASSUME NEW r \in Row, NEW st \in Status, NEW d \in 0..MaxDelay
    PROVE  LET s == [Unleased(r, st) EXCEPT !.wait = d]
           IN  /\ s \in Row
               /\ s.status = st
               /\ s.owner = NoWorker
               /\ Kept(s, r)
<1> DEFINE u == Unleased(r, st)
<1>1. u \in Row /\ u.status = st /\ u.owner = NoWorker /\ Kept(u, r)
  BY UnleasedRow
<1> HIDE DEF u
<1>2. [u EXCEPT !.wait = d] \in Row
  BY <1>1, SetColumn
<1>3. /\ [u EXCEPT !.wait = d].status = st
      /\ [u EXCEPT !.wait = d].owner = NoWorker
      /\ Kept([u EXCEPT !.wait = d], r)
  BY <1>1, <1>2 DEF Row, Kept
<1>4. QED
  BY <1>2, <1>3 DEF u

\* The reap takes expired leases back and changes no other row.
LEMMA ReapRow ==
    ASSUME NEW r, RowOK(r)
    PROVE  /\ RowOK(Reap(r))
           /\ Kept(Reap(r), r)
           /\ Reap(r).status = r.status \/ (r.status = "RUNNING" /\ Reap(r).status \in Dead \cup {"RETRY"})
<1>0. r \in Row
  BY DEF RowOK
<1>1. CASE ~Expired(r)
  BY <1>0, <1>1 DEF Reap, Kept
<1>2. CASE Expired(r)
  <2> DEFINE st == IF r.cancel THEN "CANCELLED"
                   ELSE IF r.attempts >= MaxAttempts THEN "FAILED" ELSE "RETRY"
             s == [Unleased(r, st) EXCEPT !.wait = 0]
  <2>1. st \in Dead \cup {"RETRY"} /\ st \in Status
    BY DEF Status
  <2>2. s \in Row /\ s.status = st /\ s.owner = NoWorker /\ Kept(s, r)
    BY <1>0, <2>1, DelayedRow
  <2>3. Reap(r) = s
    BY <1>2 DEF Reap
  <2>4. st \in Waiting => ~r.cancel /\ ~(r.attempts >= MaxAttempts)
    OBVIOUS
  <2>5. r.cancel => st = "CANCELLED"
    OBVIOUS
  <2>6. r.attempts \in Nat /\ r.cancel \in BOOLEAN
    BY <1>0 DEF Row
  <2> HIDE DEF st, s
  <2>7. RowOK(s)
    BY <2>1, <2>2, <2>4, <2>5, <2>6 DEF RowOK, Kept
  <2>8. QED
    BY <1>2, <2>1, <2>2, <2>3, <2>7 DEF Expired
<1>3. QED
  BY <1>1, <1>2

\* What the rest of the row's life must respect: receipts stay about the past,
\* and only an insert or an operator retry may make a job active.
Forward(s, r) ==
    /\ s.status = "NEW" => r.status = "NEW"
    /\ s.status # "GONE" => r.status # "GONE"
    /\ s.status # "GONE" /\ r.status # "NEW" => \A a \in Receipt : Over(a, r) => Over(a, s)

Calm(s, r) == s.status \in Active => r.status \in Active /\ s.key = r.key

LEMMA KeptForward ==
    ASSUME NEW r \in Row, NEW s \in Row, Kept(s, r),
           s.status = r.status \/ (r.status \in Active /\ s.status \in Dead \cup {"RETRY", "SUCCEEDED"})
    PROVE  Forward(s, r) /\ Calm(s, r)
BY DEF Forward, Calm, Kept, Over

LEMMA SweepRow ==
    ASSUME NEW r, RowOK(r)
    PROVE  /\ RowOK(Sweep(r))
           /\ Kept(Sweep(r), r)
           /\ Forward(Sweep(r), r)
           /\ Calm(Sweep(r), r)
<1> DEFINE s == Reap(r)
           c == [s EXCEPT !.status = "CANCELLED"]
<1>1. /\ RowOK(s) /\ Kept(s, r)
      /\ s.status = r.status \/ (r.status = "RUNNING" /\ s.status \in Dead \cup {"RETRY"})
  BY ReapRow
<1>2. r \in Row /\ s \in Row
  BY <1>1 DEF RowOK
<1> HIDE DEF s
<1>3. CASE ~(s.status \in Waiting /\ s.cancel)
  <2>1. Sweep(r) = s
    BY <1>3 DEF Sweep, s
  <2>2. QED
    BY <1>1, <1>2, <2>1, KeptForward
<1>4. CASE s.status \in Waiting /\ s.cancel
  BY <1>1, <1>4 DEF RowOK
<1>5. QED
  BY <1>3, <1>4

LEMMA TakenRow ==
    ASSUME NEW r, RowOK(r), Eligible(r), NEW w \in Workers
    PROVE  RowOK(Taken(r, w)) /\ Forward(Taken(r, w), r) /\ Calm(Taken(r, w), r)
<1> DEFINE a == [r EXCEPT !.status = "RUNNING"]
           b == [a EXCEPT !.attempts = r.attempts + 1]
           c == [b EXCEPT !.owner = w]
           t == [c EXCEPT !.ttl = Lease]
<1>1. r \in Row /\ r.attempts + 1 \in 0..MaxAttempts /\ r.attempts \in Nat
  BY DEF RowOK, Row, Eligible
<1>2. a \in Row
  BY <1>1, SetColumn DEF Status
<1> HIDE DEF a
<1>3. b \in Row
  BY <1>1, <1>2, SetColumn
<1> HIDE DEF b
<1>4. c \in Row
  BY <1>3, SetColumn
<1> HIDE DEF c
<1>5. t \in Row
  BY <1>4, SetColumn
<1>6. t = Taken(r, w)
  BY <1>1 DEF Taken, a, b, c, Row
<1>7. /\ t.status = "RUNNING" /\ t.attempts = r.attempts + 1 /\ t.owner = w
      /\ t.cancel = r.cancel /\ t.run = r.run /\ t.key = r.key
  BY <1>1 DEF a, b, c, Row
<1> HIDE DEF t
<1>8. r.status \in Waiting /\ ~r.cancel
  BY DEF Eligible
<1>9. RowOK(t)
  BY <1>1, <1>5, <1>7, <1>8 DEF RowOK
<1>10. Forward(t, r) /\ Calm(t, r)
  <2>1. \A x \in Receipt : Over(x, r) => Over(x, t)
    BY <1>1, <1>7 DEF Over, Receipt
  <2>2. QED
    BY <1>7, <1>8, <2>1 DEF Forward, Calm
<1>11. QED
  BY <1>6, <1>9, <1>10

LEMMA ReopenedRow ==
    ASSUME NEW r, RowOK(r), r.status \in Dead, r.run < MaxRuns
    PROVE  /\ RowOK(Reopened(r)) /\ Forward(Reopened(r), r)
           /\ Reopened(r).key = r.key
<1> DEFINE u == Unleased(r, "PENDING")
           a == [u EXCEPT !.attempts = 0]
           b == [a EXCEPT !.cancel = FALSE]
           c == [b EXCEPT !.wait = 0]
           t == [c EXCEPT !.run = r.run + 1]
<1>1. r \in Row /\ r.run + 1 \in 0..MaxRuns /\ r.run \in Nat
  BY DEF RowOK, Row
<1>2. u \in Row /\ u.status = "PENDING" /\ u.owner = NoWorker /\ Kept(u, r)
  BY <1>1, UnleasedRow DEF Status
<1> HIDE DEF u
<1>3. a \in Row
  BY <1>2, SetColumn
<1> HIDE DEF a
<1>4. b \in Row
  BY <1>3, SetColumn
<1> HIDE DEF b
<1>5. c \in Row
  BY <1>4, SetColumn
<1> HIDE DEF c
<1>6. t \in Row
  BY <1>1, <1>5, SetColumn
<1>7. t = Reopened(r)
  BY <1>1, <1>2 DEF Reopened, a, b, c, u, Row, Kept
<1>8. /\ t.status = "PENDING" /\ t.attempts = 0 /\ t.owner = NoWorker
      /\ t.cancel = FALSE /\ t.run = r.run + 1 /\ t.key = r.key
  BY <1>2 DEF a, b, c, Row, Kept
<1> HIDE DEF t
<1>9. RowOK(t)
  BY <1>6, <1>8 DEF RowOK
<1>10. Forward(t, r)
  BY <1>1, <1>8 DEF Forward, Over, Receipt
<1>11. QED
  BY <1>7, <1>8, <1>9, <1>10

LEMMA BlankRow == Blank \in Row
BY DEF Blank, Row

\* The row an insert writes.
LEMMA InsertedRow ==
    ASSUME NEW k \in Keys \cup {NoKey}, NEW p \in Int, NEW b \in Nat
    PROVE  RowOK(Fresh(k, p, b)) /\ Fresh(k, p, b).status = "PENDING" /\ Fresh(k, p, b).key = k
<1> DEFINE a == [Blank EXCEPT !.status = "PENDING"]
           c == [a EXCEPT !.key = k]
           d == [c EXCEPT !.prio = p]
           s == [d EXCEPT !.born = b]
<1>1. a \in Row
  BY BlankRow, SetColumn DEF Status
<1> HIDE DEF a
<1>2. c \in Row
  BY <1>1 DEF Row
<1> HIDE DEF c
<1>3. d \in Row
  BY <1>2 DEF Row
<1> HIDE DEF d
<1>4. s \in Row
  BY <1>3 DEF Row
<1>5. /\ s.status = "PENDING" /\ s.attempts = 0 /\ s.cancel = FALSE
      /\ s.owner = NoWorker /\ s.key = k
  BY DEF a, c, d, Blank
<1>6. s = Fresh(k, p, b)
  BY DEF a, c, d, Blank, Fresh
<1> HIDE DEF s
<1>7. RowOK(s) /\ s.status = "PENDING" /\ s.key = k
  BY <1>4, <1>5 DEF RowOK
<1>8. QED
  BY <1>6, <1>7

\* A row deleted by retention.
LEMMA DeletedRow ==
    ASSUME NEW r
    PROVE  LET s == [Blank EXCEPT !.status = "GONE"]
           IN  RowOK(s) /\ Forward(s, r) /\ Calm(s, r)
<1> DEFINE s == [Blank EXCEPT !.status = "GONE"]
<1>1. s \in Row
  BY BlankRow, SetColumn DEF Status
<1>2. s.status = "GONE" /\ s.cancel = FALSE /\ s.owner = NoWorker
  BY DEF Blank
<1> HIDE DEF s
<1>3. RowOK(s) /\ Forward(s, r) /\ Calm(s, r)
  BY <1>1, <1>2 DEF RowOK, Forward, Calm
<1>4. QED
  BY <1>3 DEF s

\* Changes that leave status, attempts, cancellation, owner and run alone.
LEMMA SameRow ==
    ASSUME NEW r, NEW s \in Row, RowOK(r), Kept(s, r),
           s.status = r.status, s.owner = r.owner
    PROVE  RowOK(s) /\ Forward(s, r) /\ Calm(s, r)
<1>1. r \in Row
  BY DEF RowOK
<1>2. Forward(s, r) /\ Calm(s, r)
  BY <1>1, KeptForward
<1>3. QED
  BY <1>2 DEF RowOK, Kept

LEMMA RenewedRow ==
    ASSUME NEW r, RowOK(r)
    PROVE  LET s == [r EXCEPT !.ttl = Lease] IN RowOK(s) /\ Forward(s, r) /\ Calm(s, r)
<1> DEFINE s == [r EXCEPT !.ttl = Lease]
<1>1. r \in Row /\ s \in Row
  BY SetColumn DEF RowOK
<1>2. Kept(s, r) /\ s.status = r.status /\ s.owner = r.owner
  BY <1>1 DEF Kept, Row
<1> HIDE DEF s
<1>3. RowOK(s) /\ Forward(s, r) /\ Calm(s, r)
  BY <1>1, <1>2, SameRow
<1>4. QED
  BY <1>3 DEF s

LEMMA TickedRow ==
    ASSUME NEW r, RowOK(r)
    PROVE  LET s == [r EXCEPT !.ttl  = IF r.status = "RUNNING" /\ @ >= 0 THEN @ - 1 ELSE @,
                              !.wait = IF @ > 0 THEN @ - 1 ELSE @]
           IN  RowOK(s) /\ Forward(s, r) /\ Calm(s, r)
<1> DEFINE n == IF r.status = "RUNNING" /\ r.ttl >= 0 THEN r.ttl - 1 ELSE r.ttl
           d == IF r.wait > 0 THEN r.wait - 1 ELSE r.wait
           a == [r EXCEPT !.ttl = n]
           s == [a EXCEPT !.wait = d]
<1>1. r \in Row /\ n \in -1..Lease /\ d \in 0..MaxDelay
  BY DEF RowOK, Row
<1>2. s = [r EXCEPT !.ttl  = IF r.status = "RUNNING" /\ @ >= 0 THEN @ - 1 ELSE @,
                    !.wait = IF @ > 0 THEN @ - 1 ELSE @]
  BY <1>1 DEF a, Row
<1> HIDE DEF n, d
<1>3. a \in Row
  BY <1>1, SetColumn
<1>4. a.status = r.status /\ a.owner = r.owner /\ Kept(a, r)
  BY <1>1 DEF Row, Kept
<1> HIDE DEF a
<1>5. s \in Row
  BY <1>1, <1>3, SetColumn
<1>6. s.status = r.status /\ s.owner = r.owner /\ Kept(s, r)
  BY <1>3, <1>4 DEF Row, Kept
<1> HIDE DEF s
<1>7. RowOK(s) /\ Forward(s, r) /\ Calm(s, r)
  BY <1>1, <1>5, <1>6, SameRow
<1>8. QED
  BY <1>2, <1>7

\* The end of an execution: nothing changes but status, lease and delay.
LEMMA EndedRow ==
    ASSUME NEW r, RowOK(r), r.status \in Active, NEW s \in Row, Kept(s, r),
           s.owner = NoWorker, s.status \in Dead \cup {"RETRY", "SUCCEEDED"},
           s.cancel => s.status = "CANCELLED",
           s.status = "RETRY" => s.attempts < MaxAttempts
    PROVE  RowOK(s) /\ Forward(s, r) /\ Calm(s, r)
<1>1. r \in Row
  BY DEF RowOK
<1>2. Forward(s, r) /\ Calm(s, r)
  BY <1>1, KeptForward
<1>3. QED
  BY <1>2 DEF RowOK

\* An accepted cancellation: a waiting job ends, a running one is marked.
LEMMA CancelledRow ==
    ASSUME NEW r, RowOK(r), r.status \in Active
    PROVE  LET s == IF r.status \in Waiting
                    THEN [[r EXCEPT !.cancel = TRUE] EXCEPT !.status = "CANCELLED"]
                    ELSE [r EXCEPT !.cancel = TRUE]
           IN  /\ RowOK(s) /\ Forward(s, r) /\ Calm(s, r)
               /\ s.run = r.run /\ s.attempts = r.attempts
<1> DEFINE a == [r EXCEPT !.cancel = TRUE]
           b == [a EXCEPT !.status = "CANCELLED"]
<1>1. r \in Row /\ a \in Row
  BY SetColumn DEF RowOK
<1>2. /\ a.status = r.status /\ a.owner = r.owner /\ a.cancel = TRUE
      /\ a.attempts = r.attempts /\ a.run = r.run /\ a.key = r.key
  BY <1>1 DEF Row
<1> HIDE DEF a
<1>3. b \in Row
  BY <1>1, SetColumn DEF Status
<1>4. /\ b.status = "CANCELLED" /\ b.owner = r.owner /\ b.cancel = TRUE
      /\ b.attempts = r.attempts /\ b.run = r.run /\ b.key = r.key
  BY <1>1, <1>2 DEF Row
<1> HIDE DEF b
<1>5. CASE r.status \in Waiting
  <2>1. RowOK(b)
    BY <1>3, <1>4, <1>5 DEF RowOK
  <2>2. Forward(b, r) /\ Calm(b, r)
    BY <1>4, <1>5 DEF Forward, Calm, Over
  <2>3. QED
    BY <1>4, <1>5, <2>1, <2>2 DEF a, b
<1>6. CASE r.status = "RUNNING"
  <2>1. RowOK(a)
    BY <1>1, <1>2, <1>6 DEF RowOK
  <2>2. Forward(a, r) /\ Calm(a, r)
    BY <1>2, <1>6 DEF Forward, Calm, Over
  <2>3. QED
    BY <1>2, <1>6, <2>1, <2>2 DEF a, b
<1>7. QED
  BY <1>5, <1>6

-----------------------------------------------------------------------------
(* Steps of the table. *)

\* A step that writes no receipt keeps everything said about receipts.
LEMMA NoReceiptStep ==
    ASSUME QueueInv, receipts' = receipts, job' \in [Jobs -> Row],
           \A j \in Jobs : Forward(job'[j], job[j])
    PROVE  ReceiptsBehind' /\ OneReceiptPerAttempt'
<1>1. OneReceiptPerAttempt'
  BY DEF QueueInv, OneReceiptPerAttempt
<1>2. ASSUME NEW j \in Jobs
      PROVE  /\ job'[j].status = "NEW" => receipts'[j] = <<>>
             /\ job'[j].status # "GONE" =>
                   \A n \in DOMAIN receipts'[j] :
                       receipts'[j][n].by # NoWorker => Over(receipts'[j][n], job'[j])
  <2>1. receipts[j] \in Seq(Receipt)
    BY DEF QueueInv, Shape
  <2>2. \A n \in DOMAIN receipts[j] : receipts[j][n] \in Receipt
    BY <2>1
  <2>3. Forward(job'[j], job[j])
    OBVIOUS
  <2>4. job[j].status = "NEW" => receipts[j] = <<>>
    BY DEF QueueInv, ReceiptsBehind
  <2>5. job[j].status # "GONE" =>
            \A n \in DOMAIN receipts[j] :
                receipts[j][n].by # NoWorker => Over(receipts[j][n], job[j])
    BY DEF QueueInv, ReceiptsBehind
  <2>6. CASE job[j].status = "NEW"
    BY <2>3, <2>4, <2>6 DEF Forward
  <2>7. CASE job[j].status # "NEW"
    <3>1. job'[j].status # "NEW"
      BY <2>3, <2>7 DEF Forward
    <3>2. ASSUME job'[j].status # "GONE", NEW n \in DOMAIN receipts[j],
                 receipts[j][n].by # NoWorker
          PROVE  Over(receipts[j][n], job'[j])
      <4>1. Over(receipts[j][n], job[j])
        BY <2>3, <2>5, <3>2 DEF Forward
      <4>2. QED
        BY <2>2, <2>3, <2>7, <3>2, <4>1 DEF Forward
    <3>3. QED
      BY <3>1, <3>2
  <2>8. QED
    BY <2>6, <2>7
<1>3. ReceiptsBehind'
  BY <1>2 DEF ReceiptsBehind
<1>4. QED
  BY <1>1, <1>3

LEMMA Counts ==
    /\ \A r \in Row : r.attempts \in Nat /\ r.run \in Nat
    /\ \A a \in Receipt : a.attempt \in Nat /\ a.run \in Nat
BY DEF Row, Receipt

\* A step that writes one receipt: a worker's receipt ends the attempt it is
\* about, so no earlier receipt can be about the same attempt.
LEMMA ReceiptStep ==
    ASSUME QueueInv, NEW x \in Jobs, NEW a \in Receipt,
           receipts' = [receipts EXCEPT ![x] = Append(receipts[x], a)],
           job' \in [Jobs -> Row],
           \A j \in Jobs : Forward(job'[j], job[j]),
           job[x].status \in Active,
           a.by # NoWorker => /\ job[x].status = "RUNNING"
                              /\ a.run = job[x].run /\ a.attempt = job[x].attempts
                              /\ Over(a, job'[x])
    PROVE  /\ receipts' \in [Jobs -> Seq(Receipt)]
           /\ ReceiptsBehind' /\ OneReceiptPerAttempt'
<1>1. receipts \in [Jobs -> Seq(Receipt)]
  BY DEF QueueInv, Shape
<1>2. /\ \A j \in Jobs : receipts[j] \in Seq(Receipt)
      /\ \A j \in Jobs \ {x} : receipts'[j] = receipts[j]
      /\ receipts'[x] = Append(receipts[x], a)
  BY <1>1
<1> DEFINE len == Len(receipts[x])
<1>3. /\ len \in Nat /\ DOMAIN receipts[x] = 1..len
      /\ DOMAIN receipts'[x] = 1..(len + 1)
      /\ receipts'[x][len + 1] = a
      /\ \A n \in 1..len : receipts'[x][n] = receipts[x][n] /\ receipts[x][n] \in Receipt
  BY <1>2
<1> HIDE DEF len
<1>4. receipts' \in [Jobs -> Seq(Receipt)]
  BY <1>1
<1>5. \A n \in DOMAIN receipts[x] :
          receipts[x][n].by # NoWorker => Over(receipts[x][n], job[x])
  BY DEF QueueInv, ReceiptsBehind
<1>6. ReceiptsBehind'
  <2>1. ASSUME NEW j \in Jobs
        PROVE  /\ job'[j].status = "NEW" => receipts'[j] = <<>>
               /\ job'[j].status # "GONE" =>
                     \A n \in DOMAIN receipts'[j] :
                         receipts'[j][n].by # NoWorker => Over(receipts'[j][n], job'[j])
    <3>1. Forward(job'[j], job[j])
      OBVIOUS
    <3>2. CASE job[j].status = "NEW"
      <4>1. j # x
        BY <3>2
      <4>2. receipts'[j] = <<>>
        BY <1>2, <3>2, <4>1 DEF QueueInv, ReceiptsBehind
      <4>3. QED
        BY <4>2
    <3>3. CASE job[j].status # "NEW"
      <4>1. job'[j].status # "NEW"
        BY <3>1, <3>3 DEF Forward
      <4>2. ASSUME job'[j].status # "GONE", NEW n \in DOMAIN receipts'[j],
                   receipts'[j][n].by # NoWorker
            PROVE  Over(receipts'[j][n], job'[j])
        <5>1. job[j].status # "GONE"
          BY <3>1, <4>2 DEF Forward
        <5>2. \A b \in Receipt : Over(b, job[j]) => Over(b, job'[j])
          BY <3>1, <3>3, <4>2 DEF Forward
        <5>3. CASE j # x
          <6>1. receipts'[j] = receipts[j]
            BY <1>2, <5>3
          <6>2. receipts[j][n] \in Receipt
            <7>1. receipts[j] \in Seq(Receipt) /\ n \in DOMAIN receipts[j]
              BY <1>2, <6>1
            <7>2. QED
              BY <7>1
          <6>3. Over(receipts[j][n], job[j])
            BY <4>2, <5>1, <6>1 DEF QueueInv, ReceiptsBehind
          <6>4. QED
            BY <5>2, <6>1, <6>2, <6>3
        <5>4. CASE j = x /\ n = len + 1
          BY <1>3, <4>2, <5>4
        <5>5. CASE j = x /\ n # len + 1
          <6>1. n \in 1..len
            BY <1>3, <4>2, <5>5
          <6>2. Over(receipts[x][n], job[x])
            BY <1>3, <1>5, <4>2, <5>5, <6>1
          <6>3. QED
            BY <1>3, <5>2, <5>5, <6>1, <6>2
        <5>6. QED
          BY <5>3, <5>4, <5>5
      <4>3. QED
        BY <4>1, <4>2
    <3>4. QED
      BY <3>2, <3>3
  <2>2. QED
    BY <2>1 DEF ReceiptsBehind
<1>7. OneReceiptPerAttempt'
  <2>1. ASSUME NEW n \in 1..len, receipts[x][n].by # NoWorker, a.by # NoWorker
        PROVE  ~(receipts[x][n].run = a.run /\ receipts[x][n].attempt = a.attempt)
    <3>1. Over(receipts[x][n], job[x])
      BY <1>3, <1>5, <2>1
    <3>2. job[x] \in Row /\ receipts[x][n] \in Receipt
      BY <1>3 DEF QueueInv, Shape
    <3>3. /\ job[x].attempts \in Nat /\ job[x].run \in Nat
          /\ receipts[x][n].attempt \in Nat /\ receipts[x][n].run \in Nat
      BY <3>2, Counts
    <3>4. job[x].status = "RUNNING" /\ a.run = job[x].run /\ a.attempt = job[x].attempts
      BY <2>1
    <3>5. QED
      BY <3>1, <3>3, <3>4 DEF Over
  <2>2. ASSUME NEW j \in Jobs, NEW m \in DOMAIN receipts'[j], NEW n \in DOMAIN receipts'[j],
               receipts'[j][m].by # NoWorker, receipts'[j][n].by # NoWorker,
               receipts'[j][m].run = receipts'[j][n].run,
               receipts'[j][m].attempt = receipts'[j][n].attempt
        PROVE  m = n
    <3>1. CASE j # x
      <4>1. receipts'[j] = receipts[j]
        BY <1>2, <3>1
      <4>2. QED
        BY <2>2, <4>1 DEF QueueInv, OneReceiptPerAttempt
    <3>2. CASE j = x
      <4>1. m \in 1..(len + 1) /\ n \in 1..(len + 1)
        BY <1>3, <2>2, <3>2
      <4>2. CASE m \in 1..len /\ n \in 1..len
        BY <1>3, <2>2, <3>2, <4>2 DEF QueueInv, OneReceiptPerAttempt
      <4>3. CASE m = len + 1 /\ n \in 1..len
        BY <1>3, <2>1, <2>2, <3>2, <4>3
      <4>4. CASE n = len + 1 /\ m \in 1..len
        BY <1>3, <2>1, <2>2, <3>2, <4>4
      <4>5. QED
        BY <1>3, <4>1, <4>2, <4>3, <4>4
    <3>3. QED
      BY <3>1, <3>2
  <2>3. QED
    BY <2>2 DEF OneReceiptPerAttempt
<1>8. QED
  BY <1>4, <1>6, <1>7

\* A step that makes no job active makes no second job active for a key.
LEMMA CalmStep ==
    ASSUME QueueInv, \A j \in Jobs : Calm(job'[j], job[j])
    PROVE  OneActivePerKey'
BY DEF QueueInv, OneActivePerKey, Calm

\* A step that changes one row, in good order, keeps them all in order.
LEMMA OneRowStep ==
    ASSUME QueueInv, NEW x \in Jobs, NEW s, RowOK(s), Forward(s, job[x]),
           job' = [job EXCEPT ![x] = s]
    PROVE  /\ job' \in [Jobs -> Row] /\ RowsOK'
           /\ \A j \in Jobs : Forward(job'[j], job[j])
           /\ Calm(s, job[x]) \/ KeyFree(s.key) => OneActivePerKey'
<1>1. job \in [Jobs -> Row] /\ s \in Row
  BY DEF QueueInv, Shape, RowOK
<1>2. job'[x] = s /\ \A j \in Jobs \ {x} : job'[j] = job[j]
  BY <1>1
<1>3. job' \in [Jobs -> Row]
  BY <1>1
<1>4. \A j \in Jobs : RowOK(job[j])
  BY DEF QueueInv, RowsOK
<1>5. RowsOK'
  BY <1>2, <1>4 DEF RowsOK
<1>6. \A j \in Jobs : Forward(job'[j], job[j])
  BY <1>2 DEF Forward
<1>7. ASSUME Calm(s, job[x])
      PROVE  OneActivePerKey'
  <2>1. \A j \in Jobs : Calm(job'[j], job[j])
    BY <1>2, <1>7 DEF Calm
  <2>2. QED
    BY <2>1, CalmStep
<1>8. ASSUME KeyFree(s.key)
      PROVE  OneActivePerKey'
  <2>1. ASSUME NEW i \in Jobs, NEW j \in Jobs,
               job'[i].status \in Active, job'[j].status \in Active,
               job'[i].key = job'[j].key, job'[i].key # NoKey, i # j
        PROVE  FALSE
    <3>1. CASE i # x /\ j # x
      BY <1>2, <2>1, <3>1 DEF QueueInv, OneActivePerKey
    <3>2. CASE i = x
      BY <1>2, <1>8, <2>1, <3>2 DEF KeyFree
    <3>3. CASE j = x
      BY <1>2, <1>8, <2>1, <3>3 DEF KeyFree
    <3>4. QED
      BY <3>1, <3>2, <3>3
  <2>2. QED
    BY <2>1 DEF OneActivePerKey
<1>9. QED
  BY <1>3, <1>5, <1>6, <1>7, <1>8

LEMMA InitInv == QueueInit => QueueInv
<1> SUFFICES ASSUME QueueInit PROVE QueueInv
  OBVIOUS
<1> USE DEF QueueInit
<1>1. Shape
  BY BlankRow DEF Shape
<1>2. RowsOK
  BY BlankRow DEF RowsOK, RowOK, Blank
<1>3. ReceiptsBehind
  <2>1. \A j \in Jobs : receipts[j] = <<>>
    OBVIOUS
  <2>2. DOMAIN <<>> = {}
    OBVIOUS
  <2>3. QED
    BY <2>1, <2>2 DEF ReceiptsBehind
<1>4. OneReceiptPerAttempt
  BY DEF OneReceiptPerAttempt
<1>5. OneActivePerKey
  BY DEF OneActivePerKey, Blank
<1>6. QED
  BY <1>1, <1>2, <1>3, <1>4, <1>5 DEF QueueInv

-----------------------------------------------------------------------------
(* Each action keeps the invariant. *)

LEMMA InsertStep ==
    ASSUME QueueInv, NEW j \in Jobs, NEW k \in Keys \cup {NoKey}, NEW p \in Int,
           Insert(j, k, p), KeyFree(k), receipts' = receipts,
           replayed' \subseteq Jobs \X Nat
    PROVE  QueueInv'
<1>1. job[j].status = "NEW" /\ era \in Nat /\ receipts \in [Jobs -> Seq(Receipt)]
  BY DEF Insert, QueueInv, Shape
<1>2. PICK d \in {0, 1} :
        /\ era' = era + d
        /\ job' = [job EXCEPT ![j] = Fresh(k, p, era + d)]
  BY DEF Insert
<1> DEFINE b == era + d
           s == Fresh(k, p, b)
<1>3. b \in Nat
  BY <1>1
<1>4. job' = [job EXCEPT ![j] = s] /\ era' \in Nat
  BY <1>2, <1>3
<1> HIDE DEF b
<1>5. RowOK(s) /\ s.status = "PENDING" /\ s.key = k
  BY <1>3, InsertedRow
<1> HIDE DEF s
<1>6. Forward(s, job[j])
  BY <1>1, <1>5 DEF Forward
<1>7. /\ job' \in [Jobs -> Row] /\ RowsOK' /\ OneActivePerKey'
      /\ \A i \in Jobs : Forward(job'[i], job[i])
  BY <1>4, <1>5, <1>6, OneRowStep
<1>8. ReceiptsBehind' /\ OneReceiptPerAttempt'
  BY <1>7, NoReceiptStep
<1>9. QED
  BY <1>1, <1>4, <1>7, <1>8 DEF QueueInv, Shape

LEMMA CreateStep ==
    ASSUME QueueInv, NEW j \in Jobs, NEW k \in Keys \cup {NoKey}, NEW p \in Priorities,
           Create(j, k, p)
    PROVE  QueueInv'
BY InsertStep DEF Create, QueueInv, Shape

LEMMA ReplayStep ==
    ASSUME QueueInv, NEW j \in Jobs, NEW i \in Jobs, NEW n \in DOMAIN receipts[j],
           Replay(j, n, i)
    PROVE  QueueInv'
<1>1. receipts[j] \in Seq(Receipt) /\ job[j] \in Row /\ replayed \subseteq Jobs \X Nat
  BY DEF QueueInv, Shape
<1>2. n \in Nat
  BY <1>1
<1>3. job[j].prio \in Int
  BY <1>1 DEF Row
<1>4. replayed' \subseteq Jobs \X Nat
  BY <1>1, <1>2 DEF Replay
<1>5. QED
  BY <1>3, <1>4, InsertStep DEF Replay, KeyFree

\* A step that changes one row and writes no receipt.
LEMMA QuietStep ==
    ASSUME QueueInv, NEW x \in Jobs, NEW s, RowOK(s), Forward(s, job[x]),
           Calm(s, job[x]) \/ KeyFree(s.key),
           job' = [job EXCEPT ![x] = s], UNCHANGED <<receipts, replayed, era>>
    PROVE  QueueInv'
<1>1. /\ job' \in [Jobs -> Row] /\ RowsOK' /\ OneActivePerKey'
      /\ \A j \in Jobs : Forward(job'[j], job[j])
  BY OneRowStep
<1>2. ReceiptsBehind' /\ OneReceiptPerAttempt'
  BY <1>1, NoReceiptStep
<1>3. QED
  BY <1>1, <1>2 DEF QueueInv, Shape

\* A step that changes many rows, makes none active and writes no receipt.
LEMMA SweepStep ==
    ASSUME QueueInv, job' \in [Jobs -> Row], UNCHANGED <<receipts, replayed>>, era' \in Nat,
           \A j \in Jobs : RowOK(job'[j]) /\ Forward(job'[j], job[j]) /\ Calm(job'[j], job[j])
    PROVE  QueueInv'
<1>1. RowsOK' /\ OneActivePerKey'
  BY CalmStep DEF RowsOK
<1>2. ReceiptsBehind' /\ OneReceiptPerAttempt'
  BY NoReceiptStep
<1>3. QED
  BY <1>1, <1>2 DEF QueueInv, Shape

\* A step that changes one row and writes one receipt.
LEMMA SettleStep ==
    ASSUME QueueInv, NEW x \in Jobs, NEW s, RowOK(s), Forward(s, job[x]), Calm(s, job[x]),
           job' = [job EXCEPT ![x] = s], job[x].status \in Active,
           NEW st \in Terminal \cup {"RETRY"}, NEW w \in Workers \cup {NoWorker},
           Record(x, st, w),
           w # NoWorker => /\ job[x].status = "RUNNING" /\ s.status # "RUNNING"
                           /\ s.run = job[x].run /\ s.attempts = job[x].attempts,
           UNCHANGED <<replayed, era>>
    PROVE  QueueInv'
<1> DEFINE a == [outcome |-> st, attempt |-> job[x].attempts, by |-> w, run |-> job[x].run]
<1>1. job[x] \in Row /\ job \in [Jobs -> Row]
  BY DEF QueueInv, Shape
<1>2. job[x].attempts \in 0..MaxAttempts /\ job[x].run \in 0..MaxRuns
  BY <1>1 DEF Row
<1>3. a \in Receipt
  BY <1>2 DEF Receipt
<1>4. receipts' = [receipts EXCEPT ![x] = Append(receipts[x], a)]
  BY DEF Record
<1>5. a.by = w /\ a.run = job[x].run /\ a.attempt = job[x].attempts
  OBVIOUS
<1> HIDE DEF a
<1>6. /\ job' \in [Jobs -> Row] /\ RowsOK' /\ OneActivePerKey'
      /\ \A j \in Jobs : Forward(job'[j], job[j])
  BY OneRowStep
<1>7. job'[x] = s
  BY <1>1
<1>8. w # NoWorker => Over(a, job'[x])
  BY <1>5, <1>7 DEF Over
<1>9. receipts' \in [Jobs -> Seq(Receipt)] /\ ReceiptsBehind' /\ OneReceiptPerAttempt'
  BY <1>3, <1>4, <1>5, <1>6, <1>8, ReceiptStep
<1>10. QED
  BY <1>6, <1>9 DEF QueueInv, Shape

LEMMA RowsInOrder ==
    ASSUME QueueInv, NEW j \in Jobs
    PROVE  RowOK(job[j]) /\ job[j] \in Row
BY DEF QueueInv, RowsOK, Shape

LEMMA SweptStep ==
    ASSUME QueueInv
    PROVE  /\ Swept \in [Jobs -> Row]
           /\ \A j \in Jobs : /\ Swept[j] = Sweep(job[j]) /\ RowOK(Swept[j])
                              /\ Forward(Swept[j], job[j]) /\ Calm(Swept[j], job[j])
                              /\ Kept(Swept[j], job[j])
<1>1. \A j \in Jobs : Swept[j] = Sweep(job[j])
  BY DEF Swept
<1>2. ASSUME NEW j \in Jobs
      PROVE  /\ RowOK(Swept[j]) /\ Swept[j] \in Row
             /\ Forward(Swept[j], job[j]) /\ Calm(Swept[j], job[j]) /\ Kept(Swept[j], job[j])
  <2>1. RowOK(job[j])
    BY RowsInOrder
  <2>2. QED
    BY <1>1, <2>1, SweepRow DEF RowOK
<1>3. Swept \in [Jobs -> Row]
  BY <1>2 DEF Swept
<1>4. QED
  BY <1>1, <1>2, <1>3

LEMMA ClaimNothingStep ==
    ASSUME QueueInv, ClaimNothing
    PROVE  QueueInv'
<1>1. /\ job' \in [Jobs -> Row]
      /\ \A j \in Jobs : RowOK(job'[j]) /\ Forward(job'[j], job[j]) /\ Calm(job'[j], job[j])
  BY SweptStep DEF ClaimNothing
<1>2. QED
  BY <1>1, SweepStep DEF ClaimNothing, QueueInv, Shape

LEMMA ClaimStep ==
    ASSUME QueueInv, NEW w \in Workers, NEW j \in Jobs, Claim(w, j)
    PROVE  QueueInv'
<1> DEFINE s == Swept[j]
           t == Taken(s, w)
<1>1. /\ Swept \in [Jobs -> Row]
      /\ \A i \in Jobs : /\ Swept[i] = Sweep(job[i]) /\ RowOK(Swept[i])
                         /\ Forward(Swept[i], job[i]) /\ Calm(Swept[i], job[i])
  BY SweptStep
<1>2. RowOK(s) /\ Eligible(s) /\ Forward(s, job[j]) /\ Calm(s, job[j])
  BY <1>1 DEF Claim
<1>3. RowOK(t) /\ Forward(t, s) /\ Calm(t, s)
  BY <1>2, TakenRow
<1>4. Forward(t, job[j]) /\ Calm(t, job[j])
  BY <1>2, <1>3 DEF Forward, Calm, Eligible
<1>5. job' = [Swept EXCEPT ![j] = t]
  BY <1>1 DEF Claim
<1>6. t \in Row
  BY <1>3 DEF RowOK
<1> HIDE DEF s, t
<1>7. /\ job' \in [Jobs -> Row] /\ job'[j] = t
      /\ \A i \in Jobs \ {j} : job'[i] = Swept[i]
  BY <1>1, <1>5, <1>6
<1>8. \A i \in Jobs : RowOK(job'[i]) /\ Forward(job'[i], job[i]) /\ Calm(job'[i], job[i])
  BY <1>1, <1>3, <1>4, <1>7
<1>9. QED
  BY <1>7, <1>8, SweepStep DEF Claim, QueueInv, Shape

LEMMA HeartbeatStep ==
    ASSUME QueueInv, NEW w \in Workers, NEW j \in Jobs, Heartbeat(w, j)
    PROVE  QueueInv'
<1> DEFINE s == [job[j] EXCEPT !.ttl = Lease]
<1>1. RowOK(s) /\ Forward(s, job[j]) /\ Calm(s, job[j])
  BY RowsInOrder, RenewedRow
<1>2. job' = [job EXCEPT ![j] = s]
  BY DEF Heartbeat
<1> HIDE DEF s
<1>3. QED
  BY <1>1, <1>2, QuietStep DEF Heartbeat

LEMMA OwnedJob ==
    ASSUME QueueInv, NEW w \in Workers, NEW j \in Jobs, Owns(w, j)
    PROVE  /\ job[j].status = "RUNNING" /\ RowOK(job[j]) /\ job[j] \in Row
           /\ w # NoWorker
BY RowsInOrder DEF Owns

LEMMA CompleteStep ==
    ASSUME QueueInv, NEW w \in Workers, NEW j \in Jobs, Complete(w, j)
    PROVE  QueueInv'
<1> DEFINE r == job[j]
           st == IF job[j].cancel THEN "CANCELLED" ELSE "SUCCEEDED"
           s == Unleased(job[j], st)
<1>1. r.status = "RUNNING" /\ RowOK(r) /\ r \in Row
  BY OwnedJob DEF Complete
<1>2. st \in Dead \cup {"SUCCEEDED"} /\ st \in Status /\ (r.cancel => st = "CANCELLED")
  BY DEF Status
<1>3. job' = [job EXCEPT ![j] = s] /\ Record(j, st, w) /\ UNCHANGED <<replayed, era>>
  BY DEF Complete
<1> HIDE DEF st
<1>4. s \in Row /\ s.status = st /\ s.owner = NoWorker /\ Kept(s, r)
  BY <1>1, <1>2, UnleasedRow
<1> HIDE DEF s, r
<1>5. RowOK(s) /\ Forward(s, r) /\ Calm(s, r)
  <2>1. s.cancel => s.status = "CANCELLED"
    BY <1>2, <1>4 DEF Kept
  <2>2. QED
    BY <1>1, <1>2, <1>4, <2>1, EndedRow
<1>6. s.run = r.run /\ s.attempts = r.attempts
  BY <1>4 DEF Kept
<1>7. QED
  BY <1>1, <1>2, <1>3, <1>4, <1>5, <1>6, SettleStep DEF r

LEMMA FailStep ==
    ASSUME QueueInv, NEW w \in Workers, NEW j \in Jobs, NEW retryable \in BOOLEAN,
           Fail(w, j, retryable)
    PROVE  QueueInv'
<1> DEFINE r == job[j]
           st == Decision(job[j], retryable)
<1>1. r.status = "RUNNING" /\ RowOK(r) /\ r \in Row
  BY OwnedJob DEF Fail
<1>2. st \in Dead \cup {"RETRY"} /\ st \in Status /\ (r.cancel => st = "CANCELLED")
  BY DEF Decision, Status
<1>3. st = "RETRY" => r.attempts < MaxAttempts
  <2>1. r.attempts \in Nat
    BY <1>1, Counts
  <2>2. st = "RETRY" => ~(r.attempts >= MaxAttempts)
    BY DEF Decision
  <2>3. QED
    BY <2>1, <2>2
<1>4. PICK d \in 1..MaxDelay :
        /\ job' = [job EXCEPT ![j] = [Unleased(@, st) EXCEPT !.wait = IF st = "RETRY" THEN d ELSE 0]]
        /\ Record(j, st, w)
  BY DEF Fail
<1> HIDE DEF st
<1> DEFINE e == IF st = "RETRY" THEN d ELSE 0
           s == [Unleased(job[j], st) EXCEPT !.wait = e]
<1>5. e \in 0..MaxDelay
  OBVIOUS
<1>6. job' = [job EXCEPT ![j] = s]
  BY <1>4
<1> HIDE DEF e
<1>7. s \in Row /\ s.status = st /\ s.owner = NoWorker /\ Kept(s, r)
  BY <1>1, <1>2, <1>5, DelayedRow
<1> HIDE DEF s, r
<1>8. s.run = r.run /\ s.attempts = r.attempts /\ s.cancel = r.cancel
  BY <1>7 DEF Kept
<1>9. RowOK(s) /\ Forward(s, r) /\ Calm(s, r)
  BY <1>1, <1>2, <1>3, <1>7, <1>8, EndedRow
<1>10. QED
  BY <1>1, <1>2, <1>4, <1>6, <1>7, <1>8, <1>9, SettleStep DEF r, Fail

LEMMA RequestCancelStep ==
    ASSUME QueueInv, NEW j \in Jobs, RequestCancel(j)
    PROVE  QueueInv'
<1> DEFINE r == job[j]
           s == IF r.status \in Waiting
                THEN [[r EXCEPT !.cancel = TRUE] EXCEPT !.status = "CANCELLED"]
                ELSE [r EXCEPT !.cancel = TRUE]
<1>1. r.status \in Active /\ RowOK(r) /\ r \in Row
  BY RowsInOrder DEF RequestCancel
<1>2. /\ RowOK(s) /\ Forward(s, r) /\ Calm(s, r)
      /\ s.run = r.run /\ s.attempts = r.attempts
  BY <1>1, CancelledRow
<1>3. job \in [Jobs -> Row]
  BY DEF QueueInv, Shape
<1>4. CASE r.status \in Waiting
  <2>1. job' = [job EXCEPT ![j] = s] /\ Record(j, "CANCELLED", NoWorker)
    BY <1>1, <1>3, <1>4 DEF RequestCancel
  <2> HIDE DEF s
  <2>2. QED
    BY <1>1, <1>2, <2>1, SettleStep DEF RequestCancel
<1>5. CASE r.status \notin Waiting
  <2>1. job' = [job EXCEPT ![j] = s] /\ UNCHANGED receipts
    BY <1>1, <1>3, <1>5 DEF RequestCancel
  <2> HIDE DEF s
  <2>2. QED
    BY <1>2, <2>1, QuietStep DEF RequestCancel
<1>6. QED
  BY <1>4, <1>5

LEMMA RetryStep ==
    ASSUME QueueInv, NEW j \in Jobs, Retry(j)
    PROVE  QueueInv'
<1> DEFINE s == Reopened(job[j])
<1>1. RowOK(s) /\ Forward(s, job[j]) /\ s.key = job[j].key
  BY RowsInOrder, ReopenedRow DEF Retry
<1>2. job' = [job EXCEPT ![j] = s] /\ KeyFree(s.key)
  BY <1>1 DEF Retry
<1> HIDE DEF s
<1>3. QED
  BY <1>1, <1>2, QuietStep DEF Retry

LEMMA PurgeStep ==
    ASSUME QueueInv, NEW old \in SUBSET Jobs, Purge(old)
    PROVE  QueueInv'
<1> DEFINE gone == [Blank EXCEPT !.status = "GONE"]
<1>1. job' = [j \in Jobs |-> IF j \in old /\ Purgeable(j) THEN gone ELSE job[j]]
  BY DEF Purge
<1>2. \A r : RowOK(gone) /\ Forward(gone, r) /\ Calm(gone, r)
  BY DeletedRow
<1>3. gone \in Row
  BY <1>2 DEF RowOK
<1> HIDE DEF gone
<1>4. \A j \in Jobs : RowOK(job[j]) /\ job[j] \in Row
  BY RowsInOrder
<1>5. \A j \in Jobs : Forward(job[j], job[j]) /\ Calm(job[j], job[j])
  BY DEF Forward, Calm
<1>6. \A j \in Jobs : job'[j] = gone \/ job'[j] = job[j]
  BY <1>1
<1>7. job' \in [Jobs -> Row]
  BY <1>1, <1>3, <1>4
<1>8. QED
  BY <1>2, <1>4, <1>5, <1>6, <1>7, SweepStep DEF Purge, QueueInv, Shape

LEMMA TickStep ==
    ASSUME QueueInv, Tick
    PROVE  QueueInv'
<1>1. ASSUME NEW j \in Jobs
      PROVE  /\ RowOK(job'[j]) /\ job'[j] \in Row
             /\ Forward(job'[j], job[j]) /\ Calm(job'[j], job[j])
  <2>1. RowOK(job[j])
    BY RowsInOrder
  <2>2. QED
    BY <2>1, TickedRow DEF Tick, RowOK
<1>2. job' \in [Jobs -> Row]
  BY <1>1 DEF Tick
<1>3. QED
  BY <1>1, <1>2, SweepStep DEF Tick, QueueInv, Shape

LEMMA NextInv == QueueInv /\ [QueueNext]_queueVars => QueueInv'
<1> SUFFICES ASSUME QueueInv, [QueueNext]_queueVars
             PROVE  QueueInv'
  OBVIOUS
<1>1. CASE ClientNext
  <2>1. ASSUME NEW j \in Jobs, NEW k \in Keys \cup {NoKey}, NEW p \in Priorities,
               Create(j, k, p)
        PROVE  QueueInv'
    BY <2>1, CreateStep
  <2>2. ASSUME NEW j \in Jobs, RequestCancel(j)
        PROVE  QueueInv'
    BY <2>2, RequestCancelStep
  <2>3. ASSUME NEW j \in Jobs, Retry(j)
        PROVE  QueueInv'
    BY <2>3, RetryStep
  <2>4. ASSUME NEW j \in Jobs, NEW i \in Jobs, NEW n \in DOMAIN receipts[j], Replay(j, n, i)
        PROVE  QueueInv'
    BY <2>4, ReplayStep
  <2>5. ASSUME NEW old \in SUBSET Jobs, Purge(old)
        PROVE  QueueInv'
    BY <2>5, PurgeStep
  <2>6. QED
    BY <1>1, <2>1, <2>2, <2>3, <2>4, <2>5 DEF ClientNext
<1>2. CASE ClaimNothing
  BY <1>2, ClaimNothingStep
<1>3. ASSUME NEW w \in Workers, NEW j \in Jobs, Claim(w, j)
      PROVE  QueueInv'
  BY <1>3, ClaimStep
<1>4. ASSUME NEW w \in Workers, NEW j \in Jobs, Heartbeat(w, j)
      PROVE  QueueInv'
  BY <1>4, HeartbeatStep
<1>5. ASSUME NEW w \in Workers, NEW j \in Jobs, Complete(w, j)
      PROVE  QueueInv'
  BY <1>5, CompleteStep
<1>6. ASSUME NEW w \in Workers, NEW j \in Jobs, NEW retryable \in BOOLEAN,
             Fail(w, j, retryable)
      PROVE  QueueInv'
  BY <1>6, FailStep
<1>7. CASE Tick
  BY <1>7, TickStep
<1>8. CASE UNCHANGED queueVars
  BY <1>8 DEF queueVars, QueueInv, Shape, RowsOK, ReceiptsBehind,
              OneReceiptPerAttempt, OneActivePerKey
<1>9. QED
  BY <1>1, <1>2, <1>3, <1>4, <1>5, <1>6, <1>7, <1>8 DEF QueueNext

\* The invariant holds of every reachable table (claims, renewals, settlements,
\* cancellations, retries, replays and retention in any order).
THEOREM QueueInvariant == QueueSpec => []QueueInv
BY InitInv, NextInv, PTL DEF QueueSpec

\* Every row, receipt and replay is well formed, and a job is RUNNING exactly
\* while it has a lease owner, with that attempt counted.
THEOREM QueueTypeOK == QueueSpec => []TypeOK
<1>1. QueueInv => TypeOK
  BY DEF QueueInv, Shape, RowsOK, RowOK, TypeOK
<1>2. QED
  BY <1>1, QueueInvariant, PTL

\* No job waits with its attempts used up or a cancellation pending, where
\* claim_background_job would pass it over for ever.
THEOREM QueueNoStrandedJob == QueueSpec => []NoStrandedJob
<1>1. QueueInv => NoStrandedJob
  BY DEF QueueInv, RowsOK, RowOK, NoStrandedJob
<1>2. QED
  BY <1>1, QueueInvariant, PTL

\* An accepted cancellation is never lost to a completion, a failure, a retry
\* decision or an expired lease.
THEOREM QueueCancelHonoured == QueueSpec => []CancelHonoured
<1>1. QueueInv => CancelHonoured
  BY DEF QueueInv, RowsOK, RowOK, CancelHonoured
<1>2. QED
  BY <1>1, QueueInvariant, PTL

\* However late or repeated the calls of however many workers, one attempt is
\* settled by at most one of them.
THEOREM QueueOneReceiptPerAttempt == QueueSpec => []OneReceiptPerAttempt
<1>1. QueueInv => OneReceiptPerAttempt
  BY DEF QueueInv
<1>2. QED
  BY <1>1, QueueInvariant, PTL

\* Creation, operator retry and replay never make two jobs with one dedupe key
\* active together.
THEOREM QueueOneActivePerKey == QueueSpec => []OneActivePerKey
<1>1. QueueInv => OneActivePerKey
  BY DEF QueueInv
<1>2. QED
  BY <1>1, QueueInvariant, PTL

-----------------------------------------------------------------------------
(* The table implements the life cycle of a job. *)

\* What the state diagram allows from row r to row s.
Stays(r, s)   == Phase(s.status) = Phase(r.status) /\ s.attempts = r.attempts
Submits(r, s) == /\ r.status = "NEW" \/ (r.status \in Dead /\ s.run > r.run)
                 /\ s.status \in Waiting /\ s.attempts = 0
Starts(r, s)  == /\ r.status \in Active /\ r.attempts < MaxAttempts
                 /\ s.status = "RUNNING" /\ s.attempts = r.attempts + 1
Settles(r, s) == /\ s.attempts = r.attempts
                 /\ \/ r.status = "RUNNING" /\ s.status \in Terminal
                    \/ r.status = "RUNNING" /\ r.attempts < MaxAttempts /\ s.status \in Waiting
                    \/ r.status \in Waiting /\ s.status = "CANCELLED"
Forgets(r, s) == r.status \in Terminal /\ s.status = "GONE" /\ s.attempts = 0

Allowed(r, s) ==
    Stays(r, s) \/ Submits(r, s) \/ Starts(r, s) \/ Settles(r, s) \/ Forgets(r, s)

Spends(r, s) == s.attempts = r.attempts + 1

\* A step that changes each row as the diagram allows, and counts an attempt of
\* one job at most.
Lawful ==
    /\ \A j \in Jobs : Allowed(job[j], job'[j])
    /\ \A i, j \in Jobs : Spends(job[i], job'[i]) /\ Spends(job[j], job'[j]) => i = j

LEMMA LawfulStep ==
    ASSUME NEW x, \A j \in Jobs : Allowed(job[j], job'[j]),
           \A j \in Jobs \ {x} : ~Spends(job[j], job'[j])
    PROVE  Lawful
BY DEF Lawful

LEMMA LifecycleStep ==
    ASSUME Lawful
    PROVE  Lifecycle!Next
<1> DEFINE phase == [j \in Jobs |-> Phase(job[j].status)]
           spent == [j \in Jobs |-> job[j].attempts]
<1>1. \A j \in Jobs : phase[j] = Phase(job[j].status) /\ spent[j] = job[j].attempts
  OBVIOUS
<1>2. \A j \in Jobs : phase'[j] = Phase(job'[j].status) /\ spent'[j] = job'[j].attempts
  OBVIOUS
<1>3. phase' = [j \in Jobs |-> phase'[j]] /\ spent' = [j \in Jobs |-> spent'[j]]
  OBVIOUS
<1>4. ASSUME NEW j \in Jobs
      PROVE  \/ Lifecycle!Same(j) \/ Lifecycle!Submit(j) \/ Lifecycle!Start(j)
             \/ Lifecycle!Settle(j) \/ Lifecycle!Forget(j)
  <2>1. CASE Stays(job[j], job'[j])
    BY <2>1 DEF Stays, Lifecycle!Same
  <2>2. CASE Submits(job[j], job'[j])
    BY <2>2 DEF Submits, Phase, Lifecycle!Submit, Lifecycle!Becomes
  <2>3. CASE Starts(job[j], job'[j])
    BY <2>3 DEF Starts, Phase, Lifecycle!Start, Lifecycle!Becomes
  <2>4. CASE Settles(job[j], job'[j])
    BY <2>4 DEF Settles, Phase, Lifecycle!Settle, Lifecycle!Becomes, Lifecycle!Done
  <2>5. CASE Forgets(job[j], job'[j])
    BY <2>5 DEF Forgets, Phase, Lifecycle!Forget, Lifecycle!Becomes, Lifecycle!Done
  <2>6. QED
    BY <2>1, <2>2, <2>3, <2>4, <2>5 DEF Allowed, Lawful
<1>5. ASSUME NEW i \in Jobs, NEW j \in Jobs, Lifecycle!Start(i), Lifecycle!Start(j)
      PROVE  i = j
  <2>1. \A k \in Jobs : Lifecycle!Start(k) => Spends(job[k], job'[k])
    BY DEF Lifecycle!Start, Lifecycle!Becomes, Spends
  <2>2. QED
    BY <1>5, <2>1 DEF Lawful
<1>6. QED
  BY <1>3, <1>4, <1>5 DEF Lifecycle!Next

LEMMA OneRowAllowed ==
    ASSUME QueueInv, NEW x \in Jobs, NEW s, job' = [job EXCEPT ![x] = s], Allowed(job[x], s)
    PROVE  Lawful
<1>1. job \in [Jobs -> Row]
  BY DEF QueueInv, Shape
<1>2. job'[x] = s /\ \A j \in Jobs \ {x} : job'[j] = job[j] /\ job[j].attempts \in Nat
  BY <1>1, Counts
<1>3. \A j \in Jobs : Allowed(job[j], job'[j])
  BY <1>2 DEF Allowed, Stays
<1>4. \A j \in Jobs \ {x} : ~Spends(job[j], job'[j])
  BY <1>2 DEF Spends
<1>5. QED
  BY <1>3, <1>4, LawfulStep

\* The sweeps only settle, and count no attempt.
LEMMA SweptAllowed ==
    ASSUME NEW r, RowOK(r)
    PROVE  /\ Stays(r, Sweep(r)) \/ Settles(r, Sweep(r))
           /\ ~Spends(r, Sweep(r))
<1>1. /\ RowOK(Reap(r)) /\ Kept(Reap(r), r)
      /\ Reap(r).status = r.status \/ (r.status = "RUNNING" /\ Reap(r).status \in Dead \cup {"RETRY"})
  BY ReapRow
<1>2. Sweep(r) = Reap(r)
  BY <1>1 DEF Sweep, RowOK
<1>3. Reap(r).attempts = r.attempts /\ r.attempts \in Nat
  BY <1>1, Counts DEF Kept, RowOK
<1>4. Reap(r).status = "RETRY" => r.attempts < MaxAttempts
  BY <1>1, <1>3 DEF RowOK
<1>5. QED
  BY <1>1, <1>2, <1>3, <1>4 DEF Stays, Settles, Spends

LEMMA ClaimAllowed ==
    ASSUME QueueInv, NEW w \in Workers, NEW j \in Jobs, Claim(w, j)
    PROVE  Lawful /\ Starts(job[j], job'[j])
<1> DEFINE s == Sweep(job[j])
           t == Taken(s, w)
<1>1. \A i \in Jobs : Swept[i] = Sweep(job[i]) /\ RowOK(job[i])
  BY RowsInOrder DEF Swept
<1>2. \A i \in Jobs : /\ Stays(job[i], Sweep(job[i])) \/ Settles(job[i], Sweep(job[i]))
                      /\ ~Spends(job[i], Sweep(job[i]))
  BY <1>1, SweptAllowed
<1>3. RowOK(s) /\ Kept(s, job[j]) /\ Eligible(s) /\ job[j] \in Row
  BY <1>1, SweepRow, RowsInOrder DEF Claim
<1>4. t.status = "RUNNING" /\ t.attempts = s.attempts + 1
  BY <1>3 DEF Taken, RowOK, Row
<1>5. Starts(job[j], t)
  <2>1. job[j].attempts < MaxAttempts /\ t.attempts = job[j].attempts + 1
    BY <1>3, <1>4 DEF Kept, Eligible
  <2>2. job[j].status \in Active
    <3>1. s.status \in Waiting /\ (Stays(job[j], s) \/ Settles(job[j], s))
      BY <1>2, <1>3 DEF Eligible
    <3>2. job[j].status \in Status
      BY <1>3 DEF Row, Status
    <3> HIDE DEF s
    <3>3. QED
      BY <3>1, <3>2 DEF Status, Stays, Settles, Phase
  <2>3. QED
    BY <1>4, <2>1, <2>2 DEF Starts
<1>6. job' = [Swept EXCEPT ![j] = t]
  BY DEF Claim
<1> HIDE DEF s, t
<1>7. job'[j] = t /\ \A i \in Jobs \ {j} : job'[i] = Sweep(job[i])
  BY <1>1, <1>6 DEF Swept
<1>8. QED
  BY <1>2, <1>5, <1>7, LawfulStep DEF Allowed

\* Whatever a worker, a client or the operator does to a row it is settled,
\* waits again, or stays in its phase.
LEMMA RowUpdatesAllowed ==
    ASSUME QueueInv, NEW j \in Jobs
    PROVE  /\ \A w \in Workers : Heartbeat(w, j) \/ Complete(w, j) => Lawful
           /\ \A w \in Workers, b \in BOOLEAN : Fail(w, j, b) => Lawful
           /\ RequestCancel(j) \/ Retry(j) => Lawful
           /\ \A k \in Keys \cup {NoKey}, p \in Int : Insert(j, k, p) => Lawful
<1> DEFINE r == job[j]
<1>1. RowOK(r) /\ r \in Row
  BY RowsInOrder
<1>2. ASSUME NEW w \in Workers, Heartbeat(w, j)
      PROVE  Lawful
  <2>1. Allowed(r, [r EXCEPT !.ttl = Lease])
    BY <1>1 DEF Allowed, Stays, Row
  <2>2. QED
    BY <1>2, <2>1, OneRowAllowed DEF Heartbeat
<1>3. ASSUME NEW w \in Workers, Complete(w, j)
      PROVE  Lawful
  <2> DEFINE st == IF r.cancel THEN "CANCELLED" ELSE "SUCCEEDED"
  <2>1. st \in Status /\ st \in Terminal /\ r.status = "RUNNING"
    BY <1>3 DEF Status, Complete, Owns
  <2>2. job' = [job EXCEPT ![j] = Unleased(r, st)]
    BY <1>3 DEF Complete
  <2> HIDE DEF st
  <2>3. Unleased(r, st).status = st /\ Unleased(r, st).attempts = r.attempts
    BY <1>1, <2>1, UnleasedRow DEF Kept
  <2>4. Allowed(r, Unleased(r, st))
    BY <2>1, <2>3 DEF Allowed, Settles
  <2>5. QED
    BY <2>2, <2>4, OneRowAllowed
<1>4. ASSUME NEW w \in Workers, NEW b \in BOOLEAN, Fail(w, j, b)
      PROVE  Lawful
  <2> DEFINE st == Decision(r, b)
  <2>1. PICK d \in 1..MaxDelay :
          job' = [job EXCEPT ![j] = [Unleased(r, st) EXCEPT !.wait = IF st = "RETRY" THEN d ELSE 0]]
    BY <1>4 DEF Fail
  <2>2. st \in Status /\ st \in Dead \cup {"RETRY"} /\ r.status = "RUNNING"
    BY <1>4 DEF Status, Decision, Fail, Owns
  <2>3. st = "RETRY" => r.attempts < MaxAttempts
    BY <1>1 DEF Decision, Row
  <2> DEFINE n == IF st = "RETRY" THEN d ELSE 0
             s == [Unleased(r, st) EXCEPT !.wait = n]
  <2>4. n \in 0..MaxDelay
    OBVIOUS
  <2>5. s.status = st /\ s.attempts = r.attempts
    <3> HIDE DEF st, n, s
    <3>1. s = [Unleased(r, st) EXCEPT !.wait = n]
      BY DEF s
    <3>2. s.status = st /\ Kept(s, r)
      <4> HIDE DEF r
      <4>1. QED
        BY <1>1, <2>2, <2>4, <3>1, DelayedRow
    <3>3. QED
      BY <3>2 DEF Kept
  <2>6. Allowed(r, s)
    <3> HIDE DEF st, s
    <3>1. QED
      BY <2>2, <2>3, <2>5 DEF Allowed, Settles
  <2>7. QED
    BY <2>1, <2>6, OneRowAllowed
<1>5. ASSUME RequestCancel(j)
      PROVE  Lawful
  <2> DEFINE s == IF r.status \in Waiting
                  THEN [[r EXCEPT !.cancel = TRUE] EXCEPT !.status = "CANCELLED"]
                  ELSE [r EXCEPT !.cancel = TRUE]
  <2>1. job \in [Jobs -> Row]
    BY DEF QueueInv, Shape
  <2>2. job' = [job EXCEPT ![j] = s]
    BY <1>5, <2>1 DEF RequestCancel
  <2>3. Allowed(r, s)
    BY <1>1 DEF Allowed, Settles, Stays, Row
  <2>4. QED
    BY <2>2, <2>3, OneRowAllowed
<1>6. ASSUME Retry(j)
      PROVE  Lawful
  <2>1. Reopened(r).status = "PENDING" /\ Reopened(r).attempts = 0 /\ Reopened(r).run > r.run
    BY <1>1 DEF Reopened, Unleased, Row
  <2>2. Allowed(r, Reopened(r))
    BY <1>6, <2>1 DEF Retry, Allowed, Submits
  <2>3. QED
    BY <1>6, <2>2, OneRowAllowed DEF Retry
<1>7. ASSUME NEW k \in Keys \cup {NoKey}, NEW p \in Int, Insert(j, k, p)
      PROVE  Lawful
  <2>1. PICK d \in {0, 1} : job' = [job EXCEPT ![j] = Fresh(k, p, era + d)]
    BY <1>7 DEF Insert
  <2>2. Fresh(k, p, era + d).status = "PENDING" /\ Fresh(k, p, era + d).attempts = 0
    BY DEF Fresh, Blank
  <2>3. Allowed(r, Fresh(k, p, era + d))
    BY <1>7, <2>2 DEF Insert, Allowed, Submits
  <2>4. QED
    BY <2>1, <2>3, OneRowAllowed
<1>8. QED
  BY <1>2, <1>3, <1>4, <1>5, <1>6, <1>7

\* Retention and time.
LEMMA PurgeAndTickAllowed ==
    ASSUME QueueInv
    PROVE  /\ \A old \in SUBSET Jobs : Purge(old) => Lawful
           /\ Tick => Lawful
           /\ ClaimNothing => Lawful
<1>1. \A j \in Jobs : RowOK(job[j]) /\ job[j] \in Row /\ job[j].attempts \in Nat
  BY RowsInOrder, Counts
<1>2. ASSUME NEW old \in SUBSET Jobs, Purge(old)
      PROVE  Lawful
  <2>1. ASSUME NEW j \in Jobs
        PROVE  /\ Stays(job[j], job'[j]) \/ Forgets(job[j], job'[j])
               /\ ~Spends(job[j], job'[j])
    <3> DEFINE g == [Blank EXCEPT !.status = "GONE"]
    <3>1. g.status = "GONE" /\ g.attempts = 0
      BY DEF Blank
    <3>2. Purgeable(j) => job[j].status \in Terminal
      BY DEF Purgeable
    <3>3. job'[j] = IF j \in old /\ Purgeable(j) THEN g ELSE job[j]
      BY <1>2 DEF Purge
    <3> HIDE DEF g
    <3>4. QED
      BY <1>1, <3>1, <3>2, <3>3 DEF Stays, Forgets, Spends
  <2>2. QED
    BY <2>1, LawfulStep DEF Allowed
<1>3. ASSUME Tick
      PROVE  Lawful
  <2>1. ASSUME NEW j \in Jobs
        PROVE  Stays(job[j], job'[j]) /\ ~Spends(job[j], job'[j])
    <3>1. job'[j].status = job[j].status /\ job'[j].attempts = job[j].attempts
      BY <1>1, <1>3 DEF Tick, Row
    <3>2. QED
      BY <1>1, <3>1 DEF Stays, Spends
  <2>2. QED
    BY <2>1, LawfulStep DEF Allowed
<1>4. ASSUME ClaimNothing
      PROVE  Lawful
  <2>1. ASSUME NEW j \in Jobs
        PROVE  /\ Stays(job[j], job'[j]) \/ Settles(job[j], job'[j])
               /\ ~Spends(job[j], job'[j])
    BY <1>1, <1>4, SweptAllowed DEF ClaimNothing, Swept
  <2>2. QED
    BY <2>1, LawfulStep DEF Allowed
<1>5. QED
  BY <1>2, <1>3, <1>4

LEMMA EveryStepAllowed ==
    ASSUME QueueInv, QueueNext
    PROVE  Lawful
<1>1. CASE ClientNext
  <2>1. ASSUME NEW j \in Jobs, NEW k \in Keys \cup {NoKey}, NEW p \in Priorities, Create(j, k, p)
        PROVE  Lawful
    BY <2>1, RowUpdatesAllowed DEF Create
  <2>2. ASSUME NEW j \in Jobs, RequestCancel(j) \/ Retry(j)
        PROVE  Lawful
    BY <2>2, RowUpdatesAllowed
  <2>3. ASSUME NEW j \in Jobs, NEW i \in Jobs, NEW n \in DOMAIN receipts[j], Replay(j, n, i)
        PROVE  Lawful
    <3>1. job[j].prio \in Int
      BY RowsInOrder DEF Row
    <3>2. QED
      BY <2>3, <3>1, RowUpdatesAllowed DEF Replay
  <2>4. ASSUME NEW old \in SUBSET Jobs, Purge(old)
        PROVE  Lawful
    BY <2>4, PurgeAndTickAllowed
  <2>5. QED
    BY <1>1, <2>1, <2>2, <2>3, <2>4 DEF ClientNext
<1>2. CASE ClaimNothing \/ Tick
  BY <1>2, PurgeAndTickAllowed
<1>3. ASSUME NEW w \in Workers, NEW j \in Jobs, Claim(w, j)
      PROVE  Lawful
  BY <1>3, ClaimAllowed
<1>4. ASSUME NEW w \in Workers, NEW j \in Jobs, Heartbeat(w, j) \/ Complete(w, j)
      PROVE  Lawful
  BY <1>4, RowUpdatesAllowed
<1>5. ASSUME NEW w \in Workers, NEW j \in Jobs, NEW b \in BOOLEAN, Fail(w, j, b)
      PROVE  Lawful
  BY <1>5, RowUpdatesAllowed
<1>6. QED
  BY <1>1, <1>2, <1>3, <1>4, <1>5 DEF QueueNext

\* The table implements the state diagram of docs/17_BACKGROUND_JOBS.md for any
\* number of jobs and workers: every transaction is for each job a step the
\* diagram allows or none, and no transaction begins two executions.
THEOREM QueueImplementsLifecycle == QueueSpec => ImplementsLifecycle
<1>1. QueueInit => Lifecycle!Init
  BY DEF QueueInit, Lifecycle!Init, Blank, Phase
<1>2. QueueInv /\ [QueueNext]_queueVars => [Lifecycle!Next]_Lifecycle!vars
  BY EveryStepAllowed, LifecycleStep DEF queueVars, Lifecycle!vars
<1>3. QED
  BY <1>1, <1>2, QueueInvariant, PTL DEF QueueSpec, ImplementsLifecycle, Lifecycle!Spec

-----------------------------------------------------------------------------
(* The worker loops and their threads drive the table only through its       *)
(* transactions.                                                             *)

USE WorkerAssumption DEF WorkerAssumption

Held == {"exec", "completing", "failing"}
Loop == [pc : Held \cup {"idle", "dead"}, job : Jobs \cup {NoJob}, run : 0..MaxRuns,
         attempt : Nat, retryable : BOOLEAN, since : Nat]
Thread == [w : Workers, j : Jobs, run : 0..MaxRuns, attempt : Nat,
           phase : {"begin", "check", "apply", "wrap", "ok", "raised"}]

LoopsOK == /\ loop \in [Workers -> Loop]
           /\ \A w \in Workers : loop[w].pc \in Held => loop[w].job \in Jobs

WorkerInv == QueueInv /\ LoopsOK /\ threads \subseteq Thread

\* What one step does to the table.
LEMMA OnTheTable ==
    ASSUME WorkerInv, [WorkerNext]_workerVars
    PROVE  [QueueNext]_queueVars
<1>1. CASE UNCHANGED workerVars
  BY <1>1 DEF workerVars, queueVars
<1>2. CASE Client
  BY <1>2 DEF Client, QueueNext
<1>3. ASSUME NEW w \in Workers, LoopStep(w)
      PROVE  [QueueNext]_queueVars
  <2>1. ASSUME NEW j \in Jobs, Take(w, j)
        PROVE  QueueNext
    BY <2>1 DEF Take, QueueNext
  <2>2. CASE Poll(w)
    BY <2>2 DEF Poll, QueueNext
  <2>3. CASE Beat(w)
    BY <2>3 DEF Beat, QueueNext, WorkerInv, LoopsOK, Held
  <2>4. CASE LoseBeat(w) \/ Collect(w)
    BY <2>4 DEF LoseBeat, Collect
  <2>5. CASE Finish(w)
    BY <2>5 DEF Finish, QueueNext, WorkerInv, LoopsOK, Held
  <2>6. CASE GiveUp(w)
    <3>1. loop[w].job \in Jobs /\ loop[w].retryable \in BOOLEAN
      BY <2>6 DEF GiveUp, WorkerInv, LoopsOK, Held, Loop
    <3>2. QED
      BY <2>6, <3>1 DEF GiveUp, QueueNext
  <2>7. QED
    BY <1>3, <2>1, <2>2, <2>3, <2>4, <2>5, <2>6 DEF LoopStep
<1>4. ASSUME NEW w \in Workers, Crash(w) \/ Shutdown(w)
      PROVE  UNCHANGED queueVars
  BY <1>4 DEF Crash, Shutdown
<1>5. ASSUME NEW t \in threads, ThreadStep(t)
      PROVE  [QueueNext]_queueVars
  <2>1. t.w \in Workers /\ t.j \in Jobs
    BY DEF WorkerInv, Thread
  <2>2. QED
    BY <1>5, <2>1 DEF ThreadStep, Renew, LookUp, Apply, Raise, Discard, QueueNext
<1>6. ASSUME NEW old \in SUBSET batches, PurgeImports(old)
      PROVE  UNCHANGED queueVars
  BY <1>6 DEF PurgeImports
<1>7. CASE Pass
  BY <1>7 DEF Pass, QueueNext
<1>8. QED
  BY <1>1, <1>2, <1>3, <1>4, <1>5, <1>6, <1>7 DEF WorkerNext

LEMMA WorkerInitInv == WorkerInit => WorkerInv
<1> SUFFICES ASSUME WorkerInit PROVE WorkerInv
  OBVIOUS
<1>1. QueueInv
  BY InitInv DEF WorkerInit
<1>2. Free("idle") \in Loop /\ Free("idle").pc = "idle"
  BY DEF Free, Loop, Held
<1>3. QED
  BY <1>1, <1>2 DEF WorkerInit, WorkerInv, LoopsOK, Held

\* The loops and the threads keep their types.
LEMMA WorkerNextInv == WorkerInv /\ [WorkerNext]_workerVars => WorkerInv'
<1> SUFFICES ASSUME WorkerInv, [WorkerNext]_workerVars
             PROVE  WorkerInv'
  OBVIOUS
<1>1. QueueInv'
  BY OnTheTable, NextInv DEF WorkerInv
<1>2. ASSUME NEW w \in Workers, NEW n \in Loop, loop' = [loop EXCEPT ![w] = n],
             n.pc \in Held => n.job \in Jobs
      PROVE  LoopsOK'
  BY <1>2 DEF WorkerInv, LoopsOK
<1>3. \A w \in Workers, pc \in {"idle", "dead"} : Leave(w, pc) => LoopsOK'
  <2>1. \A pc \in {"idle", "dead"} : Free(pc) \in Loop /\ Free(pc).pc \notin Held
    BY DEF Free, Loop, Held
  <2>2. QED
    BY <1>2, <2>1 DEF Leave
<1>4. \A w \in Workers, r \in BOOLEAN : loop[w].pc \in Held /\ Failing(w, r) => LoopsOK'
  <2> SUFFICES ASSUME NEW w \in Workers, NEW r \in BOOLEAN, loop[w].pc \in Held, Failing(w, r)
               PROVE  LoopsOK'
    OBVIOUS
  <2> DEFINE n == [loop[w] EXCEPT !.pc = "failing", !.retryable = r]
  <2>1. loop[w] \in Loop /\ loop[w].job \in Jobs
    BY DEF WorkerInv, LoopsOK
  <2>2. n \in Loop /\ n.job \in Jobs
    BY <2>1 DEF Loop, Held
  <2>3. loop' = [loop EXCEPT ![w] = n]
    BY DEF Failing, WorkerInv, LoopsOK
  <2>4. QED
    BY <1>2, <2>2, <2>3
<1>5. ASSUME NEW t \in threads, NEW ph \in {"begin", "check", "apply", "wrap", "ok", "raised"}
      PROVE  [t EXCEPT !.phase = ph] \in Thread
  BY DEF WorkerInv, Thread
<1>6. CASE UNCHANGED workerVars
  BY <1>1, <1>6 DEF WorkerInv, LoopsOK, workerVars
<1>7. CASE Client
  BY <1>1, <1>7 DEF Client, WorkerInv, LoopsOK
<1>8. ASSUME NEW w \in Workers, LoopStep(w)
      PROVE  WorkerInv'
  <2>1. ASSUME NEW j \in Jobs, Take(w, j)
        PROVE  WorkerInv'
    <3>9. job[j] \in Row /\ job'[j] \in Row
      BY <1>1 DEF WorkerInv, QueueInv, Shape
    <3>1. job[j].run \in 0..MaxRuns /\ job'[j].attempts \in Nat
      BY <3>9 DEF Row
    <3> DEFINE n == [pc |-> "exec", job |-> j, run |-> job[j].run,
                     attempt |-> job'[j].attempts, retryable |-> FALSE, since |-> 0]
               t == [w |-> w, j |-> j, run |-> job[j].run,
                     attempt |-> job'[j].attempts, phase |-> "begin"]
    <3>2. n \in Loop /\ n.job \in Jobs /\ t \in Thread
      BY <3>1 DEF Loop, Held, Thread
    <3>3. LoopsOK'
      BY <1>2, <2>1, <3>2 DEF Take
    <3>4. QED
      BY <1>1, <2>1, <3>2, <3>3 DEF Take, WorkerInv
  <2>2. CASE Poll(w)
    BY <1>1, <2>2 DEF Poll, WorkerInv, LoopsOK
  <2>3. CASE Beat(w)
    <3>1. [loop[w] EXCEPT !.since = 0] \in Loop /\ loop[w].job \in Jobs
      BY <2>3 DEF Beat, WorkerInv, LoopsOK, Loop, Held
    <3>2. loop' = [loop EXCEPT ![w] = [loop[w] EXCEPT !.since = 0]]
      BY <2>3 DEF Beat, WorkerInv, LoopsOK
    <3>3. [loop[w] EXCEPT !.since = 0].job \in Jobs
      BY <3>1 DEF WorkerInv, LoopsOK, Loop
    <3>4. LoopsOK'
      BY <1>2, <3>1, <3>2, <3>3
    <3>5. QED
      BY <1>1, <2>3, <3>4 DEF Beat, WorkerInv
  <2>4. CASE LoseBeat(w)
    BY <1>1, <1>4, <2>4 DEF LoseBeat, WorkerInv, Held
  <2>5. CASE Collect(w)
    <3>1. loop[w].pc = "exec" /\ threads' \subseteq Thread
      BY <2>5 DEF Collect, Current, WorkerInv
    <3>2. CASE loop' = [loop EXCEPT ![w].pc = "completing"]
      <4> DEFINE n == [loop[w] EXCEPT !.pc = "completing"]
      <4>1. loop[w] \in Loop /\ loop[w].job \in Jobs /\ loop' = [loop EXCEPT ![w] = n]
        BY <3>1, <3>2 DEF WorkerInv, LoopsOK, Held
      <4>2. n \in Loop /\ n.job \in Jobs
        BY <4>1 DEF Loop, Held
      <4>3. QED
        BY <1>1, <1>2, <3>1, <4>1, <4>2 DEF WorkerInv
    <3>3. ASSUME NEW r \in BOOLEAN, Failing(w, r)
          PROVE  WorkerInv'
      BY <1>1, <1>4, <3>1, <3>3 DEF WorkerInv, Held
    <3>4. QED
      BY <2>5, <3>2, <3>3 DEF Collect
  <2>6. CASE Finish(w)
    BY <1>1, <1>3, <1>4, <2>6 DEF Finish, WorkerInv, Held
  <2>7. CASE GiveUp(w)
    BY <1>1, <1>3, <2>7 DEF GiveUp, WorkerInv
  <2>8. QED
    BY <1>8, <2>1, <2>2, <2>3, <2>4, <2>5, <2>6, <2>7 DEF LoopStep
<1>9. ASSUME NEW w \in Workers, Crash(w) \/ Shutdown(w)
      PROVE  WorkerInv'
  BY <1>1, <1>3, <1>9 DEF Crash, Shutdown, WorkerInv
<1>10. ASSUME NEW t \in threads, ThreadStep(t)
       PROVE  WorkerInv'
  <2>1. UNCHANGED loop
    BY <1>10 DEF ThreadStep, Renew, LookUp, Apply, Raise, Discard
  <2>2. \A ph \in {"begin", "check", "apply", "wrap", "ok", "raised"} :
          Advance(t, ph) => threads' \subseteq Thread
    BY <1>5 DEF Advance, WorkerInv
  <2>3. Discard(t) => threads' \subseteq Thread
    BY DEF Discard, WorkerInv
  <2>4. threads' \subseteq Thread
    <3> DEFINE p == IF t.phase = "begin" THEN "check" ELSE "ok"
               q == IF Applied(t.j) THEN "wrap" ELSE "apply"
    <3>1. (Renew(t) => Advance(t, p) \/ Advance(t, "raised")) /\ (LookUp(t) => Advance(t, q))
      BY DEF Renew, LookUp
    <3>2. (Apply(t) => Advance(t, "wrap")) /\ (Raise(t) => Advance(t, "raised"))
      BY DEF Apply, Raise
    <3>3. p \in {"check", "ok"} /\ q \in {"wrap", "apply"}
      OBVIOUS
    <3> HIDE DEF p, q
    <3>4. QED
      BY <1>10, <2>2, <2>3, <3>1, <3>2, <3>3 DEF ThreadStep
  <2>5. QED
    BY <1>1, <2>1, <2>4 DEF WorkerInv, LoopsOK
<1>11. ASSUME NEW old \in SUBSET batches, PurgeImports(old)
       PROVE  WorkerInv'
  BY <1>1, <1>11 DEF PurgeImports, WorkerInv, LoopsOK
<1>12. CASE Pass
  <2>1. ASSUME NEW w \in Workers
        PROVE  /\ loop'[w] \in Loop
               /\ loop'[w].pc = loop[w].pc /\ loop'[w].job = loop[w].job
    BY <1>12 DEF Pass, WorkerInv, LoopsOK, Loop
  <2>2. LoopsOK'
    BY <1>12, <2>1 DEF Pass, WorkerInv, LoopsOK
  <2>3. QED
    BY <1>1, <1>12, <2>2 DEF Pass, WorkerInv
<1>13. QED
  BY <1>6, <1>7, <1>8, <1>9, <1>10, <1>11, <1>12 DEF WorkerNext

LEMMA WorkerInvariant == WorkerSpec => []WorkerInv
BY WorkerInitInv, WorkerNextInv, PTL DEF WorkerSpec

-----------------------------------------------------------------------------
(* A worker settles the attempt its loop claimed: whenever the table names   *)
(* it as the owner of the job in its loop, the loop has the attempt of the   *)
(* row.                                                                      *)

\* A running row goes on with its attempt.
GoesOn(r, s) ==
    s.status = "RUNNING" => /\ r.status = "RUNNING" /\ s.owner = r.owner
                            /\ s.run = r.run /\ s.attempts = r.attempts

HasAttempt(w, j) == loop[w].run = job[j].run /\ loop[w].attempt = job[j].attempts

MatchInv ==
    /\ WorkerInv
    /\ \A w \in Workers, j \in Jobs : loop[w].job = j /\ Owns(w, j) => HasAttempt(w, j)

Delayed(r, st, d) == [Unleased(r, st) EXCEPT !.wait = d]

\* A row that is released has the status it is given.
LEMMA DelayedStatus ==
    \A r \in Row, st \in Status, d \in 0..MaxDelay : Delayed(r, st, d).status = st
<1> SUFFICES ASSUME NEW r \in Row, NEW st \in Status, NEW d \in 0..MaxDelay
             PROVE  Delayed(r, st, d).status = st
  OBVIOUS
<1> DEFINE u == Unleased(r, st)
<1>1. u \in Row /\ u.status = st
  BY UnleasedRow
<1> HIDE DEF u
<1>2. [u EXCEPT !.wait = d].status = u.status
  BY <1>1 DEF Row
<1>3. QED
  BY <1>1, <1>2 DEF Delayed, u

\* Only a claim begins an attempt.
LEMMA AttemptsGoOn ==
    ASSUME QueueInv, NEW j \in Jobs
    PROVE  /\ ClientNext \/ ClaimNothing \/ Tick => GoesOn(job[j], job'[j])
           /\ \A w \in Workers, i \in Jobs :
                Heartbeat(w, i) \/ Complete(w, i) \/ (\E b \in BOOLEAN : Fail(w, i, b))
                => GoesOn(job[j], job'[j])
           /\ \A w \in Workers, i \in Jobs : Claim(w, i) =>
                IF i = j THEN job'[j].owner = w /\ job'[j].run = job[j].run
                ELSE GoesOn(job[j], job'[j])
<1>1. job \in [Jobs -> Row] /\ job[j] \in Row /\ RowOK(job[j])
  BY RowsInOrder DEF QueueInv, Shape
<1>2. ASSUME NEW i \in Jobs, NEW r, job' = [job EXCEPT ![i] = r], i = j => GoesOn(job[j], r)
      PROVE  GoesOn(job[j], job'[j])
  BY <1>1, <1>2 DEF GoesOn
<1>3. \A r : r.status # "RUNNING" => GoesOn(job[j], r)
  BY DEF GoesOn
<1>4. GoesOn(job[j], Sweep(job[j])) /\ Sweep(job[j]).run = job[j].run /\ Sweep(job[j]) \in Row
  <2>1. /\ RowOK(Reap(job[j])) /\ Kept(Reap(job[j]), job[j])
        /\ Reap(job[j]).status = "RUNNING" => Reap(job[j]) = job[j]
    <3>1. CASE Expired(job[j])
      <4>1. Reap(job[j]).status # "RUNNING"
        <5> DEFINE st == IF job[j].cancel THEN "CANCELLED"
                         ELSE IF job[j].attempts >= MaxAttempts THEN "FAILED" ELSE "RETRY"
        <5>1. st \in Status /\ st # "RUNNING" /\ 0 \in 0..MaxDelay
          BY DEF Status
        <5>2. Reap(job[j]) = Delayed(job[j], st, 0)
          BY <3>1 DEF Reap, Delayed
        <5> HIDE DEF st
        <5>3. Delayed(job[j], st, 0).status = st
          BY <1>1, <5>1, DelayedStatus
        <5>4. QED
          BY <5>1, <5>2, <5>3
      <4>2. QED
        BY <1>1, <4>1, ReapRow
    <3>2. CASE ~Expired(job[j])
      BY <1>1, <3>2, ReapRow DEF Reap
    <3>3. QED
      BY <3>1, <3>2
  <2>2. Sweep(job[j]) = Reap(job[j])
    BY <2>1 DEF Sweep, RowOK
  <2>3. QED
    BY <2>1, <2>2 DEF GoesOn, Kept, RowOK
<1>5. Swept[j] = Sweep(job[j])
  BY DEF Swept
<1>6. ASSUME NEW i \in Jobs, NEW k, NEW p, Insert(i, k, p)
      PROVE  GoesOn(job[j], job'[j])
  <2>1. PICK at : job' = [job EXCEPT ![i] = Fresh(k, p, at)]
    BY <1>6 DEF Insert
  <2>2. Fresh(k, p, at).status = "PENDING"
    BY DEF Fresh, Blank
  <2>3. QED
    BY <1>2, <1>3, <2>1, <2>2
<1>7. ASSUME ClientNext PROVE GoesOn(job[j], job'[j])
  <2>1. ASSUME NEW i \in Jobs, RequestCancel(i) PROVE GoesOn(job[j], job'[j])
    <3>1. i # j => job'[j] = job[j]
      BY <1>1, <2>1 DEF RequestCancel
    <3>2. i = j /\ job[j].status \in Waiting => job'[j].status = "CANCELLED"
      BY <1>1, <2>1 DEF RequestCancel, Row
    <3>3. i = j /\ job[j].status \notin Waiting =>
            /\ job'[j].owner = job[j].owner /\ job'[j].run = job[j].run
            /\ job'[j].attempts = job[j].attempts /\ job'[j].status = job[j].status
      BY <1>1, <2>1 DEF RequestCancel, Row
    <3>4. QED
      BY <3>1, <3>2, <3>3 DEF GoesOn
  <2>2. ASSUME NEW i \in Jobs, Retry(i) PROVE GoesOn(job[j], job'[j])
    <3>1. job' = [job EXCEPT ![i] = Reopened(job[i])]
      BY <2>2 DEF Retry
    <3>2. i = j => Reopened(job[i]).status = "PENDING"
      BY <1>1 DEF Reopened, Unleased, Row
    <3>3. QED
      BY <1>2, <1>3, <3>1, <3>2
  <2>3. ASSUME NEW old \in SUBSET Jobs, Purge(old) PROVE GoesOn(job[j], job'[j])
    <3>1. job'[j] = job[j] \/ job'[j] = [Blank EXCEPT !.status = "GONE"]
      BY <2>3 DEF Purge
    <3>2. QED
      BY <3>1 DEF GoesOn, Blank
  <2>4. QED
    BY <1>6, <1>7, <2>1, <2>2, <2>3 DEF ClientNext, Create, Replay
<1>8. ASSUME ClaimNothing \/ Tick PROVE GoesOn(job[j], job'[j])
  <2>1. CASE ClaimNothing
    BY <1>4, <1>5, <2>1 DEF ClaimNothing
  <2>2. CASE Tick
    <3>1. /\ job'[j].status = job[j].status /\ job'[j].owner = job[j].owner
          /\ job'[j].run = job[j].run /\ job'[j].attempts = job[j].attempts
      BY <1>1, <2>2 DEF Tick, Row
    <3>2. QED
      BY <3>1 DEF GoesOn
  <2>3. QED
    BY <1>8, <2>1, <2>2
<1>9. ASSUME NEW w \in Workers, NEW i \in Jobs,
             Heartbeat(w, i) \/ Complete(w, i) \/ (\E b \in BOOLEAN : Fail(w, i, b))
      PROVE  GoesOn(job[j], job'[j])
  <2>1. CASE Heartbeat(w, i)
    <3>1. i = j => GoesOn(job[j], [job[j] EXCEPT !.ttl = Lease])
      BY <1>1 DEF GoesOn, Row
    <3>2. QED
      BY <1>2, <2>1, <3>1 DEF Heartbeat
  <2>2. CASE Complete(w, i)
    <3> DEFINE st == IF job[i].cancel THEN "CANCELLED" ELSE "SUCCEEDED"
               s == Unleased(job[i], st)
    <3>1. st \in Dead \cup {"SUCCEEDED"} /\ job' = [job EXCEPT ![i] = s]
      BY <2>2 DEF Complete
    <3> HIDE DEF st
    <3>2. i = j => s.status = st
      BY <1>1, <3>1, UnleasedRow DEF Status
    <3> HIDE DEF s
    <3>3. i = j => GoesOn(job[j], s)
      BY <1>3, <3>1, <3>2
    <3>4. QED
      BY <1>2, <3>1, <3>3
  <2>3. ASSUME NEW b \in BOOLEAN, Fail(w, i, b) PROVE GoesOn(job[j], job'[j])
    <3> DEFINE st == Decision(job[i], b)
    <3>1. st \in Dead \cup {"RETRY"}
      BY DEF Decision
    <3>2. \E d \in 0..MaxDelay : job' = [job EXCEPT ![i] = [Unleased(job[i], st) EXCEPT !.wait = d]]
      <4>1. PICK c \in 1..MaxDelay :
               job' = [job EXCEPT ![i] = [Unleased(job[i], st) EXCEPT !.wait = IF st = "RETRY" THEN c ELSE 0]]
        BY <2>3 DEF Fail
      <4> DEFINE d == IF st = "RETRY" THEN c ELSE 0
      <4>2. d \in 0..MaxDelay
        OBVIOUS
      <4>3. job' = [job EXCEPT ![i] = [Unleased(job[i], st) EXCEPT !.wait = d]]
        BY <4>1
      <4> HIDE DEF d, st
      <4>4. QED
        BY <4>2, <4>3
    <3> HIDE DEF st
    <3>3. PICK d \in 0..MaxDelay : job' = [job EXCEPT ![i] = Delayed(job[i], st, d)]
      BY <3>2 DEF Delayed
    <3> DEFINE s == Delayed(job[i], st, d)
    <3>4. i = j => s.status = st
      <4>1. st \in Status
        BY <3>1 DEF Status
      <4>2. QED
        BY <1>1, <4>1, DelayedStatus
    <3>5. job' = [job EXCEPT ![i] = s]
      BY <3>3
    <3> HIDE DEF s
    <3>6. i = j => GoesOn(job[j], s)
      BY <1>3, <3>1, <3>4
    <3>7. QED
      BY <1>2, <3>5, <3>6
  <2>4. QED
    BY <1>9, <2>1, <2>2, <2>3
<1>10. ASSUME NEW w \in Workers, NEW i \in Jobs, Claim(w, i)
       PROVE  IF i = j THEN job'[j].owner = w /\ job'[j].run = job[j].run
              ELSE GoesOn(job[j], job'[j])
  <2>1. CASE i = j
    <3>1. job'[j] = Taken(Sweep(job[j]), w)
      BY <1>10, <2>1 DEF Claim, Swept
    <3>2. QED
      BY <1>4, <2>1, <3>1 DEF Taken, Row
  <2>2. CASE i # j
    BY <1>4, <1>5, <1>10, <2>2 DEF Claim, Swept
  <2>3. QED
    BY <2>1, <2>2
<1>11. QED
  BY <1>7, <1>8, <1>9, <1>10

\* A step that begins no attempt: each loop keeps its attempt, or leaves it.
LEMMA MatchStays ==
    ASSUME MatchInv, WorkerInv', \A j \in Jobs : GoesOn(job[j], job'[j]),
           \A w \in Workers : \/ loop'[w].job = NoJob
                              \/ /\ loop'[w].job = loop[w].job /\ loop'[w].run = loop[w].run
                                 /\ loop'[w].attempt = loop[w].attempt
    PROVE  MatchInv'
BY DEF MatchInv, Owns, HasAttempt, GoesOn

LEMMA MatchTake ==
    ASSUME MatchInv, WorkerInv', NEW w \in Workers, NEW j \in Jobs, Take(w, j)
    PROVE  MatchInv'
<1>1. Claim(w, j) /\ QueueInv /\ loop \in [Workers -> Loop]
  BY DEF Take, MatchInv, WorkerInv, LoopsOK
<1>2. job'[j].owner = w /\ job'[j].run = job[j].run
  BY <1>1, AttemptsGoOn
<1>3. \A i \in Jobs \ {j} : GoesOn(job[i], job'[i])
  BY <1>1, AttemptsGoOn
<1>4. loop'[w].job = j /\ loop'[w].run = job[j].run /\ loop'[w].attempt = job'[j].attempts
  BY <1>1 DEF Take
<1>5. \A v \in Workers \ {w} : loop'[v] = loop[v]
  BY <1>1 DEF Take
<1>6. ASSUME NEW v \in Workers, NEW i \in Jobs, loop'[v].job = i, Owns(v, i)'
      PROVE  HasAttempt(v, i)'
  <2>1. CASE v = w
    BY <1>2, <1>4, <1>6, <2>1 DEF HasAttempt
  <2>2. CASE v # w
    <3>1. i # j
      BY <1>2, <1>6, <2>2 DEF Owns
    <3>2. Owns(v, i) /\ job'[i].run = job[i].run /\ job'[i].attempts = job[i].attempts
      BY <1>3, <1>6, <3>1 DEF GoesOn, Owns
    <3>3. QED
      BY <1>5, <1>6, <2>2, <3>2 DEF MatchInv, HasAttempt
  <2>3. QED
    BY <2>1, <2>2
<1>7. QED
  BY <1>6 DEF MatchInv

LEMMA MatchNext == MatchInv /\ [WorkerNext]_workerVars => MatchInv'
<1> SUFFICES ASSUME MatchInv, [WorkerNext]_workerVars PROVE MatchInv'
  OBVIOUS
<1>1. WorkerInv' /\ QueueInv /\ loop \in [Workers -> Loop]
  BY WorkerNextInv DEF MatchInv, WorkerInv, LoopsOK
<1>2. UNCHANGED queueVars => \A j \in Jobs : GoesOn(job[j], job'[j])
  BY DEF queueVars, GoesOn
<1>3. ASSUME NEW w \in Workers
      PROVE  /\ \A pc : Leave(w, pc) => loop'[w].job = NoJob /\ \A v \in Workers \ {w} : loop'[v] = loop[v]
             /\ \A r : Failing(w, r) => /\ loop'[w].job = loop[w].job /\ loop'[w].run = loop[w].run
                                        /\ loop'[w].attempt = loop[w].attempt
                                        /\ \A v \in Workers \ {w} : loop'[v] = loop[v]
  BY <1>1 DEF Leave, Free, Failing, Loop
<1>4. CASE UNCHANGED workerVars \/ Client
  BY <1>1, <1>2, <1>4, AttemptsGoOn, MatchStays DEF workerVars, queueVars, Client
<1>5. ASSUME NEW w \in Workers, LoopStep(w) PROVE MatchInv'
  <2>1. ASSUME NEW j \in Jobs, Take(w, j) PROVE MatchInv'
    BY <1>1, <2>1, MatchTake
  <2>2. CASE Poll(w)
    BY <1>1, <2>2, AttemptsGoOn, MatchStays DEF Poll
  <2>3. CASE Beat(w)
    <3>1. loop[w].job \in Jobs
      BY <2>3 DEF Beat, MatchInv, WorkerInv, LoopsOK, Held
    <3>2. \A v \in Workers : /\ loop'[v].job = loop[v].job /\ loop'[v].run = loop[v].run
                             /\ loop'[v].attempt = loop[v].attempt
      BY <1>1, <2>3 DEF Beat, Loop
    <3>3. QED
      BY <1>1, <2>3, <3>1, <3>2, AttemptsGoOn, MatchStays DEF Beat
  <2>4. CASE LoseBeat(w)
    BY <1>1, <1>2, <1>3, <2>4, MatchStays DEF LoseBeat
  <2>5. CASE Collect(w)
    <3>1. UNCHANGED queueVars /\ (loop' = [loop EXCEPT ![w].pc = "completing"] \/ \E r \in BOOLEAN : Failing(w, r))
      BY <2>5 DEF Collect
    <3>2. loop' = [loop EXCEPT ![w].pc = "completing"] =>
            \A v \in Workers : /\ loop'[v].job = loop[v].job /\ loop'[v].run = loop[v].run
                               /\ loop'[v].attempt = loop[v].attempt
      BY <1>1 DEF Loop
    <3>3. QED
      BY <1>1, <1>2, <1>3, <3>1, <3>2, MatchStays
  <2>6. CASE Finish(w)
    <3>1. loop[w].job \in Jobs
      BY <2>6 DEF Finish, MatchInv, WorkerInv, LoopsOK, Held
    <3>2. \/ Complete(w, loop[w].job) /\ Leave(w, "idle")
          \/ Failing(w, TRUE) /\ UNCHANGED queueVars
      BY <2>6 DEF Finish
    <3>3. QED
      BY <1>1, <1>2, <1>3, <3>1, <3>2, AttemptsGoOn, MatchStays
  <2>7. CASE GiveUp(w)
    <3>1. loop[w].job \in Jobs /\ loop[w].retryable \in BOOLEAN
      BY <2>7 DEF GiveUp, MatchInv, WorkerInv, LoopsOK, Held, Loop
    <3>2. Leave(w, "idle") /\ (Fail(w, loop[w].job, loop[w].retryable) \/ UNCHANGED queueVars)
      BY <2>7 DEF GiveUp
    <3>3. QED
      BY <1>1, <1>2, <1>3, <3>1, <3>2, AttemptsGoOn, MatchStays
  <2>8. QED
    BY <1>5, <2>1, <2>2, <2>3, <2>4, <2>5, <2>6, <2>7 DEF LoopStep
<1>6. ASSUME NEW w \in Workers, Crash(w) \/ Shutdown(w) PROVE MatchInv'
  BY <1>1, <1>2, <1>3, <1>6, MatchStays DEF Crash, Shutdown
<1>7. ASSUME NEW t \in threads, ThreadStep(t) PROVE MatchInv'
  <2>1. t.w \in Workers /\ t.j \in Jobs
    BY DEF MatchInv, WorkerInv, Thread
  <2>2. UNCHANGED loop /\ (Heartbeat(t.w, t.j) \/ UNCHANGED queueVars)
    BY <1>7 DEF ThreadStep, Renew, LookUp, Apply, Raise, Discard
  <2>3. QED
    BY <1>1, <1>2, <2>1, <2>2, AttemptsGoOn, MatchStays
<1>8. ASSUME NEW old \in SUBSET batches, PurgeImports(old) PROVE MatchInv'
  BY <1>1, <1>2, <1>8, MatchStays DEF PurgeImports
<1>9. CASE Pass
  <2>1. \A v \in Workers : /\ loop'[v].job = loop[v].job /\ loop'[v].run = loop[v].run
                           /\ loop'[v].attempt = loop[v].attempt
    BY <1>1, <1>9 DEF Pass, Loop
  <2>2. QED
    BY <1>1, <1>9, <2>1, AttemptsGoOn, MatchStays DEF Pass
<1>10. QED
  BY <1>4, <1>5, <1>6, <1>7, <1>8, <1>9 DEF WorkerNext

\* One receipt is added, and it is of the job's attempt.
LEMMA OneReceiptAdded ==
    ASSUME QueueInv, NEW i \in Jobs, NEW st \in Terminal \cup {"RETRY"}, NEW w \in Workers \cup {NoWorker},
           Record(i, st, w), NEW j \in Jobs, NEW n \in DOMAIN receipts'[j] \ DOMAIN receipts[j]
    PROVE  /\ i = j /\ receipts'[j][n].by = w
           /\ receipts'[j][n].run = job[j].run /\ receipts'[j][n].attempt = job[j].attempts
<1> DEFINE a == [outcome |-> st, attempt |-> job[i].attempts, by |-> w, run |-> job[i].run]
<1>1. a \in Receipt /\ receipts[i] \in Seq(Receipt) /\ receipts \in [Jobs -> Seq(Receipt)]
  BY RowsInOrder DEF Row, Receipt, QueueInv, Shape
<1>2. receipts'[i] = Append(receipts[i], a) /\ \A k \in Jobs \ {i} : receipts'[k] = receipts[k]
  BY <1>1 DEF Record
<1>3. a.by = w /\ a.run = job[i].run /\ a.attempt = job[i].attempts
  OBVIOUS
<1> HIDE DEF a
<1>4. i = j
  BY <1>2
<1>5. n = Len(receipts[i]) + 1 /\ receipts'[i][n] = a
  BY <1>1, <1>2, <1>4
<1>6. QED
  BY <1>3, <1>4, <1>5

\* However many loops and abandoned threads there are, and whatever crashes, fails
\* or is late: a worker settles no attempt but the one its loop claimed.
THEOREM WorkerSettledAsClaimed == WorkerSpec => SettledAsClaimed
<1> DEFINE AsClaimed ==
        \A j \in Jobs : \A n \in DOMAIN receipts'[j] \ DOMAIN receipts[j] :
          LET r == receipts'[j][n]
          IN  r.by # NoWorker => /\ loop[r.by].job = j
                                 /\ loop[r.by].run = r.run
                                 /\ loop[r.by].attempt = r.attempt
<1>1. WorkerInit => MatchInv
  BY WorkerInitInv DEF WorkerInit, MatchInv, Free
<1>2. MatchInv /\ [WorkerNext]_workerVars => [AsClaimed]_workerVars
  <2> SUFFICES ASSUME MatchInv, WorkerNext, NEW j \in Jobs, NEW n \in DOMAIN receipts'[j] \ DOMAIN receipts[j],
                      receipts'[j][n].by # NoWorker
               PROVE  LET r == receipts'[j][n]
                      IN  loop[r.by].job = j /\ loop[r.by].run = r.run /\ loop[r.by].attempt = r.attempt
    OBVIOUS
  <2>1. receipts' # receipts
    OBVIOUS
  <2>2. ASSUME NEW i \in Jobs, RequestCancel(i) PROVE FALSE
    <3>1. Record(i, "CANCELLED", NoWorker)
      BY <2>1, <2>2 DEF RequestCancel
    <3>2. QED
      BY <3>1, OneReceiptAdded DEF MatchInv, WorkerInv
  <2>3. ~Client
    BY <2>1, <2>2 DEF Client, ClientNext, Create, Retry, Replay, Purge
  <2>4. ASSUME NEW w \in Workers, NEW i \in Jobs, loop[w].job = i, Owns(w, i),
               NEW st \in Terminal \cup {"RETRY"}, Record(i, st, w)
        PROVE  LET r == receipts'[j][n]
               IN  loop[r.by].job = j /\ loop[r.by].run = r.run /\ loop[r.by].attempt = r.attempt
    <3>1. /\ i = j /\ receipts'[j][n].by = w
          /\ receipts'[j][n].run = job[j].run /\ receipts'[j][n].attempt = job[j].attempts
      BY <2>4, OneReceiptAdded DEF MatchInv, WorkerInv
    <3>2. HasAttempt(w, i)
      BY <2>4 DEF MatchInv
    <3>3. QED
      BY <2>4, <3>1, <3>2 DEF HasAttempt
  <2>5. ASSUME NEW w \in Workers, LoopStep(w)
        PROVE  \E st \in Terminal \cup {"RETRY"} :
                  loop[w].job \in Jobs /\ Owns(w, loop[w].job) /\ Record(loop[w].job, st, w)
    <3>1. loop[w].pc \in Held => loop[w].job \in Jobs
      BY DEF MatchInv, WorkerInv, LoopsOK
    <3>2. (Finish(w) /\ Complete(w, loop[w].job)) \/ (GiveUp(w) /\ Fail(w, loop[w].job, loop[w].retryable))
      BY <2>1, <2>5 DEF LoopStep, Take, Claim, Poll, ClaimNothing, Beat, Heartbeat, LoseBeat, Collect, Finish,
                        GiveUp, queueVars
    <3>3. CASE Finish(w) /\ Complete(w, loop[w].job)
      <4>1. loop[w].job \in Jobs
        BY <3>1, <3>3 DEF Finish, Held
      <4>2. QED
        BY <3>3, <4>1 DEF Complete
    <3>4. CASE GiveUp(w) /\ Fail(w, loop[w].job, loop[w].retryable)
      <4>1. loop[w].job \in Jobs
        BY <3>1, <3>4 DEF GiveUp, Held
      <4>2. Decision(job[loop[w].job], loop[w].retryable) \in Terminal \cup {"RETRY"}
        BY DEF Decision
      <4>3. QED
        BY <3>4, <4>1, <4>2 DEF Fail
    <3>5. QED
      BY <3>2, <3>3, <3>4
  <2>6. ASSUME NEW w \in Workers PROVE ~Crash(w) /\ ~Shutdown(w)
    BY <2>1 DEF Crash, Shutdown, queueVars
  <2>7. ASSUME NEW t \in threads PROVE ~ThreadStep(t)
    BY <2>1 DEF ThreadStep, Renew, Heartbeat, LookUp, Apply, Raise, Discard, queueVars
  <2>8. ASSUME NEW old \in SUBSET batches PROVE ~PurgeImports(old)
    BY <2>1 DEF PurgeImports, queueVars
  <2>9. ~Pass
    BY <2>1 DEF Pass, Tick
  <2>10. QED
    BY <2>3, <2>4, <2>5, <2>6, <2>7, <2>8, <2>9 DEF WorkerNext
<1>3. QED
  BY <1>1, <1>2, MatchNext, PTL DEF WorkerSpec, SettledAsClaimed

-----------------------------------------------------------------------------
(* An import is applied once. *)

Settled(j) == job[j].status \in Terminal \cup {"GONE"}
Busy(j)    == \E t \in threads : t.j = j

\* A batch can only be missing because retention deleted it, after its job was
\* settled for good and nobody worked for it any more.
Once(j) ==
    /\ effects[j] \in {0, 1}
    /\ effects[j] = 1 => j \in batches \/ (MaxRuns = 0 /\ Settled(j) /\ ~Busy(j))
    /\ j \in batches \/ Busy(j) => job[j].status # "NEW"

OnceInv == /\ WorkerInv
           /\ effects \in [Jobs -> Nat] /\ batches \subseteq ImportJobs
           /\ \A j \in ImportJobs : Once(j)

\* A job that is settled stays so unless the operator retries it, and no job
\* becomes new again.
LEMMA SettledStays ==
    ASSUME QueueInv, QueueInv', [QueueNext]_queueVars, NEW j \in Jobs
    PROVE  /\ MaxRuns = 0 /\ Settled(j) => Settled(j)'
           /\ job[j].status # "NEW" => job'[j].status # "NEW"
<1>1. CASE UNCHANGED queueVars
  BY <1>1 DEF queueVars, Settled
<1>2. CASE QueueNext
  <2> DEFINE r == job[j]
             s == job'[j]
  <2>1. Allowed(r, s)
    BY <1>2, EveryStepAllowed DEF Lawful
  <2>2. r \in Row /\ s \in Row
    BY DEF QueueInv, Shape
  <2>3. MaxRuns = 0 => r.run = 0 /\ s.run = 0
    BY <2>2 DEF Row
  <2> HIDE DEF r, s
  <2>4. /\ MaxRuns = 0 /\ r.status \in Terminal \cup {"GONE"} => s.status \in Terminal \cup {"GONE"}
        /\ r.status # "NEW" => s.status # "NEW"
    BY <2>1, <2>3 DEF Allowed, Stays, Submits, Starts, Settles, Forgets, Phase
  <2>5. QED
    BY <2>4 DEF r, s, Settled
<1>3. QED
  BY <1>1, <1>2

\* A step that applies nothing, forgets no batch and takes no job.
LEMMA OnceCalm ==
    ASSUME OnceInv, WorkerInv', [QueueNext]_queueVars, UNCHANGED <<effects, batches>>,
           \A t \in threads' : Busy(t.j)
    PROVE  OnceInv'
<1>1. ASSUME NEW j \in ImportJobs
      PROVE  Once(j)'
  <2>1. /\ MaxRuns = 0 /\ Settled(j) => Settled(j)'
        /\ job[j].status # "NEW" => job'[j].status # "NEW"
    BY SettledStays DEF OnceInv, WorkerInv
  <2>2. Busy(j)' => Busy(j)
    BY DEF Busy
  <2>3. QED
    BY <2>1, <2>2 DEF Once, OnceInv
<1>2. QED
  BY <1>1 DEF OnceInv

LEMMA OnceTake ==
    ASSUME OnceInv, WorkerInv', [QueueNext]_queueVars, NEW w \in Workers, NEW j \in Jobs, Take(w, j)
    PROVE  OnceInv'
<1>1. job[j].status \in Active /\ job'[j].status = "RUNNING"
  BY ClaimAllowed DEF Take, Starts, OnceInv, WorkerInv
<1>2. ASSUME NEW i \in ImportJobs
      PROVE  Once(i)'
  <2>1. /\ MaxRuns = 0 /\ Settled(i) => Settled(i)'
        /\ job[i].status # "NEW" => job'[i].status # "NEW"
    BY SettledStays DEF OnceInv, WorkerInv
  <2>2. i # j => (Busy(i)' => Busy(i))
    BY DEF Busy, Take
  <2>3. ~Settled(j)
    BY <1>1 DEF Settled
  <2>4. UNCHANGED <<effects, batches>>
    BY DEF Take
  <2>5. QED
    BY <1>1, <2>1, <2>2, <2>3, <2>4 DEF Once, OnceInv
<1>3. QED
  BY <1>2 DEF OnceInv, Take

LEMMA OnceApply ==
    ASSUME OnceInv, WorkerInv', NEW t \in threads, Apply(t)
    PROVE  OnceInv'
<1>1. t.j \in Jobs /\ Busy(t.j)
  BY DEF OnceInv, WorkerInv, Thread, Busy
<1>2. \A i \in Jobs : effects'[i] = IF i = t.j THEN effects[i] + 1 ELSE effects[i]
  BY DEF OnceInv, Apply, Effect
<1>3. effects' \in [Jobs -> Nat] /\ batches' \subseteq ImportJobs
  BY <1>1 DEF OnceInv, Apply, Effect
<1>4. \A i \in Jobs : Busy(i)' => Busy(i)
  <2>1. \A u \in threads' : \E v \in threads : u.j = v.j
    BY DEF Apply, Advance, OnceInv, WorkerInv, Thread
  <2>2. QED
    BY <2>1 DEF Busy
<1>5. ASSUME NEW i \in ImportJobs
      PROVE  Once(i)'
  <2>1. CASE i = t.j
    <3>1. effects[i] = 0 /\ job[i].status # "NEW"
      BY <1>1, <2>1 DEF OnceInv, Once, Apply, Applied
    <3>2. i \in batches' /\ effects'[i] = 1 /\ UNCHANGED job
      BY <1>2, <2>1, <3>1 DEF Apply, Effect, queueVars
    <3>3. QED
      BY <3>1, <3>2 DEF Once
  <2>2. CASE i # t.j
    <3>1. effects'[i] = effects[i] /\ (i \in batches' <=> i \in batches) /\ UNCHANGED job
      BY <1>2, <2>2 DEF Apply, Effect, queueVars
    <3>2. QED
      BY <1>4, <3>1 DEF Once, OnceInv, Settled
  <2>3. QED
    BY <2>1, <2>2
<1>6. QED
  BY <1>3, <1>5 DEF OnceInv

LEMMA OncePurge ==
    ASSUME ~ImportsAge \/ MaxRuns = 0,
           OnceInv, WorkerInv', NEW old \in SUBSET batches, PurgeImports(old)
    PROVE  OnceInv'
<1>1. MaxRuns = 0
  BY DEF PurgeImports
<1>2. ASSUME NEW j \in old
      PROVE  j \in Jobs /\ Settled(j) /\ ~Busy(j)
  <2>1. j \in ImportJobs /\ job[j].status \notin Active \cup {"NEW"} /\ ~Busy(j)
    BY DEF PurgeImports, Busy, OnceInv, Once
  <2>2. job[j] \in Row
    BY <2>1 DEF OnceInv, WorkerInv, QueueInv, Shape
  <2>3. QED
    BY <2>1, <2>2 DEF Row, Settled
<1>3. UNCHANGED <<job, threads, effects>> /\ batches' = batches \ old
  BY DEF PurgeImports, queueVars
<1>4. QED
  BY <1>1, <1>2, <1>3 DEF OnceInv, Once, Settled, Busy

LEMMA OnceNext ==
    ASSUME ~ImportsAge \/ MaxRuns = 0
    PROVE  OnceInv /\ [WorkerNext]_workerVars => OnceInv'
<1> SUFFICES ASSUME OnceInv, [WorkerNext]_workerVars
             PROVE  OnceInv'
  OBVIOUS
<1>1. WorkerInv' /\ [QueueNext]_queueVars
  BY OnTheTable, WorkerNextInv DEF OnceInv
<1>2. \A t \in threads : Busy(t.j)
  BY DEF Busy
<1>3. CASE UNCHANGED workerVars \/ Client \/ Pass
  BY <1>1, <1>2, <1>3, OnceCalm DEF workerVars, Client, Pass
<1>4. ASSUME NEW w \in Workers, LoopStep(w)
      PROVE  OnceInv'
  <2>1. ASSUME NEW j \in Jobs, Take(w, j)
        PROVE  OnceInv'
    BY <1>1, <2>1, OnceTake
  <2>2. CASE Poll(w) \/ Beat(w) \/ LoseBeat(w) \/ Collect(w) \/ Finish(w) \/ GiveUp(w)
    <3>1. UNCHANGED <<effects, batches>> /\ threads' \subseteq threads
      BY <2>2 DEF Poll, Beat, LoseBeat, Collect, Finish, GiveUp
    <3>2. QED
      BY <1>1, <1>2, <3>1, OnceCalm
  <2>3. QED
    BY <1>4, <2>1, <2>2 DEF LoopStep
<1>5. ASSUME NEW w \in Workers, Crash(w) \/ Shutdown(w)
      PROVE  OnceInv'
  BY <1>1, <1>2, <1>5, OnceCalm DEF Crash, Shutdown
<1>6. ASSUME NEW t \in threads, ThreadStep(t)
      PROVE  OnceInv'
  <2>1. \A ph : Advance(t, ph) => \A u \in threads' : Busy(u.j)
    BY DEF Advance, Busy, OnceInv, WorkerInv, Thread
  <2>2. CASE Apply(t)
    BY <1>1, <2>2, OnceApply
  <2>3. CASE Renew(t) \/ LookUp(t) \/ Raise(t)
    <3>1. (\E ph : Advance(t, ph)) /\ UNCHANGED <<effects, batches>>
      BY <2>3 DEF Renew, LookUp, Raise
    <3>2. QED
      BY <1>1, <2>1, <3>1, OnceCalm
  <2>4. CASE Discard(t)
    BY <1>1, <1>2, <2>4, OnceCalm DEF Discard
  <2>5. QED
    BY <1>6, <2>2, <2>3, <2>4 DEF ThreadStep
<1>7. ASSUME NEW old \in SUBSET batches, PurgeImports(old)
      PROVE  OnceInv'
  BY <1>1, <1>7, OncePurge
<1>8. QED
  BY <1>3, <1>4, <1>5, <1>6, <1>7 DEF WorkerNext

\* A CSV import is applied once, whatever crashes, fails or is late and however
\* many threads execute its job, if retention keeps import batches or no
\* operator retries a settled job.  (With both, an import whose batch was
\* deleted is applied again.)
THEOREM WorkerImportAppliedOnce ==
    ASSUME ~ImportsAge \/ MaxRuns = 0
    PROVE  WorkerSpec => []ImportAppliedOnce
<1>1. WorkerInit => OnceInv
  <2> SUFFICES ASSUME WorkerInit PROVE OnceInv
    OBVIOUS
  <2>1. WorkerInv
    BY WorkerInitInv
  <2>2. QED
    BY <2>1 DEF WorkerInit, OnceInv, Once, Busy
<1>2. OnceInv /\ [WorkerNext]_workerVars => OnceInv'
  BY OnceNext
<1>3. OnceInv => ImportAppliedOnce
  BY DEF OnceInv, Once, ImportAppliedOnce
<1>4. QED
  BY <1>1, <1>2, <1>3, PTL DEF WorkerSpec

-----------------------------------------------------------------------------
(* Renewals on time, database calls that succeed and processes that live.    *)

\* Worker w still owns job j, and its lease has n ticks left at least.
Leased(w, j, n) == Owns(w, j) /\ job[j].ttl >= n

\* A loop that waits was renewed less than a lease ago, so nobody took its job;
\* it waits for the one thread it started.
LoopKept(w) ==
    loop[w].pc = "exec" =>
        /\ loop[w].since <= BeatEvery
        /\ Leased(w, loop[w].job, Lease - loop[w].since)

Waits(t) == loop[t.w].pc = "exec" /\ loop[t.w].job = t.j

LeaseInv ==
    /\ WorkerInv
    /\ \A w \in Workers : LoopKept(w)
    /\ \A t \in threads : Waits(t)
    /\ \A s, t \in threads : s.w = t.w => s = t

\* Nothing but its own worker, or time, touches the lease of a running job
\* before it expires.
LEMMA LeaseStays ==
    ASSUME QueueInv, NEW w \in Workers, NEW j \in Jobs, NEW n \in Nat, Leased(w, j, n), n <= Lease
    PROVE  /\ ClientNext \/ ClaimNothing => Leased(w, j, n)'
           /\ \A v \in Workers, i \in Jobs : Claim(v, i) => Leased(w, j, n)'
           /\ \A v \in Workers, i \in Jobs : Heartbeat(v, i) => Leased(w, j, n)'
           /\ \A v \in Workers, i \in Jobs :
                (Complete(v, i) \/ \E b \in BOOLEAN : Fail(v, i, b)) /\ v # w => Leased(w, j, n)'
           /\ Tick => Leased(w, j, n - 1)'
<1>1. job \in [Jobs -> Row] /\ job[j] \in Row
  BY DEF QueueInv, Shape
<1>2. job[j].status = "RUNNING" /\ job[j].owner = w /\ job[j].ttl \in Int /\ job[j].ttl >= n
  BY <1>1 DEF Leased, Owns, Row
<1>3. Sweep(job[j]) = job[j]
  BY <1>2 DEF Sweep, Reap, Expired
<1>4. Swept[j] = job[j]
  BY <1>3 DEF Swept
<1>5. ASSUME job'[j] = job[j]
      PROVE  Leased(w, j, n)'
  BY <1>5 DEF Leased, Owns
<1>6. ASSUME NEW i \in Jobs, NEW r, job' = [job EXCEPT ![i] = r], i # j
      PROVE  job'[j] = job[j]
  BY <1>1, <1>6
<1>7. ASSUME ClientNext
      PROVE  Leased(w, j, n)'
  <2>1. ASSUME NEW i \in Jobs, NEW k \in Keys \cup {NoKey}, NEW p \in Int, Insert(i, k, p)
        PROVE  job'[j] = job[j]
    BY <1>2, <1>6, <2>1 DEF Insert
  <2>2. ASSUME NEW i \in Jobs, NEW k \in Keys \cup {NoKey}, NEW p \in Priorities, Create(i, k, p)
        PROVE  Leased(w, j, n)'
    BY <1>5, <2>1, <2>2 DEF Create
  <2>3. ASSUME NEW i \in Jobs, RequestCancel(i)
        PROVE  Leased(w, j, n)'
    <3>1. CASE i = j
      <4>1. job' = [job EXCEPT ![j].cancel = TRUE]
        BY <1>2, <2>3, <3>1 DEF RequestCancel
      <4>2. job'[j].status = job[j].status /\ job'[j].owner = job[j].owner /\ job'[j].ttl = job[j].ttl
        BY <1>1, <4>1 DEF Row
      <4>3. QED
        BY <4>2 DEF Leased, Owns
    <3>2. CASE i # j
      BY <1>1, <1>5, <2>3, <3>2 DEF RequestCancel
    <3>3. QED
      BY <3>1, <3>2
  <2>4. ASSUME NEW i \in Jobs, Retry(i)
        PROVE  Leased(w, j, n)'
    BY <1>1, <1>2, <1>5, <2>4 DEF Retry
  <2>5. ASSUME NEW h \in Jobs, NEW i \in Jobs, NEW m \in DOMAIN receipts[h], Replay(h, m, i)
        PROVE  Leased(w, j, n)'
    <3>1. job[h].prio \in Int
      BY RowsInOrder DEF Row
    <3>2. QED
      BY <1>5, <2>1, <2>5, <3>1 DEF Replay
  <2>6. ASSUME NEW old \in SUBSET Jobs, Purge(old)
        PROVE  Leased(w, j, n)'
    <3>1. ~Purgeable(j)
      BY <1>2 DEF Purgeable
    <3>2. QED
      BY <1>5, <2>6, <3>1 DEF Purge
  <2>7. QED
    BY <1>7, <2>2, <2>3, <2>4, <2>5, <2>6 DEF ClientNext
<1>8. ASSUME ClaimNothing
      PROVE  Leased(w, j, n)'
  BY <1>4, <1>5, <1>8 DEF ClaimNothing
<1>9. ASSUME NEW v \in Workers, NEW i \in Jobs, Claim(v, i)
      PROVE  Leased(w, j, n)'
  <2>1. i # j
    BY <1>2, <1>3, <1>9 DEF Claim, Eligible
  <2>2. job'[j] = Swept[j]
    BY <1>9, <2>1 DEF Claim, Swept
  <2>3. QED
    BY <1>4, <1>5, <2>2
<1>10. ASSUME NEW v \in Workers, NEW i \in Jobs, Heartbeat(v, i)
       PROVE  Leased(w, j, n)'
  <2>1. CASE i = j
    <3>1. job'[j].status = job[j].status /\ job'[j].owner = job[j].owner /\ job'[j].ttl = Lease
      BY <1>1, <1>10, <2>1 DEF Heartbeat, Row
    <3>2. QED
      BY <1>2, <3>1 DEF Leased, Owns
  <2>2. CASE i # j
    BY <1>1, <1>5, <1>10, <2>2 DEF Heartbeat
  <2>3. QED
    BY <2>1, <2>2
<1>11. ASSUME NEW v \in Workers, NEW i \in Jobs, v # w,
              Complete(v, i) \/ \E b \in BOOLEAN : Fail(v, i, b)
       PROVE  Leased(w, j, n)'
  <2>1. i # j
    BY <1>2, <1>11 DEF Complete, Fail, Owns
  <2>2. \E r : job' = [job EXCEPT ![i] = r]
    BY <1>11 DEF Complete, Fail
  <2>3. QED
    BY <1>5, <1>6, <2>1, <2>2
<1>12. ASSUME Tick
       PROVE  Leased(w, j, n - 1)'
  <2>1. /\ job'[j].status = job[j].status /\ job'[j].owner = job[j].owner
        /\ job'[j].ttl = job[j].ttl - 1
    <3> DEFINE m == IF job[j].wait > 0 THEN job[j].wait - 1 ELSE job[j].wait
               u == IF job[j].status = "RUNNING" /\ job[j].ttl >= 0 THEN job[j].ttl - 1 ELSE job[j].ttl
    <3>1. job'[j] = [job[j] EXCEPT !.ttl = u, !.wait = m]
      BY <1>12 DEF Tick
    <3>2. u = job[j].ttl - 1
      BY <1>2
    <3> HIDE DEF m, u
    <3>3. QED
      BY <1>1, <3>1, <3>2 DEF Row
  <2>2. QED
    BY <1>2, <2>1 DEF Leased, Owns
<1>13. QED
  BY <1>7, <1>8, <1>9, <1>10, <1>11, <1>12

\* One step of an undisturbed system.
LEMMA LeaseNext ==
    ASSUME Timely, ~Faults, Mortal = {}
    PROVE  LeaseInv /\ [WorkerNext]_workerVars => LeaseInv'
<1> SUFFICES ASSUME LeaseInv, [WorkerNext]_workerVars
             PROVE  LeaseInv'
  OBVIOUS
<1>1. WorkerInv /\ WorkerInv' /\ QueueInv
  BY WorkerNextInv DEF LeaseInv, WorkerInv
<1>2. /\ loop \in [Workers -> Loop] /\ loop' \in [Workers -> Loop]
      /\ threads \subseteq Thread /\ threads' \subseteq Thread
      /\ \A w \in Workers : loop[w].since \in Nat /\ loop'[w].since \in Nat
      /\ \A w \in Workers : loop[w].pc = "exec" => loop[w].job \in Jobs
  BY <1>1 DEF WorkerInv, LoopsOK, Loop, Held
\* A loop that goes on waiting keeps its lease, whatever the others do.
<1>3. ASSUME NEW w \in Workers, loop'[w] = loop[w],
             \/ ClientNext \/ ClaimNothing \/ UNCHANGED job
             \/ \E v \in Workers, i \in Jobs : Claim(v, i) \/ Heartbeat(v, i)
             \/ \E v \in Workers \ {w}, i \in Jobs :
                   Complete(v, i) \/ \E r \in BOOLEAN : Fail(v, i, r)
      PROVE  LoopKept(w)'
  <2> SUFFICES ASSUME loop[w].pc = "exec" PROVE LoopKept(w)'
    BY <1>3 DEF LoopKept
  <2>1. PICK n \in Nat, j \in Jobs : /\ n = Lease - loop[w].since /\ j = loop[w].job
                                    /\ n <= Lease /\ Leased(w, j, n)
    BY <1>2 DEF LeaseInv, LoopKept
  <2>2. UNCHANGED job => Leased(w, j, n)'
    BY <2>1 DEF Leased, Owns
  <2>3. Leased(w, j, n)'
    BY <1>1, <1>3, <2>1, <2>2, LeaseStays
  <2>4. QED
    BY <1>3, <2>1, <2>3 DEF LoopKept, Leased, LeaseInv
\* Time passes between two renewals.
<1>4. ASSUME NEW w \in Workers, Tick, loop[w].pc = "exec", loop[w].since < BeatEvery,
             loop'[w].job = loop[w].job, loop'[w].since = loop[w].since + 1
      PROVE  LoopKept(w)'
  <2>1. PICK n \in Nat, j \in Jobs : /\ n = Lease - loop[w].since /\ j = loop[w].job
                                    /\ n <= Lease /\ Leased(w, j, n)
    BY <1>2, <1>4 DEF LeaseInv, LoopKept
  <2>2. Leased(w, j, n - 1)'
    BY <1>1, <1>4, <2>1, LeaseStays
  <2>3. n - 1 = Lease - loop'[w].since /\ loop'[w].since <= BeatEvery
    BY <1>2, <1>4, <2>1
  <2>4. QED
    BY <1>4, <2>1, <2>2, <2>3 DEF LoopKept, Leased
\* A step that moves no waiting loop away from its thread.
<1>5. ASSUME \A t \in threads' : \E s \in threads : s.w = t.w /\ s.j = t.j,
             \A s, t \in threads' : s.w = t.w => s = t,
             \A w \in Workers : LoopKept(w)',
             \A t \in threads' : loop[t.w].pc = "exec" =>
                 loop'[t.w].pc = "exec" /\ loop'[t.w].job = loop[t.w].job
      PROVE  LeaseInv'
  <2>1. ASSUME NEW t \in threads'
        PROVE  Waits(t)'
    <3>1. PICK s \in threads : s.w = t.w /\ s.j = t.j
      BY <1>5
    <3>2. loop[t.w].pc = "exec" /\ loop[t.w].job = t.j
      BY <3>1 DEF LeaseInv, Waits
    <3>3. QED
      BY <1>5, <3>2 DEF Waits
  <2>2. QED
    BY <1>1, <1>5, <2>1 DEF LeaseInv
<1>6. ASSUME threads' \subseteq threads
      PROVE  /\ \A t \in threads' : \E s \in threads : s.w = t.w /\ s.j = t.j
             /\ \A s, t \in threads' : s.w = t.w => s = t
  BY <1>6 DEF LeaseInv
<1>7. CASE UNCHANGED workerVars
  BY <1>7 DEF workerVars, LeaseInv, WorkerInv, QueueInv, Shape, RowsOK, LoopKept, Waits, Leased, Owns,
              LoopsOK, ReceiptsBehind, OneReceiptPerAttempt, OneActivePerKey
<1>8. CASE Client \/ \E old \in SUBSET batches : PurgeImports(old)
  <2>1. UNCHANGED <<loop, threads>> /\ (ClientNext \/ UNCHANGED job)
    BY <1>8 DEF Client, PurgeImports, queueVars
  <2>2. \A w \in Workers : LoopKept(w)'
    BY <1>3, <2>1
  <2>3. QED
    BY <1>5, <1>6, <2>1, <2>2
<1>9. ASSUME NEW w \in Workers, LoopStep(w)
      PROVE  LeaseInv'
  <2>1. ASSUME NEW j \in Jobs, Take(w, j)
        PROVE  LeaseInv'
    <3> DEFINE n == [pc |-> "exec", job |-> j, run |-> job[j].run,
                     attempt |-> job'[j].attempts, retryable |-> FALSE, since |-> 0]
               t == [w |-> w, j |-> j, run |-> job[j].run,
                     attempt |-> job'[j].attempts, phase |-> "begin"]
    <3>1. loop' = [loop EXCEPT ![w] = n] /\ threads' = threads \cup {t} /\ Claim(w, j)
      BY <2>1 DEF Take
    <3>2. \A s \in threads : s.w # w
      BY <2>1 DEF Take, LeaseInv, Waits
    <3>3. n.pc = "exec" /\ n.job = j /\ n.since = 0 /\ t.w = w /\ t.j = j
      OBVIOUS
    <3>4. Leased(w, j, Lease)'
      <4>1. /\ Sweep(job[j]) \in Row
            /\ job'[j] = Taken(Sweep(job[j]), w)
        BY <1>1, <3>1, SweepRow, RowsInOrder DEF Claim, Swept, RowOK
      <4>2. QED
        BY <4>1 DEF Taken, Row, Leased, Owns
    <3> HIDE DEF n, t
    <3>5. loop'[w] = n /\ \A v \in Workers \ {w} : loop'[v] = loop[v]
      BY <1>2, <3>1
    <3>6. LoopKept(w)'
      BY <3>3, <3>4, <3>5 DEF LoopKept
    <3>7. \A v \in Workers \ {w} : LoopKept(v)'
      BY <1>3, <3>1, <3>5
    <3>8. ASSUME NEW s \in threads'
          PROVE  Waits(s)'
      <4>1. CASE s = t
        BY <3>3, <3>5, <4>1 DEF Waits
      <4>2. CASE s \in threads
        BY <1>2, <3>2, <3>5, <4>2 DEF Waits, LeaseInv, Thread
      <4>3. QED
        BY <3>1, <4>1, <4>2
    <3>9. \A s, u \in threads' : s.w = u.w => s = u
      BY <3>1, <3>2, <3>3 DEF LeaseInv
    <3>10. QED
      BY <1>1, <3>6, <3>7, <3>8, <3>9 DEF LeaseInv
  <2>2. CASE Poll(w)
    <3>1. UNCHANGED <<loop, threads>> /\ ClaimNothing
      BY <2>2 DEF Poll
    <3>2. \A v \in Workers : LoopKept(v)'
      BY <1>3, <3>1
    <3>3. QED
      BY <1>5, <1>6, <3>1, <3>2
  <2>3. CASE Beat(w)
    <3> DEFINE j == loop[w].job
               n == [loop[w] EXCEPT !.since = 0]
    <3>1. j \in Jobs /\ Heartbeat(w, j) /\ UNCHANGED threads /\ loop' = [loop EXCEPT ![w] = n]
      BY <1>2, <2>3 DEF Beat
    <3>2. n.pc = "exec" /\ n.job = j /\ n.since = 0
      BY <1>2, <2>3 DEF Beat, Loop
    <3>3. Leased(w, j, Lease)'
      <4>1. job[j] \in Row /\ job'[j] = [job[j] EXCEPT !.ttl = Lease]
        BY <1>1, <3>1 DEF Heartbeat, QueueInv, Shape
      <4>2. QED
        BY <3>1, <4>1 DEF Heartbeat, Row, Leased, Owns
    <3>4. loop'[w] = n /\ \A v \in Workers \ {w} : loop'[v] = loop[v]
      BY <1>2, <3>1
    <3> HIDE DEF n
    <3>5. LoopKept(w)'
      BY <3>2, <3>3, <3>4 DEF LoopKept
    <3>6. \A v \in Workers \ {w} : LoopKept(v)'
      BY <1>3, <3>1, <3>4
    <3>7. \A t \in threads' : loop'[t.w].pc = loop[t.w].pc /\ loop'[t.w].job = loop[t.w].job
      BY <1>2, <2>3, <3>2, <3>4 DEF Beat, Thread
    <3>8. QED
      BY <1>5, <1>6, <3>1, <3>5, <3>6, <3>7
  <2>4. CASE LoseBeat(w)
    BY <2>4 DEF LoseBeat, LeaseInv, LoopKept, Leased
  <2>5. CASE Collect(w)
    <3>1. PICK t \in threads : t.w = w /\ threads' = threads \ {t}
      BY <2>5 DEF Collect
    <3>2. UNCHANGED queueVars /\ loop'[w].pc # "exec" /\ \A v \in Workers \ {w} : loop'[v] = loop[v]
      BY <1>2, <2>5 DEF Collect, Failing, Loop
    <3>3. \A v \in Workers : LoopKept(v)'
      BY <1>3, <3>2 DEF LoopKept, queueVars
    <3>4. \A s \in threads' : s.w # w /\ loop'[s.w] = loop[s.w]
      BY <1>2, <3>1, <3>2 DEF LeaseInv, Thread
    <3>5. QED
      BY <1>5, <1>6, <3>1, <3>3, <3>4
  <2>6. CASE Finish(w) \/ GiveUp(w)
    <3> DEFINE j == loop[w].job
    <3>1. loop[w].pc \in {"completing", "failing"} /\ j \in Jobs /\ UNCHANGED threads
      BY <1>1, <2>6 DEF Finish, GiveUp, WorkerInv, LoopsOK, Held
    <3>2. loop'[w].pc # "exec" /\ \A v \in Workers \ {w} : loop'[v] = loop[v]
      BY <1>2, <2>6 DEF Finish, GiveUp, Leave, Failing, Free, Loop
    <3>3. Complete(w, j) \/ (\E b \in BOOLEAN : Fail(w, j, b)) \/ UNCHANGED queueVars
      <4>1. loop[w].retryable \in BOOLEAN
        BY <1>2 DEF Loop
      <4>2. QED
        BY <2>6, <4>1 DEF Finish, GiveUp
    <3>4. \A v \in Workers \ {w} : LoopKept(v)'
      BY <1>3, <3>1, <3>2, <3>3 DEF queueVars
    <3>5. LoopKept(w)'
      BY <3>2 DEF LoopKept
    <3>6. \A t \in threads' : t.w # w /\ loop'[t.w] = loop[t.w]
      BY <1>2, <3>1, <3>2 DEF LeaseInv, Waits, Thread
    <3>7. QED
      BY <1>5, <1>6, <3>1, <3>4, <3>5, <3>6
  <2>7. QED
    BY <1>9, <2>1, <2>2, <2>3, <2>4, <2>5, <2>6 DEF LoopStep
<1>10. ASSUME NEW t \in threads, ThreadStep(t)
       PROVE  LeaseInv'
  <2>1. UNCHANGED loop /\ (Heartbeat(t.w, t.j) \/ UNCHANGED queueVars)
    BY <1>10 DEF ThreadStep, Renew, LookUp, Apply, Raise, Discard
  <2>2. t.w \in Workers /\ t.j \in Jobs
    BY <1>2 DEF Thread
  <2>3. \A v \in Workers : LoopKept(v)'
    BY <1>3, <2>1, <2>2 DEF queueVars
  <2>4. CASE Discard(t)
    BY <1>5, <1>6, <2>1, <2>3, <2>4 DEF Discard
  <2>5. ASSUME NEW ph, Advance(t, ph)
        PROVE  LeaseInv'
    <3> DEFINE u == [t EXCEPT !.phase = ph]
    <3>1. u.w = t.w /\ u.j = t.j /\ threads' = (threads \ {t}) \cup {u}
      BY <1>2, <2>5 DEF Advance, Thread
    <3> HIDE DEF u
    <3>2. \A s \in threads' : \E v \in threads : v.w = s.w /\ v.j = s.j
      BY <3>1
    <3>3. \A s, v \in threads' : s.w = v.w => s = v
      BY <3>1 DEF LeaseInv
    <3>4. QED
      BY <1>5, <2>1, <2>3, <3>2, <3>3
  <2>6. Discard(t) \/ \E ph : Advance(t, ph)
    BY <1>10 DEF ThreadStep, Renew, LookUp, Apply, Raise
  <2>7. QED
    BY <2>4, <2>5, <2>6
<1>11. CASE Pass
  <2>1. Tick /\ UNCHANGED threads
    BY <1>11 DEF Pass
  <2>2. ASSUME NEW w \in Workers
        PROVE  /\ loop'[w].pc = loop[w].pc /\ loop'[w].job = loop[w].job
               /\ loop[w].pc = "exec" => loop[w].since < BeatEvery /\ loop'[w].since = loop[w].since + 1
    BY <1>2, <1>11 DEF Pass, Loop
  <2>3. ASSUME NEW w \in Workers
        PROVE  LoopKept(w)'
    <3>1. CASE loop[w].pc = "exec"
      BY <1>4, <2>1, <2>2, <3>1
    <3>2. CASE loop[w].pc # "exec"
      BY <2>2, <3>2 DEF LoopKept
    <3>3. QED
      BY <3>1, <3>2
  <2>4. \A t \in threads : t.w \in Workers
    BY <1>2 DEF Thread
  <2>5. QED
    BY <1>5, <1>6, <2>1, <2>2, <2>3, <2>4
<1>12. QED
  BY <1>7, <1>8, <1>9, <1>10, <1>11 DEF WorkerNext, Crash, Shutdown

\* While every process lives, renews in time and reaches the database, no two
\* threads execute one job (docs/135_LONG_RUNNING_JOB_LEASE_HEARTBEAT.md),
\* whatever lease, interval and number of workers.
THEOREM WorkerNoOverlap == Timely /\ ~Faults /\ Mortal = {} => (WorkerSpec => []NoOverlap)
<1> SUFFICES ASSUME Timely, ~Faults, Mortal = {}
             PROVE  WorkerSpec => []NoOverlap
  OBVIOUS
<1>1. WorkerInit => LeaseInv
  <2> SUFFICES ASSUME WorkerInit PROVE LeaseInv
    OBVIOUS
  <2>1. WorkerInv
    BY WorkerInitInv
  <2>2. QED
    BY <2>1 DEF WorkerInit, LeaseInv, LoopKept, Free
<1>2. LeaseInv /\ [WorkerNext]_workerVars => LeaseInv'
  BY LeaseNext
<1>3. LeaseInv => NoOverlap
  BY DEF LeaseInv, Waits, LoopKept, Leased, Owns, NoOverlap, WorkerInv, Thread
<1>4. QED
  BY <1>1, <1>2, <1>3, PTL DEF WorkerSpec
=============================================================================
