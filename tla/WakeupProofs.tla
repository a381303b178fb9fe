---------------------------- MODULE WakeupProofs ----------------------------
(***************************************************************************)
(* Proofs about Wakeup, for any number of workers and rows and any times.    *)
(***************************************************************************)
EXTENDS Wakeup, TLAPS

USE DEF vars, rows, workers

(* What a computation comes to: no wait is longer than a due time it has read.  *)
LEMMA CapIsMinimum ==
  ASSUME NEW w \in Workers, NEW times \in SUBSET Nat,
         waitLeft \in [Workers -> 0..Interval], CapWait(w, times)
  PROVE  /\ waitLeft' \in [Workers -> 0..Interval]
         /\ \A k \in times : waitLeft'[w] <= k
         /\ waitLeft'[w] <= waitLeft[w]
         /\ \A v \in Workers \ {w} : waitLeft'[v] = waitLeft[v]
<1>1. PICK n \in {waitLeft[w]} \cup times :
        /\ \A k \in {waitLeft[w]} \cup times : n <= k
        /\ waitLeft' = [waitLeft EXCEPT ![w] = n]
  BY DEF CapWait
<1>2. n \in 0..Interval
  BY <1>1, WakeupAssumption
<1> QED BY <1>1, <1>2

(* The database does not change.                                              *)
LEMMA KeepsProfile == [Next]_vars => profile' = profile
BY DEF Next, WorkerStep, Insert, CommitInsert, Tick, Start, Claim, MarkResult, EndRun,
       ReadQueued, ReadRetries, Wake, Die

LEMMA DueTimes == TypeOK => QueuedDue \in SUBSET Nat /\ RetryDue \in SUBSET Nat
BY DEF TypeOK, QueuedDue, RetryDue

LEMMA CountdownType ==
  /\ \A n \in Nat : Countdown(n) \in Nat
  /\ \A n \in 0..Interval : Countdown(n) \in 0..Interval
  /\ \A m, n \in Nat : m <= n => Countdown(m) <= Countdown(n)
BY WakeupAssumption DEF Countdown

(* Every variable has its type.                                               *)
THEOREM TypeCorrect == Spec => []TypeOK
<1>1. Init => TypeOK
  BY WakeupAssumption DEF Init, TypeOK, Statuses, Locations, Waiting
<1>2. TypeOK /\ [Next]_vars => TypeOK'
  <2> SUFFICES ASSUME TypeOK, [Next]_vars  PROVE TypeOK'
    OBVIOUS
  <2> USE WakeupAssumption DEF TypeOK, Statuses, Locations, Waiting, Computing, Goto
  <2>1. ASSUME NEW r \in Rows, Insert(r)  PROVE TypeOK'
    BY <2>1 DEF Insert
  <2>2. ASSUME NEW r \in Rows, CommitInsert(r)  PROVE TypeOK'
    BY <2>2 DEF CommitInsert, Listens
  <2>3. ASSUME NEW w \in Workers, Start(w)  PROVE TypeOK'
    BY <2>3 DEF Start
  <2>4. ASSUME NEW w \in Workers, Claim(w)  PROVE TypeOK'
    BY <2>4 DEF Claim
  <2>5. ASSUME NEW w \in Workers, MarkResult(w)  PROVE TypeOK'
    <3>1. claim[w] \in Rows
      BY <2>5 DEF MarkResult
    <3> QED BY <2>5, <3>1 DEF MarkResult
  <2>6. ASSUME NEW w \in Workers, EndRun(w)  PROVE TypeOK'
    BY <2>6 DEF EndRun
  <2>7. ASSUME NEW w \in Workers, ReadQueued(w)  PROVE TypeOK'
    BY <2>7, CapIsMinimum, DueTimes DEF ReadQueued
  <2>8. ASSUME NEW w \in Workers, ReadRetries(w)  PROVE TypeOK'
    BY <2>8, CapIsMinimum, DueTimes DEF ReadRetries
  <2>9. ASSUME NEW w \in Workers, Wake(w)  PROVE TypeOK'
    BY <2>9 DEF Wake
  <2>10. ASSUME NEW w \in Workers, Die(w)  PROVE TypeOK'
    BY <2>10 DEF Die
  <2>11. CASE Tick
    BY <2>11, CountdownType DEF Tick
  <2>12. CASE UNCHANGED vars
    BY <2>12
  <2> QED
    BY <2>1, <2>2, <2>3, <2>4, <2>5, <2>6, <2>7, <2>8, <2>9, <2>10, <2>11, <2>12
       DEF Next, WorkerStep
<1> QED BY <1>1, <1>2, PTL DEF Spec

(***************************************************************************)
(* Sleepers.  NeverOversleeps alone is not inductive: a worker falls asleep   *)
(* on a wait it worked out before.  Counts says of that wait that it counts    *)
(* every queued row in, or a notification is on the connection.               *)
(***************************************************************************)
(* Of one worker that has read the queue:                                      *)
Counts(w) ==
  pc[w] \in {"read_retries", "wait"} /\ ~notified[w] =>
    \A r \in Rows : status[r] = "queued" => waitLeft[w] <= due[r]

(* The first query counts a queued row at its due time or earlier.             *)
LEMMA QueuedIsCounted ==
  ASSUME TypeOK, NEW w \in Workers, \A k \in QueuedDue : waitLeft'[w] <= k,
         waitLeft'[w] \in Nat, NEW r \in Rows, status[r] = "queued"
  PROVE  waitLeft'[w] <= due[r]
<1>1. due[r] \in Nat
  BY DEF TypeOK
<1>2. CASE public[r]
  BY <1>2 DEF QueuedDue
<1>3. CASE ~public[r]
  <2>1. 0 \in QueuedDue
    BY <1>3 DEF QueuedDue
  <2> QED BY <1>1, <2>1
<1> QED BY <1>2, <1>3

(* No worker sleeps past the due time of a queued row, however commits, wake-ups, *)
(* computations and deaths fall together.                                     *)
THEOREM NobodyOversleeps == Spec => []NeverOversleeps
<1> DEFINE Inv == profile = "postgres" => \A w \in Workers : Counts(w)
<1>1. Inv => NeverOversleeps
  BY DEF NeverOversleeps, Counts, Asleep
<1>2. Init => Inv
  BY DEF Init, Counts
<1>3. TypeOK /\ TypeOK' /\ Inv /\ [Next]_vars => Inv'
  <2> SUFFICES ASSUME TypeOK, TypeOK', profile = "postgres", NEW v \in Workers, Counts(v),
                      [Next]_vars
               PROVE  Counts(v)'
    BY KeepsProfile
  <2> USE DEF Goto, Counts
  <2>1. ASSUME NEW r \in Rows, Insert(r)  PROVE Counts(v)'
    BY <2>1 DEF Insert, TypeOK
  <2>2. ASSUME NEW r \in Rows, CommitInsert(r)  PROVE Counts(v)'
    BY <2>2 DEF CommitInsert, Listens, TypeOK
  <2>3. ASSUME NEW w \in Workers, Start(w)  PROVE Counts(v)'
    BY <2>3 DEF Start, TypeOK
  <2>4. ASSUME NEW w \in Workers, Claim(w)  PROVE Counts(v)'
    BY <2>4 DEF Claim, TypeOK
  <2>5. ASSUME NEW w \in Workers, MarkResult(w)  PROVE Counts(v)'
    <3>1. claim[w] \in Rows
      BY <2>5 DEF MarkResult, TypeOK
    <3> QED BY <2>5, <3>1 DEF MarkResult, TypeOK
  <2>6. ASSUME NEW w \in Workers, EndRun(w)  PROVE Counts(v)'
    BY <2>6 DEF EndRun, TypeOK
  <2>7. ASSUME NEW w \in Workers, ReadQueued(w)  PROVE Counts(v)'
    <3>1. /\ waitLeft' \in [Workers -> 0..Interval]
          /\ \A k \in QueuedDue : waitLeft'[w] <= k
          /\ \A u \in Workers \ {w} : waitLeft'[u] = waitLeft[u]
      BY <2>7, CapIsMinimum, DueTimes DEF ReadQueued, TypeOK
    <3>2. CASE v = w
      BY <2>7, <3>1, <3>2, QueuedIsCounted, WakeupAssumption DEF ReadQueued
    <3>3. CASE v # w
      BY <2>7, <3>1, <3>3 DEF ReadQueued, TypeOK
    <3> QED BY <3>2, <3>3
  <2>8. ASSUME NEW w \in Workers, ReadRetries(w)  PROVE Counts(v)'
    <3>1. /\ waitLeft' \in [Workers -> 0..Interval]
          /\ waitLeft'[w] <= waitLeft[w]
          /\ \A u \in Workers \ {w} : waitLeft'[u] = waitLeft[u]
      BY <2>8, CapIsMinimum, DueTimes DEF ReadRetries, TypeOK
    <3>2. waitLeft'[v] <= waitLeft[v] /\ waitLeft'[v] \in Nat /\ waitLeft[v] \in Nat
      BY <3>1, WakeupAssumption DEF TypeOK
    <3>3. due \in [Rows -> Nat] /\ status' = status /\ due' = due /\ notified' = notified
      BY <2>8 DEF ReadRetries, TypeOK
    <3>4. pc'[v] \in {"read_retries", "wait"} => pc[v] \in {"read_retries", "wait"}
      BY <2>8 DEF ReadRetries, TypeOK
    <3> QED BY <3>2, <3>3, <3>4
  <2>9. ASSUME NEW w \in Workers, Wake(w)  PROVE Counts(v)'
    BY <2>9 DEF Wake, TypeOK
  <2>10. ASSUME NEW w \in Workers, Die(w)  PROVE Counts(v)'
    BY <2>10 DEF Die, TypeOK
  <2>11. CASE Tick
    <3>1. \A r \in Rows : due'[r] = Countdown(due[r]) /\ due[r] \in Nat
      BY <2>11 DEF Tick, TypeOK
    <3>2. waitLeft'[v] = Countdown(waitLeft[v]) /\ waitLeft[v] \in Nat
      BY <2>11, WakeupAssumption DEF Tick, TypeOK
    <3> QED BY <2>11, <3>1, <3>2, CountdownType DEF Tick
  <2>12. CASE UNCHANGED vars
    BY <2>12
  <2> QED
    BY <2>1, <2>2, <2>3, <2>4, <2>5, <2>6, <2>7, <2>8, <2>9, <2>10, <2>11, <2>12
       DEF Next, WorkerStep
<1> QED BY <1>1, <1>2, <1>3, TypeCorrect, PTL DEF Spec

(***************************************************************************)
(* Retries.                                                                 *)
(***************************************************************************)
(* A claimed row is executing, and has one worker.                            *)
ClaimInv ==
  \A w \in Workers : claim[w] # NoRow =>
    /\ status[claim[w]] = "executing"
    /\ \A v \in Workers \ {w} : claim[v] # claim[w]

LEMMA ClaimsExecute == Spec => []ClaimInv
<1>1. Init => ClaimInv
  BY DEF Init, ClaimInv
<1>2. TypeOK /\ ClaimInv /\ [Next]_vars => ClaimInv'
  <2> SUFFICES ASSUME TypeOK, ClaimInv, [Next]_vars  PROVE ClaimInv'
    OBVIOUS
  <2> USE DEF ClaimInv
  <2>1. ASSUME NEW r \in Rows, Insert(r) \/ CommitInsert(r)  PROVE ClaimInv'
    BY <2>1, WakeupAssumption DEF Insert, CommitInsert, TypeOK
  <2>2. ASSUME NEW w \in Workers, Start(w) \/ EndRun(w) \/ ReadQueued(w) \/ ReadRetries(w)
                                    \/ Wake(w)
        PROVE  ClaimInv'
    BY <2>2 DEF Start, EndRun, ReadQueued, ReadRetries, Wake
  <2>3. ASSUME NEW w \in Workers, Claim(w)  PROVE ClaimInv'
    <3>1. PICK r \in Rows : /\ status[r] \in Waiting
                            /\ claim' = [claim EXCEPT ![w] = r]
                            /\ status' = [status EXCEPT ![r] = "executing"]
      BY <2>3 DEF Claim, IsDue
    <3>2. \A v \in Workers : claim[v] # r
      BY <3>1, WakeupAssumption DEF Waiting, TypeOK
    <3> QED BY <3>1, <3>2, WakeupAssumption DEF TypeOK
  <2>4. ASSUME NEW w \in Workers, MarkResult(w)  PROVE ClaimInv'
    <3>1. claim[w] \in Rows
      BY <2>4 DEF MarkResult, TypeOK
    <3> QED BY <2>4, <3>1 DEF MarkResult, TypeOK
  <2>5. ASSUME NEW w \in Workers, Die(w)  PROVE ClaimInv'
    BY <2>5 DEF Die, TypeOK
  <2>6. CASE Tick
    BY <2>6 DEF Tick
  <2>7. CASE UNCHANGED vars
    BY <2>7
  <2> QED BY <2>1, <2>2, <2>3, <2>4, <2>5, <2>6, <2>7 DEF Next, WorkerStep
<1> QED BY <1>1, <1>2, TypeCorrect, PTL DEF Spec

(* The worker will look at row r when it is due.                              *)
Minds(w, r) == pc[w] # "down" /\ (~Asleep(w) \/ waitLeft[w] <= due[r])

(* A step of the worker itself, or of nobody, leaves it minding the row.        *)
LEMMA MindingLasts ==
  ASSUME TypeOK, TypeOK', ClaimInv, profile = "postgres", [Next]_vars, deaths' = 0,
         NEW w \in Workers, NEW r \in Rows, Minds(w, r),
         status[r] = "retryable_failure", status'[r] = "retryable_failure"
  PROVE  Minds(w, r)'
<1> USE DEF Goto, Minds, Asleep
<1>1. ASSUME NEW q \in Rows, Insert(q)  PROVE Minds(w, r)'
  BY <1>1 DEF Insert, TypeOK
<1>2. ASSUME NEW q \in Rows, CommitInsert(q)  PROVE Minds(w, r)'
  BY <1>2 DEF CommitInsert, TypeOK
<1>3. ASSUME NEW v \in Workers, Start(v)  PROVE Minds(w, r)'
  BY <1>3 DEF Start, TypeOK
<1>4. ASSUME NEW v \in Workers, Claim(v)  PROVE Minds(w, r)'
  BY <1>4 DEF Claim, TypeOK
<1>5. ASSUME NEW v \in Workers, MarkResult(v)  PROVE Minds(w, r)'
  <2>1. CASE v = w
    BY <1>5, <2>1 DEF MarkResult, TypeOK
  <2>2. CASE v # w
    <3>1. claim[v] \in Rows /\ claim[v] # r
      BY <1>5 DEF MarkResult, TypeOK, ClaimInv
    <3> QED BY <1>5, <2>2, <3>1 DEF MarkResult, TypeOK
  <2> QED BY <2>1, <2>2
<1>6. ASSUME NEW v \in Workers, EndRun(v)  PROVE Minds(w, r)'
  BY <1>6 DEF EndRun, TypeOK
<1>7. ASSUME NEW v \in Workers, ReadQueued(v)  PROVE Minds(w, r)'
  BY <1>7, CapIsMinimum, DueTimes DEF ReadQueued, TypeOK
<1>8. ASSUME NEW v \in Workers, ReadRetries(v)  PROVE Minds(w, r)'
  <2>1. due[r] \in RetryDue
    BY DEF RetryDue
  <2> QED BY <1>8, <2>1, CapIsMinimum, DueTimes DEF ReadRetries, TypeOK
<1>9. ASSUME NEW v \in Workers, Wake(v)  PROVE Minds(w, r)'
  BY <1>9 DEF Wake, TypeOK
<1>10. ASSUME NEW v \in Workers, Die(v)  PROVE Minds(w, r)'
  BY <1>10 DEF Die, TypeOK
<1>11. CASE Tick
  <2>1. /\ due'[r] = Countdown(due[r]) /\ due[r] \in Nat
        /\ waitLeft'[w] = Countdown(waitLeft[w]) /\ waitLeft[w] \in Nat
    BY <1>11, WakeupAssumption DEF Tick, TypeOK
  <2>2. waitLeft[w] <= due[r] => waitLeft'[w] <= due'[r]
    BY <2>1, CountdownType
  <2>3. waitLeft[w] = 0 => waitLeft'[w] = 0
    BY <2>1 DEF Countdown
  <2> QED BY <1>11, <2>1, <2>2, <2>3 DEF Tick
<1>12. CASE UNCHANGED vars
  BY <1>12
<1> QED
  BY <1>1, <1>2, <1>3, <1>4, <1>5, <1>6, <1>7, <1>8, <1>9, <1>10, <1>11, <1>12
     DEF Next, WorkerStep

(* A row that was put back for a retry has a worker that will be awake when it    *)
(* is due, though nobody announced it, as long as no worker has died: the one    *)
(* that put it back asks for due times before it sleeps, and takes others over. *)
THEOREM RetriesHaveAWorker == Spec => []RetriesAreAwaited
<1>1. Init => RetriesAreAwaited
  BY DEF Init, RetriesAreAwaited
<1>2. TypeOK /\ TypeOK' /\ ClaimInv /\ RetriesAreAwaited /\ [Next]_vars
        => RetriesAreAwaited'
  <2> SUFFICES ASSUME TypeOK, TypeOK', ClaimInv, RetriesAreAwaited, [Next]_vars,
                      profile = "postgres", deaths' = 0,
                      NEW r \in Rows, status'[r] = "retryable_failure"
               PROVE  \E w \in Workers : Minds(w, r)'
    BY KeepsProfile DEF RetriesAreAwaited, Minds
  <2>1. CASE status[r] = "retryable_failure"
    <3>1. deaths = 0
      <4>1. CASE \E w \in Workers : Die(w)
        BY <4>1 DEF Die, TypeOK
      <4>2. CASE ~\E w \in Workers : Die(w)
        BY <4>2 DEF Next, WorkerStep, Insert, CommitInsert, Tick, Start, Claim, MarkResult,
                    EndRun, ReadQueued, ReadRetries, Wake
      <4> QED BY <4>1, <4>2
    <3>2. PICK w \in Workers : Minds(w, r)
      BY <2>1, <3>1 DEF RetriesAreAwaited, Minds
    <3> QED BY <2>1, <3>2, MindingLasts
  <2>2. CASE status[r] # "retryable_failure"
    <3>1. PICK w \in Workers : MarkResult(w)
      BY <2>2 DEF Next, WorkerStep, Insert, CommitInsert, Tick, Start, Claim, EndRun,
                  ReadQueued, ReadRetries, Wake, Die, TypeOK
    <3> QED BY <3>1 DEF MarkResult, Goto, Minds, Asleep, TypeOK
  <2> QED BY <2>1, <2>2
<1> QED BY <1>1, <1>2, TypeCorrect, ClaimsExecute, PTL DEF Spec
=============================================================================
