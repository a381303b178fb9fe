------------------------------- MODULE Wakeup -------------------------------
(***************************************************************************)
(* The outbound-worker loop of cli.py: drain the queue, work out how long    *)
(* nothing will be due, sleep.  On PostgreSQL the insert of a row sends      *)
(* NOTIFY with its commit and wakes the sleepers; a retry is not announced.   *)
(* Otherwise the worker polls.  A notification that arrives while a worker   *)
(* is busy waits on its connection, which listens from before the loop on.   *)
(*                                                                         *)
(* What a worker does with a row it claimed is Outbound's subject: here the   *)
(* row is settled, put back for a retry, or left with a worker that died.     *)
(***************************************************************************)
EXTENDS Naturals, FiniteSets

CONSTANTS
  Rows,         (* outbound rows the workflow may queue                      *)
  Workers,      (* outbound-worker processes                                 *)
  Interval,     (* --interval, in ticks                                      *)
  Limit,        (* --limit: rows of one run_once                             *)
  PublicDelay,  (* settings.outbound_public_reply_delay_seconds, in ticks    *)
  RetryDelay,   (* settings.outbound_retry_delay_seconds, in ticks           *)
  MaxAttempts,  (* settings.outbound_max_attempts                            *)
  MaxDeaths,    (* bound: worker processes that die                          *)
  NoRow

ASSUME WakeupAssumption ==
  /\ NoRow \notin Rows
  /\ Interval \in Nat \ {0}
  /\ Limit \in Nat \ {0}
  /\ PublicDelay \in Nat
  /\ RetryDelay \in Nat
  /\ MaxAttempts \in Nat
  /\ MaxDeaths \in Nat

VARIABLES
  profile,   (* the wakeup the database allows                                 *)
  status,    (* outbound_actions.status; `written` is an insert to be committed *)
  public,    (* is the row a public reply?                                      *)
  due,       (* ticks until the row is due                                      *)
  attempts,  (* sends of the row                                                *)
  pc,        (* what each worker does                                           *)
  claim,     (* the row a worker executes, or NoRow                             *)
  handled,   (* rows the worker's run_once has handled                          *)
  waitLeft,  (* ticks the worker still waits, as far as it has worked it out    *)
  notified,  (* is there a notification on the worker's connection?             *)
  deaths     (* worker processes that died                                      *)

rows    == <<status, public, due, attempts>>
workers == <<pc, claim, handled, waitLeft, notified, deaths>>
vars    == <<profile, rows, workers>>

Waiting   == {"queued", "retryable_failure"}
Statuses  == {"absent", "written", "executing", "settled"} \cup Waiting
Computing == {"read_queued", "read_retries"}
Locations == {"down", "run", "send", "wait"} \cup Computing

(* Mutant: the connection listens only while the worker waits.                *)
ListensInWait(w) == profile = "postgres" /\ pc[w] = "wait"

(* LISTEN is sent when the loop is entered.                                   *)
Listens(w) == profile = "postgres" /\ pc[w] # "down"

IsDue(r) == status[r] \in Waiting /\ due[r] = 0

(* Mutant: the wait has no timeout.                                           *)
AsleepUntilNotified(w) == pc[w] = "wait" /\ ~notified[w]

(* The worker is in wait and nothing has arrived for it.                      *)
Asleep(w) == pc[w] = "wait" /\ waitLeft[w] > 0 /\ ~notified[w]
-----------------------------------------------------------------------------
Init ==
  /\ profile  \in {"postgres", "polling"}
  /\ status   = [r \in Rows |-> "absent"]
  /\ public   = [r \in Rows |-> FALSE]
  /\ due      = [r \in Rows |-> 0]
  /\ attempts = [r \in Rows |-> 0]
  /\ pc       = [w \in Workers |-> "down"]
  /\ claim    = [w \in Workers |-> NoRow]
  /\ handled  = [w \in Workers |-> 0]
  /\ waitLeft = [w \in Workers |-> 0]
  /\ notified = [w \in Workers |-> FALSE]
  /\ deaths   = 0

(***************************************************************************)
(* Around the loop: the workflow's transaction, and time.                   *)
(***************************************************************************)
(* insert_outbound_action: a public reply is due some time after created_at.   *)
Insert(r) ==
  /\ status[r] = "absent"
  /\ status' = [status EXCEPT ![r] = "written"]
  /\ \E p \in BOOLEAN :
       /\ public' = [public EXCEPT ![r] = p]
       /\ due' = [due EXCEPT ![r] = IF p THEN PublicDelay ELSE 0]
  /\ UNCHANGED <<profile, attempts, workers>>

(* The commit makes the row visible and delivers _notify_outbound_available.   *)
CommitInsert(r) ==
  /\ status[r] = "written"
  /\ status' = [status EXCEPT ![r] = "queued"]
  /\ notified' = [w \in Workers |-> notified[w] \/ Listens(w)]
  /\ UNCHANGED <<profile, public, due, attempts, pc, claim, handled, waitLeft, deaths>>

(* Mutant: the clock may pass zero.                                           *)
CountdownPastZero(n) == n - 1

Countdown(n) == IF n > 0 THEN n - 1 ELSE 0

(* The queries of one computation take less than a tick.                       *)
Tick ==
  /\ \A w \in Workers : pc[w] \notin Computing
  /\ (\E r \in Rows : due[r] > 0) \/ (\E w \in Workers : waitLeft[w] > 0)
  /\ due' = [r \in Rows |-> Countdown(due[r])]
  /\ waitLeft' = [w \in Workers |-> Countdown(waitLeft[w])]
  /\ UNCHANGED <<profile, status, public, attempts, pc, claim, handled, notified, deaths>>
-----------------------------------------------------------------------------
(***************************************************************************)
(* The loop of a worker.                                                    *)
(***************************************************************************)
Goto(w, to) == pc' = [pc EXCEPT ![w] = to]

(* The wakeup is entered (LISTEN), then the loop.                              *)
Start(w) ==
  /\ pc[w] = "down"
  /\ Goto(w, "run")
  /\ UNCHANGED <<profile, rows, claim, handled, waitLeft, notified, deaths>>

(* run_once claims the next due row ...                                       *)
Claim(w) ==
  /\ pc[w] = "run"
  /\ handled[w] < Limit
  /\ \E r \in Rows :
       /\ IsDue(r)
       /\ claim' = [claim EXCEPT ![w] = r]
       /\ status' = [status EXCEPT ![r] = "executing"]
       /\ attempts' = [attempts EXCEPT ![r] = @ + 1]
  /\ handled' = [handled EXCEPT ![w] = @ + 1]
  /\ Goto(w, "send")
  /\ UNCHANGED <<profile, public, due, waitLeft, notified, deaths>>

(* ... and marks it, or puts it back for a retry, which nobody is told of.      *)
MarkResult(w) ==
  /\ pc[w] = "send"
  /\ \/ /\ status' = [status EXCEPT ![claim[w]] = "settled"]
        /\ UNCHANGED due
     \/ /\ attempts[claim[w]] < MaxAttempts
        /\ status' = [status EXCEPT ![claim[w]] = "retryable_failure"]
        /\ due' = [due EXCEPT ![claim[w]] = RetryDelay]
  /\ claim' = [claim EXCEPT ![w] = NoRow]
  /\ Goto(w, "run")
  /\ UNCHANGED <<profile, public, attempts, handled, waitLeft, notified, deaths>>

(* run_once ends when nothing is due or its limit is reached; a polling worker  *)
(* then waits for the interval, the other one asks for the next due time.      *)
EndRun(w) ==
  /\ pc[w] = "run"
  /\ handled[w] = Limit \/ \A r \in Rows : ~IsDue(r)
  /\ handled' = [handled EXCEPT ![w] = 0]
  /\ waitLeft' = [waitLeft EXCEPT ![w] = Interval]
  /\ Goto(w, IF profile = "postgres" THEN "read_queued" ELSE "wait")
  /\ UNCHANGED <<profile, rows, claim, notified, deaths>>

(* Queued rows as the queries count them: a private note is due at once.       *)
QueuedDue == {due[r] : r \in {s \in Rows : status[s] = "queued" /\ public[s]}}
               \cup {0 : r \in {s \in Rows : status[s] = "queued" /\ ~public[s]}}

(* Mutant: rows that were put back are not looked at.                          *)
RetryDueOnly == {}

RetryDue == {due[r] : r \in {s \in Rows : status[s] = "retryable_failure"}}

(* The wait is cut down to the first of some due times.                        *)
CapWait(w, times) ==
  \E n \in {waitLeft[w]} \cup times :
    /\ \A k \in {waitLeft[w]} \cup times : n <= k
    /\ waitLeft' = [waitLeft EXCEPT ![w] = n]

(* next_outbound_action_due_at: its queries are statements of their own, and     *)
(* what commits between them is seen by the later ones only.                   *)
ReadQueued(w) ==
  /\ pc[w] = "read_queued"
  /\ CapWait(w, QueuedDue)
  /\ Goto(w, "read_retries")
  /\ UNCHANGED <<profile, rows, claim, handled, notified, deaths>>

ReadRetries(w) ==
  /\ pc[w] = "read_retries"
  /\ CapWait(w, RetryDue)
  /\ Goto(w, "wait")
  /\ UNCHANGED <<profile, rows, claim, handled, notified, deaths>>

(* wait returns on a notification or after its timeout.                        *)
Wake(w) ==
  /\ pc[w] = "wait"
  /\ ~Asleep(w)
  /\ notified' = [notified EXCEPT ![w] = FALSE]
  /\ waitLeft' = [waitLeft EXCEPT ![w] = 0]
  /\ Goto(w, "run")
  /\ UNCHANGED <<profile, rows, claim, handled, deaths>>

(* The process is killed: its row stays executing, its connection is closed.    *)
Die(w) ==
  /\ pc[w] # "down"
  /\ deaths < MaxDeaths
  /\ deaths' = deaths + 1
  /\ Goto(w, "down")
  /\ claim' = [claim EXCEPT ![w] = NoRow]
  /\ handled' = [handled EXCEPT ![w] = 0]
  /\ waitLeft' = [waitLeft EXCEPT ![w] = 0]
  /\ notified' = [notified EXCEPT ![w] = FALSE]
  /\ UNCHANGED <<profile, rows>>

WorkerStep(w) ==
  \/ Start(w)
  \/ Claim(w)
  \/ MarkResult(w)
  \/ EndRun(w)
  \/ ReadQueued(w)
  \/ ReadRetries(w)
  \/ Wake(w)

Next ==
  \/ \E r \in Rows : Insert(r) \/ CommitInsert(r)
  \/ \E w \in Workers : WorkerStep(w) \/ Die(w)
  \/ Tick

Spec == Init /\ [][Next]_vars

(* Calls of the executor time out, a stopped worker is started again (README:   *)
(* keep the outbound worker running), and time passes, between computations    *)
(* at least.                                                                 *)
Fairness == SF_vars(Tick) /\ \A w \in Workers : WF_vars(WorkerStep(w))

FairSpec == Spec /\ Fairness
-----------------------------------------------------------------------------
(***************************************************************************)
(* Correctness.                                                             *)
(***************************************************************************)
(* Every variable has its type.                                              *)
TypeOK ==
  /\ profile \in {"postgres", "polling"}
  /\ status \in [Rows -> Statuses]
  /\ public \in [Rows -> BOOLEAN]
  /\ due \in [Rows -> Nat]
  /\ attempts \in [Rows -> Nat]
  /\ pc \in [Workers -> Locations]
  /\ claim \in [Workers -> Rows \cup {NoRow}]
  /\ \A w \in Workers : pc[w] = "send" <=> claim[w] # NoRow
  /\ handled \in [Workers -> 0..Limit]
  /\ waitLeft \in [Workers -> 0..Interval]
  /\ notified \in [Workers -> BOOLEAN]
  /\ deaths \in 0..MaxDeaths

(* A worker never sleeps past the due time of a queued row: not of one that was *)
(* committed while it worked out its wait, nor just before it went to sleep,   *)
(* nor of one beyond the limit of its last run.                              *)
NeverOversleeps ==
  profile = "postgres" =>
    \A w \in Workers : Asleep(w) =>
      \A r \in Rows : status[r] = "queued" => waitLeft[w] <= due[r]

(* A retry is announced to nobody: yet, as long as no worker has died, one of    *)
(* them is awake or will be when the row is due.                              *)
RetriesAreAwaited ==
  profile = "postgres" /\ deaths = 0 =>
    \A r \in Rows : status[r] = "retryable_failure" =>
      \E w \in Workers : pc[w] # "down" /\ (~Asleep(w) \/ waitLeft[w] <= due[r])

(* No row is left waiting: by the notification, the computed wait or, after the  *)
(* death of the worker that knew of it, the interval.                         *)
RowsAreTaken ==
  \A r \in Rows : status[r] \in Waiting ~> status[r] \notin Waiting
=============================================================================
