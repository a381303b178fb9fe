------------------------------ MODULE Outbound ------------------------------
(***************************************************************************)
(* The outbox of WootPilot and the workers that drain it.                   *)
(*                                                                         *)
(* A row of outbound_actions is queued by a support-workflow run (at most   *)
(* one per customer message), and one or more ExecuteOutboundActions        *)
(* workers claim it, re-check that it may still be sent, call Chatwoot and  *)
(* record the result.  The steps of a worker interleave with the webhook    *)
(* requests that store customer messages and safety state, with the        *)
(* operators who change the conversation in Chatwoot, with the clock, with  *)
(* each other, and with the death of a worker process.                     *)
(*                                                                         *)
(* One conversation is modelled: no code in the executor relates two        *)
(* conversations except the claim order, which is kept.                    *)
(***************************************************************************)
EXTENDS Naturals, Integers, Sequences, FiniteSets

CONSTANTS
  Messages,        (* customer messages, ranked by (created_at, message id)  *)
  Workers,         (* executor processes                                     *)
  Drafts,          (* the actions the workflow may queue                     *)
  StoredHolds,     (* blockers conversation_states may record                *)
  ChannelHolds,    (* blockers a fresh Chatwoot read may show                *)
  MaxAttempts,     (* settings.outbound_max_attempts                         *)
  PublicDelay,     (* settings.outbound_public_reply_delay_seconds, in ticks *)
  RetryDelay,      (* settings.outbound_retry_delay_seconds, in ticks        *)
  HumanTtl,        (* settings.human_operator_active_ttl_seconds, in ticks   *)
  PostReplyStatus, (* settings.chatwoot_public_reply_status, or "unset"      *)
  Faults,          (* what may end a worker process                          *)
  MaxDeaths        (* bound: worker processes that die                       *)

Kinds    == {"public_message", "private_note"}
Contents == {"clean", "empty", "unsafe"}
Draft    == [kind : Kinds, content : Contents, review : BOOLEAN]

ASSUME OutboundAssumption ==
  /\ Messages \subseteq Nat
  /\ Drafts \subseteq Draft
  /\ StoredHolds \subseteq {"not_replyable", "resolved", "paused", "assigned"}
  /\ ChannelHolds \subseteq {"not_replyable", "resolved", "paused", "assigned",
                             "id_mismatch"}
  /\ MaxAttempts \in Nat \ {0}
  /\ PublicDelay \in Nat
  /\ RetryDelay \in Nat
  /\ HumanTtl \in Nat
  /\ PostReplyStatus \in {"unset", "open", "resolved"}
  /\ Faults \subseteq {"crash", "safety_read_error"}
  /\ MaxDeaths \in Nat

VARIABLES
  msgs,         (* conversation_messages: stored public customer turns          *)
  status,       (* outbound_actions.status, "none" before the row is inserted   *)
  draft,        (* what the row says: kind, content, human-review marker        *)
  attempts,     (* outbound_actions.attempt_count                               *)
  due,          (* ticks until the row is due: created_at + delay for a queued  *)
                (*   public reply, next_attempt_at for a retry                  *)
  outbox,       (* the inserted rows in created_at order                        *)
  pc,           (* what each worker does next                                   *)
  claim,        (* the row a worker holds, or NoRow                             *)
  attemptCount, (* attempt_count in the read model a worker claimed             *)
  publicMode,   (* does the worker's process run in mode public_reply?          *)
  sawPaused,    (* was wootpilot-paused among the labels the worker read?       *)
  deaths,       (* worker processes that died                                   *)
  stored,       (* conversation_states: the blockers it records                 *)
  humanLeft,    (* ticks until conversation_states.human_active_until           *)
  channel,      (* Chatwoot: the blockers in force there                        *)
  tries,        (* history: create_message calls made for the row               *)
  copies,       (* history: messages Chatwoot created for the row               *)
  ambiguous,    (* history: calls that created a message and raised an error    *)
  standing      (* history: holds in force without a break since w's claim, and *)
                (*   newer turns since before the read of Chatwoot's state      *)

rows    == <<status, draft, attempts, due, outbox>>
workers == <<pc, claim, attemptCount, publicMode, sawPaused, deaths>>
safety  == <<msgs, stored, humanLeft, channel>>
calls   == <<tries, copies, ambiguous>>
vars    == <<rows, workers, safety, calls, standing>>

NoRow    == -1
NoDraft  == [kind |-> "private_note", content |-> "empty", review |-> FALSE]
Terminal == {"sent", "permanent_failure", "blocked_by_policy", "superseded"}
Statuses == {"none", "queued", "executing", "retryable_failure"} \cup Terminal

(* A worker between the commit of its claim and the commit of its result.    *)
BeforeCall == {"claimed", "stored_check", "channel_read", "recheck", "send"}
AfterCall  == {"failed_retryable", "failed_permanent", "succeeded",
               "label_write", "mark_sent"}
Working    == BeforeCall \cup AfterCall
Locations  == {"down", "idle", "claiming"} \cup Working

(* The places a hold is recorded in, with the holds each may record.         *)
Hold == ({"static", "turn"} \X {"any"})
          \cup ({"stored"} \X (StoredHolds \cup {"human_active"}))
          \cup ({"channel"} \X ChannelHolds)
-----------------------------------------------------------------------------
(***************************************************************************)
(* What the executor's queries and checks evaluate.                         *)
(***************************************************************************)
IsPublic(m) == draft[m].kind = "public_message"

(* Mutant: the comparison of the two turns is swapped.                        *)
HasNewerSwapped(m) == \E n \in msgs : n < m

(* Repository.has_newer_customer_public_message                             *)
HasNewer(m) == \E n \in msgs : n > m

(* Mutants: failures that were given up are due again; retries never are.     *)
IsDueAgain(m) ==
  status[m] \in {"queued", "retryable_failure", "permanent_failure"} /\ due[m] = 0
IsDueOnce(m) == status[m] = "queued" /\ due[m] = 0

(* queued_action_due and retryable_action_due                                *)
IsDue(m) == status[m] \in {"queued", "retryable_failure"} /\ due[m] = 0

(* Rows a claim has locked and not committed yet.                            *)
Locked == {claim[w] : w \in {v \in Workers : pc[v] = "claiming"}}

(* Mutant: without FOR UPDATE SKIP LOCKED.                                    *)
ClaimableUnlocked(m) == IsDue(m)

Claimable(m) == IsDue(m) /\ m \notin Locked

(* ORDER BY created_at LIMIT 1 FOR UPDATE SKIP LOCKED                        *)
NextClaimable(m) ==
  \E i \in 1..Len(outbox) :
    /\ outbox[i] = m
    /\ Claimable(m)
    /\ \A j \in 1..(i - 1) : ~Claimable(outbox[j])

(* The checks that read only the row and the settings of the process: mode,  *)
(* empty content, leaked reasoning, prices; for a note, empty content.       *)
StaticallyBlocked(m, public) ==
  IF IsPublic(m) THEN ~public \/ draft[m].content # "clean"
                 ELSE draft[m].content = "empty"

(* _stored_state_blocked_reason                                              *)
StoredBlockers == stored \cup (IF humanLeft > 0 THEN {"human_active"} ELSE {})

(* _channel_state_blocked_reason: a human is not seen active on this side.   *)
ChannelBlockers == channel

(* Every hold that forbids a worker to send row m.                           *)
InForce(m, public) ==
  {h \in Hold :
     \/ h[1] = "static"  /\ StaticallyBlocked(m, public)
     \/ h[1] = "turn"    /\ IsPublic(m) /\ HasNewer(m)
     \/ h[1] = "stored"  /\ IsPublic(m) /\ h[2] \in StoredBlockers
     \/ h[1] = "channel" /\ IsPublic(m) /\ h[2] \in ChannelBlockers}

TurnHolds == {h \in Hold : h[1] = "turn"}

(* History: a claim starts with the holds in force; from then on a hold is    *)
(* forgotten as soon as it is lifted, and none is added, but for the turns    *)
(* stored before Chatwoot answers the read of its state.                     *)
Recalled(w) ==
  IF pc[w] \notin Working THEN Hold
  ELSE standing[w] \cup (IF pc[w] = "channel_read" THEN TurnHolds ELSE {})

Remember ==
  standing' = [w \in Workers |->
    IF pc'[w] \notin Working THEN {}
    ELSE InForce(claim[w], publicMode[w])' \cap Recalled(w)]
-----------------------------------------------------------------------------
(***************************************************************************)
(* Around the executor: the workflow, webhook requests, operators, time.     *)
(***************************************************************************)
Init ==
  /\ msgs         = {}
  /\ status       = [m \in Messages |-> "none"]
  /\ draft        = [m \in Messages |-> NoDraft]
  /\ attempts     = [m \in Messages |-> 0]
  /\ due          = [m \in Messages |-> 0]
  /\ outbox       = <<>>
  /\ pc           = [w \in Workers |-> "down"]
  /\ claim        = [w \in Workers |-> NoRow]
  /\ attemptCount = [w \in Workers |-> 0]
  /\ publicMode   = [w \in Workers |-> FALSE]
  /\ sawPaused    = [w \in Workers |-> FALSE]
  /\ deaths       = 0
  /\ stored       = {}
  /\ humanLeft    = 0
  /\ channel      = {}
  /\ tries        = [m \in Messages |-> 0]
  /\ copies       = [m \in Messages |-> 0]
  /\ ambiguous    = [m \in Messages |-> 0]
  /\ standing     = [w \in Workers |-> {}]

(* Ingress stores a public customer turn, in any order of rank.              *)
CustomerTurn(m) ==
  /\ m \notin msgs
  /\ msgs' = msgs \cup {m}
  /\ UNCHANGED <<rows, workers, stored, humanLeft, channel, calls>>
  /\ Remember

(* insert_outbound_action: the idempotency key admits one row per message.   *)
(* The commit may come some time after created_at, and after the commit of    *)
(* rows created later.                                                       *)
Enqueue(m) ==
  /\ m \in msgs
  /\ status[m] = "none"
  /\ \E d \in Drafts, left \in 0..PublicDelay :
       /\ draft' = [draft EXCEPT ![m] = d]
       /\ due' = [due EXCEPT ![m] = IF d.kind = "public_message" THEN left ELSE 0]
  /\ status' = [status EXCEPT ![m] = "queued"]
  /\ \E i \in 0..Len(outbox) :
       outbox' = SubSeq(outbox, 1, i) \o <<m>> \o SubSeq(outbox, i + 1, Len(outbox))
  /\ UNCHANGED <<attempts, workers, safety, calls>>
  /\ Remember

(* A webhook request rewrites the stored safety state of the conversation.   *)
StoredStateChange ==
  /\ stored' \in SUBSET StoredHolds
  /\ humanLeft' \in 0..HumanTtl
  /\ UNCHANGED <<rows, workers, msgs, channel, calls>>
  /\ Remember

(* An operator, or the customer's channel, changes the Chatwoot side.        *)
ChannelChange ==
  /\ channel' \in SUBSET ChannelHolds
  /\ UNCHANGED <<rows, workers, msgs, stored, humanLeft, calls>>
  /\ Remember

(* Mutant: the time a row is overdue by is kept as a negative delay.          *)
CountdownPastDue(n) == n - 1

Countdown(n) == IF n > 0 THEN n - 1 ELSE 0

Tick ==
  /\ humanLeft > 0 \/ \E m \in Messages : due[m] > 0
  /\ due' = [m \in Messages |-> Countdown(due[m])]
  /\ humanLeft' = Countdown(humanLeft)
  /\ UNCHANGED <<status, draft, attempts, outbox, workers, msgs, stored, channel,
                 calls>>
  /\ Remember
-----------------------------------------------------------------------------
(***************************************************************************)
(* A worker: ExecuteOutboundActions.run_once, one claimed row at a time.     *)
(***************************************************************************)
Goto(w, to) == pc' = [pc EXCEPT ![w] = to]

(* The process starts with the settings of its environment.                  *)
Start(w) ==
  /\ pc[w] = "down"
  /\ Goto(w, "idle")
  /\ \E p \in BOOLEAN : publicMode' = [publicMode EXCEPT ![w] = p]
  /\ UNCHANGED <<rows, claim, attemptCount, sawPaused, deaths, safety, calls>>
  /\ Remember

(* claim_queued_outbound_actions selects and locks the next due row ...       *)
LockNextRow(w) ==
  /\ pc[w] = "idle"
  /\ \E m \in Messages :
       /\ NextClaimable(m)
       /\ claim' = [claim EXCEPT ![w] = m]
       /\ attemptCount' = [attemptCount EXCEPT ![w] = attempts[m]]
  /\ Goto(w, "claiming")
  /\ UNCHANGED <<rows, publicMode, sawPaused, deaths, safety, calls>>
  /\ Remember

(* ... and run_once commits it as `executing`, which releases the lock.       *)
CommitClaim(w) ==
  /\ pc[w] = "claiming"
  /\ status' = [status EXCEPT ![claim[w]] = "executing"]
  /\ due' = [due EXCEPT ![claim[w]] = 0]
  /\ Goto(w, "claimed")
  /\ UNCHANGED <<draft, attempts, outbox, claim, attemptCount, publicMode, sawPaused,
                 deaths, safety, calls>>
  /\ Remember

(* mark_outbound_action and its commit: the row is written by id, whatever    *)
(* its status is by then, and the worker goes on to the next row.            *)
Mark(w, result, wait) ==
  /\ status' = [status EXCEPT ![claim[w]] = result]
  /\ due' = [due EXCEPT ![claim[w]] = wait]
  /\ claim' = [claim EXCEPT ![w] = NoRow]
  /\ attemptCount' = [attemptCount EXCEPT ![w] = 0]
  /\ Goto(w, "idle")
  /\ UNCHANGED <<draft, outbox, publicMode, sawPaused, deaths, safety, calls>>
  /\ Remember

(* A check that lets the worker pass on to its next step.                    *)
Pass(w, to) ==
  /\ Goto(w, to)
  /\ UNCHANGED <<rows, claim, attemptCount, publicMode, sawPaused, deaths, safety,
                 calls>>
  /\ Remember

(* A private note skips every check but the one of its own content.          *)
CheckPrivateNote(w) ==
  /\ pc[w] = "claimed"
  /\ ~IsPublic(claim[w])
  /\ IF StaticallyBlocked(claim[w], publicMode[w])
       THEN Mark(w, "blocked_by_policy", 0) /\ UNCHANGED attempts
       ELSE Pass(w, "send")

(* Mutant: the superseded row is skipped without a record of its result.      *)
CheckSupersededUnmarked(w) ==
  /\ pc[w] = "claimed"
  /\ IsPublic(claim[w])
  /\ IF HasNewer(claim[w])
       THEN /\ claim' = [claim EXCEPT ![w] = NoRow]
            /\ attemptCount' = [attemptCount EXCEPT ![w] = 0]
            /\ Goto(w, "idle")
            /\ UNCHANGED <<rows, publicMode, sawPaused, deaths, safety, calls>>
            /\ Remember
       ELSE Pass(w, "stored_check")

CheckSuperseded(w) ==
  /\ pc[w] = "claimed"
  /\ IsPublic(claim[w])
  /\ IF HasNewer(claim[w])
       THEN Mark(w, "superseded", 0) /\ UNCHANGED attempts
       ELSE Pass(w, "stored_check")

CheckStoredState(w) ==
  /\ pc[w] = "stored_check"
  /\ IF StaticallyBlocked(claim[w], publicMode[w]) \/ StoredBlockers # {}
       THEN Mark(w, "blocked_by_policy", 0) /\ UNCHANGED attempts
       ELSE Pass(w, "channel_read")

(* get_conversation_safety and the checks of its answer.                      *)
CheckChannelState(w) ==
  /\ pc[w] = "channel_read"
  /\ IF ChannelBlockers # {}
       THEN Mark(w, "blocked_by_policy", 0) /\ UNCHANGED attempts
       ELSE Pass(w, "recheck")

(* Mutant: newer turns are looked for only before Chatwoot is read.           *)
RecheckSkipped(w) == pc[w] = "recheck" /\ Pass(w, "send")

RecheckSuperseded(w) ==
  /\ pc[w] = "recheck"
  /\ IF HasNewer(claim[w])
       THEN Mark(w, "superseded", 0) /\ UNCHANGED attempts
       ELSE Pass(w, "send")

(* create_message: whether Chatwoot creates the message, and what the worker  *)
(* learns of it.  A lost answer or a 5xx after the write is retryable, an     *)
(* answer without a message id is not.                                       *)
Outcome == [created : BOOLEAN, heard : {"succeeded", "failed_retryable",
                                        "failed_permanent"}]
PossibleOutcomes == {o \in Outcome : o.heard = "succeeded" => o.created}

CreateMessage(w) ==
  /\ pc[w] = "send"
  /\ \E o \in PossibleOutcomes :
       /\ tries' = [tries EXCEPT ![claim[w]] = @ + 1]
       /\ copies' = [copies EXCEPT ![claim[w]] = IF o.created THEN @ + 1 ELSE @]
       /\ ambiguous' = [ambiguous EXCEPT ![claim[w]] =
                           IF o.created /\ o.heard # "succeeded" THEN @ + 1 ELSE @]
       /\ Goto(w, o.heard)
  /\ UNCHANGED <<rows, claim, attemptCount, publicMode, sawPaused, deaths, safety>>
  /\ Remember

(* Mutant: the failure is recorded against the attempts already made.          *)
MarkSendFailureLate(w) ==
  LET count == attemptCount[w] + 1
      retry == pc[w] = "failed_retryable" /\ attemptCount[w] < MaxAttempts
  IN  /\ pc[w] \in {"failed_retryable", "failed_permanent"}
      /\ attempts' = [attempts EXCEPT ![claim[w]] = count]
      /\ IF retry THEN Mark(w, "retryable_failure", RetryDelay)
                  ELSE Mark(w, "permanent_failure", 0)

(* _mark_send_failure, with the attempt_count of the claimed read model.      *)
MarkSendFailure(w) ==
  LET count == attemptCount[w] + 1
      retry == pc[w] = "failed_retryable" /\ count < MaxAttempts
  IN  /\ pc[w] \in {"failed_retryable", "failed_permanent"}
      /\ attempts' = [attempts EXCEPT ![claim[w]] = count]
      /\ IF retry THEN Mark(w, "retryable_failure", RetryDelay)
                  ELSE Mark(w, "permanent_failure", 0)

(* _apply_success_status_transition: a ChatwootApiError changes nothing.      *)
UpdateStatus(w) ==
  /\ pc[w] = "succeeded"
  /\ IsPublic(claim[w])
  /\ PostReplyStatus # "unset"
  /\ channel' \in {channel,
                   IF PostReplyStatus = "resolved"
                     THEN channel \cup ({"resolved"} \cap ChannelHolds)
                     ELSE channel \ {"resolved"}}
  /\ Goto(w, "mark_sent")
  /\ UNCHANGED <<rows, claim, attemptCount, publicMode, sawPaused, deaths, msgs, stored,
                 humanLeft, calls>>
  /\ Remember

(* add_conversation_labels reads the labels of the conversation; the label    *)
(* that matters is wootpilot-paused.  A failed read ends it.                  *)
ReadLabels(w) ==
  /\ pc[w] = "succeeded"
  /\ ~IsPublic(claim[w])
  /\ draft[claim[w]].review
  /\ \/ Goto(w, "label_write")
        /\ sawPaused' = [sawPaused EXCEPT ![w] = "paused" \in channel]
     \/ Goto(w, "mark_sent")
        /\ UNCHANGED sawPaused
  /\ UNCHANGED <<rows, claim, attemptCount, publicMode, deaths, safety, calls>>
  /\ Remember

(* ... and replaces them all by the ones it read and its own, or fails.       *)
ReplaceLabels(w) ==
  /\ pc[w] = "label_write"
  /\ channel' \in {channel, IF sawPaused[w] THEN channel \cup ({"paused"} \cap ChannelHolds)
                                          ELSE channel \ {"paused"}}
  /\ sawPaused' = [sawPaused EXCEPT ![w] = FALSE]
  /\ Goto(w, "mark_sent")
  /\ UNCHANGED <<rows, claim, attemptCount, publicMode, deaths, msgs, stored, humanLeft,
                 calls>>
  /\ Remember

(* _mark_sent, once any update after the call is over, failed or not.         *)
MarkSent(w) ==
  /\ \/ pc[w] = "mark_sent"
     \/ pc[w] = "succeeded" /\ IsPublic(claim[w]) /\ PostReplyStatus = "unset"
     \/ pc[w] = "succeeded" /\ ~IsPublic(claim[w]) /\ ~draft[claim[w]].review
  /\ Mark(w, "sent", 0)
  /\ UNCHANGED attempts

(* Mutant: the row of a worker that died is queued again.                      *)
DieRequeued(w) ==
  /\ deaths < MaxDeaths
  /\ deaths' = deaths + 1
  /\ status' = IF claim[w] = NoRow THEN status
               ELSE [status EXCEPT ![claim[w]] = "queued"]
  /\ claim' = [claim EXCEPT ![w] = NoRow]
  /\ attemptCount' = [attemptCount EXCEPT ![w] = 0]
  /\ sawPaused' = [sawPaused EXCEPT ![w] = FALSE]
  /\ Goto(w, "down")
  /\ UNCHANGED <<draft, attempts, due, outbox, publicMode, safety, calls>>
  /\ Remember

(* The process ends; the database rolls its open transaction back, and a      *)
(* committed claim stays as it is.                                           *)
Die(w) ==
  /\ deaths < MaxDeaths
  /\ deaths' = deaths + 1
  /\ claim' = [claim EXCEPT ![w] = NoRow]
  /\ attemptCount' = [attemptCount EXCEPT ![w] = 0]
  /\ sawPaused' = [sawPaused EXCEPT ![w] = FALSE]
  /\ Goto(w, "down")
  /\ UNCHANGED <<rows, publicMode, safety, calls>>
  /\ Remember

(* The process is killed between any two of its steps.                       *)
Crash(w) ==
  /\ "crash" \in Faults
  /\ pc[w] # "down"
  /\ Die(w)

(* get_conversation_safety raises outside the try of run_once: nothing        *)
(* catches the error and the worker process ends.                            *)
SafetyReadError(w) ==
  /\ "safety_read_error" \in Faults
  /\ pc[w] = "channel_read"
  /\ Die(w)
-----------------------------------------------------------------------------
(* One step of the worker's own program.                                     *)
WorkerStep(w) ==
  \/ Start(w)
  \/ LockNextRow(w)
  \/ CommitClaim(w)
  \/ CheckPrivateNote(w)
  \/ CheckSuperseded(w)
  \/ CheckStoredState(w)
  \/ CheckChannelState(w)
  \/ RecheckSuperseded(w)
  \/ CreateMessage(w)
  \/ MarkSendFailure(w)
  \/ UpdateStatus(w)
  \/ ReadLabels(w)
  \/ ReplaceLabels(w)
  \/ MarkSent(w)

Failure(w) == Crash(w) \/ SafetyReadError(w)

Environment ==
  \/ \E m \in Messages : CustomerTurn(m)
  \/ \E m \in Messages : Enqueue(m)
  \/ StoredStateChange
  \/ ChannelChange

Next ==
  \/ \E w \in Workers : WorkerStep(w)
  \/ \E w \in Workers : Failure(w)
  \/ Environment
  \/ Tick

Spec == Init /\ [][Next]_vars

(* run_once and outbound-worker loop without end, every Chatwoot call ends by  *)
(* an answer or by a timeout of the HTTP client, a stopped worker is started   *)
(* again (README: keep the outbound worker running), and time passes.  The     *)
(* environment and the failures of processes are never forced.                *)
Fairness == WF_vars(Tick) /\ \A w \in Workers : WF_vars(WorkerStep(w))

FairSpec == Spec /\ Fairness
-----------------------------------------------------------------------------
(***************************************************************************)
(* Correctness.                                                             *)
(***************************************************************************)
(* Every variable has its type, and a worker holds a row exactly while it     *)
(* works on one.                                                             *)
TypeOK ==
  /\ msgs \subseteq Messages
  /\ status \in [Messages -> Statuses]
  /\ draft \in [Messages -> Draft]
  /\ attempts \in [Messages -> Nat]
  /\ due \in [Messages -> Nat]
  /\ outbox \in Seq(Messages)
  /\ pc \in [Workers -> Locations]
  /\ claim \in [Workers -> Messages \cup {NoRow}]
  /\ \A w \in Workers : claim[w] = NoRow <=> pc[w] \in {"down", "idle"}
  /\ attemptCount \in [Workers -> Nat]
  /\ publicMode \in [Workers -> BOOLEAN]
  /\ sawPaused \in [Workers -> BOOLEAN]
  /\ deaths \in 0..MaxDeaths
  /\ stored \subseteq StoredHolds
  /\ humanLeft \in 0..HumanTtl
  /\ channel \subseteq ChannelHolds
  /\ tries \in [Messages -> Nat]
  /\ copies \in [Messages -> Nat]
  /\ ambiguous \in [Messages -> Nat]
  /\ standing \in [Workers -> SUBSET Hold]

(* Two workers never work on the same row, and the row a worker works on      *)
(* stays `executing` until that worker records its result: without it the     *)
(* unconditional writes of mark_outbound_action would overwrite each other.   *)
ExclusiveClaim ==
  /\ \A v, w \in Workers : v # w /\ claim[v] = claim[w] => claim[v] = NoRow
  /\ \A w \in Workers : pc[w] \in Working => status[claim[w]] = "executing"

(* A row is sent at most outbound_max_attempts times, over all workers, claims *)
(* and crashes.                                                              *)
AttemptBudget == \A m \in Messages : tries[m] <= MaxAttempts

(* The status of a row tells what the customer got, up to the calls whose     *)
(* answer was lost: exactly one more message for `sent`, none for a row that  *)
(* is waiting, blocked, superseded or failed.  In particular only a lost      *)
(* answer can lead to a second message, never a crash or a failed update      *)
(* after the send.                                                           *)
RowLedger(m) ==
  /\ status[m] = "sent" => copies[m] = ambiguous[m] + 1
  /\ status[m] \notin {"sent", "executing"} => copies[m] = ambiguous[m]
  /\ copies[m] <= ambiguous[m] + 1

LedgerMatchesChannel == \A m \in Messages : RowLedger(m)

(* When a worker is about to call create_message, nothing that forbids the     *)
(* message has been in force ever since it claimed the row: not a pause,       *)
(* assignment, resolution or human activity stored or shown by Chatwoot, not   *)
(* the mode of the process, not the content; nor has a newer turn been stored  *)
(* before Chatwoot answered the read of its state.                            *)
RespectsStandingHolds == \A w \in Workers : pc[w] = "send" => standing[w] = {}

Stranded(m) == status[m] = "executing" /\ \A w \in Workers : claim[w] # m

(* Only the death of a worker strands a row in `executing`, and each death     *)
(* strands at most one: a worker claims one row at a time.                    *)
StrandedOnlyByDeath == Cardinality({m \in Messages : Stranded(m)}) <= deaths

(* A row that was sent, blocked, superseded or given up is never touched again. *)
SettledIsFinal ==
  [][\A m \in Messages : status[m] \in Terminal =>
       /\ status'[m] = status[m]
       /\ attempts'[m] = attempts[m]
       /\ tries'[m] = tries[m]]_vars

(* README: a public reply still queued when a newer customer message arrives  *)
(* is never sent.                                                            *)
QueuedReplySuperseded ==
  \A m \in Messages :
    [](status[m] = "queued" /\ draft[m].kind = "public_message"
         /\ (\E n \in msgs : n > m)
       => [](tries[m] = 0))

(* Every row that waits is settled in the end, or stranded by a worker that    *)
(* died with it.                                                             *)
EveryRowSettles ==
  \A m \in Messages :
    status[m] \in {"queued", "retryable_failure"}
      ~> status[m] \in Terminal \/ Stranded(m)

(* persistence.md: execution claims a row, then records its outcome.           *)
ClaimIsResolved ==
  \A m \in Messages : status[m] = "executing" ~> status[m] # "executing"
-----------------------------------------------------------------------------
(***************************************************************************)
(* The inductive invariant: what the properties above rest on, in parts.     *)
(***************************************************************************)
(* A row that is being claimed still waits.                                  *)
ClaimInv ==
  /\ ExclusiveClaim
  /\ \A w \in Workers :
       pc[w] = "claiming" => status[claim[w]] \in {"queued", "retryable_failure"}

(* The persisted count lags the calls by one exactly between a call and its   *)
(* record, and a row that waits has a call left.                             *)
RowBudget(m) ==
  /\ tries[m] <= MaxAttempts
  /\ status[m] \in {"none", "queued"} => attempts[m] = 0
  /\ status[m] \in {"none", "queued", "retryable_failure"} =>
       tries[m] = attempts[m] /\ attempts[m] < MaxAttempts

WorkerBudget(w) ==
  /\ claim[w] # NoRow => attemptCount[w] = attempts[claim[w]]
  /\ pc[w] \in BeforeCall =>
       tries[claim[w]] = attempts[claim[w]] /\ attempts[claim[w]] < MaxAttempts
  /\ pc[w] \in AfterCall => tries[claim[w]] = attempts[claim[w]] + 1

BudgetInv == (\A m \in Messages : RowBudget(m)) /\ (\A w \in Workers : WorkerBudget(w))

(* Between a successful call and its record the ledger is one message behind. *)
WorkerLedger(w) ==
  /\ pc[w] \in BeforeCall \cup {"failed_retryable", "failed_permanent"} =>
       copies[claim[w]] = ambiguous[claim[w]]
  /\ pc[w] \in {"succeeded", "label_write", "mark_sent"} =>
       copies[claim[w]] = ambiguous[claim[w]] + 1

LedgerInv ==
  /\ LedgerMatchesChannel
  /\ \A m \in Messages : copies[m] <= tries[m]
  /\ \A w \in Workers : WorkerLedger(w)

(* Each check a worker has passed has ended the holds of its kind.            *)
WorkerStanding(w) ==
  pc[w] \in Working => \A h \in standing[w] :
    /\ ~IsPublic(claim[w]) => h[1] = "static"
    /\ pc[w] \in {"channel_read", "recheck", "send"} => h[1] \notin {"static", "stored"}
    /\ pc[w] \in {"recheck", "send"} => h[1] # "channel"
    /\ pc[w] = "send" => h[1] # "turn"

StandingInv == \A w \in Workers : WorkerStanding(w)
-----------------------------------------------------------------------------
(***************************************************************************)
(* Outbound implements Delivery.                                            *)
(***************************************************************************)
(* What the workflow sees of a row: the worker's steps are hidden.            *)
Phase == [m \in Messages |->
  CASE status[m] = "none" -> "absent"
    [] status[m] = "sent" -> "confirmed"
    [] status[m] \in Terminal \ {"sent"} -> "closed"
    [] OTHER -> "open"]

Outbox == INSTANCE Delivery WITH phase <- Phase

(* Every step of the executor is a step of Delivery or invisible there.        *)
ImplementsDelivery == Outbox!Spec

(* And Delivery's fairness: if no worker ever dies, no row stays open.         *)
ImplementsFairDelivery == <>(deaths > 0) \/ Outbox!Fairness
=============================================================================
