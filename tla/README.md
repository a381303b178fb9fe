# WootPilot in TLA+

WootPilot answers customer messages of a Chatwoot inbox. It receives Chatwoot's webhooks, stores each
turn, runs a support workflow over it (policy, catalog search, model proposal, policy again), and puts
the result - a customer-visible reply or a private note - into an outbox. Separate worker processes drain
the outbox and call Chatwoot.

This directory holds TLA+ models of that program, TLC configurations that check them on small instances,
and proofs checked by TLAPS. `PROJECT.json` maps every definition to the lines it models.

## 1. Inventory

| Part | State | Operations | What makes it hard |
|---|---|---|---|
| **Webhook ingress** `application/webhooks.py`, `api/main.py` | `raw_events`, `conversation_messages`, `conversation_states` | `handle`, one database session per request | duplicate and concurrent deliveries, unique keys and row locks between open transactions, unlocked read-modify-write of the state row, death after the ingress commit |
| **Support workflow** `application/workflow.py`, `workflow/*` | `agent_runs`, `policy_decisions`, `context_snapshots`, queued `outbound_actions` | `run`, graph of policy and model nodes | policy decided on the state the request read; errors of catalog and model |
| **Policy** `application/policy.py` | none | triage, pre-model policy, proposal validation, price and reasoning rules | which rules meet in one turn; the executor repeats some of them on what was stored |
| **Outbox and executor** `application/outbound.py` | `outbound_actions` | claim, check, send, record; retry after a delay | several workers, stale safety state, lost answers, crashes between claim and result, partial failure after a send |
| **Worker loop** `cli.py` | LISTEN connection, wait time | `run_once`, then wait for NOTIFY or a timeout | rows committed, put back or claimed while the wait is worked out; retries are announced to nobody |
| **Persistence** `persistence/*` | the tables | repositories over a caller-owned session; `SKIP LOCKED` dequeue | isolation is READ COMMITTED; nothing re-reads a row it read |
| **Chatwoot adapter** `integrations/chatwoot.py` | none (Chatwoot's conversation is external) | create message, set status, read/replace labels, read safety state; translation of payloads | retryable errors after a write, label read-merge-replace, echoes of own messages |
| **Proposal models** `integrations/model.py` | none | proposal with fallback over models | two methods per proposal, errors and answers without a proposal |
| **Catalog** `catalog/*` | none | product search | which price of which connector may be stated; errors outside the documented one |
| **Authentication, settings, observability, evals, migrations** | none | | not concurrent, stateless |

How they interact: ingress calls the workflow inside the webhook request, after it has committed the
ingress state. The workflow inserts the outbox row (idempotency key: tenant, channel, conversation, source
message, kind) and PostgreSQL NOTIFY wakes a worker. A worker reads `conversation_messages` (is there a
newer turn?) and `conversation_states` (is the conversation held?), both written by ingress at any time,
and Chatwoot's own state, which operators change at any time. What the worker sends comes back as a
webhook.

What should be correct, part by part:

* **Outbox**: no row is worked on twice at once; bounded attempts; the status of a row is what the customer
  got; nothing is sent against a hold that stood all along; a settled row stays settled; every row settles.
* **Ingress**: one workflow run per customer turn; an unanswered turn can be found; the suppression window
  of a human reply is not lost; every event leaves its raw event; requests do not block each other for ever.
* **Workflow and policy**: a public reply is queued only in mode `public_reply`, with the very text both
  policies passed; a refused draft is turned over to a person; a stated price is backed by the store; the
  rows of a turn are committed together; every run ends.
* **Worker loop**: nobody sleeps past a row; every waiting row is taken.
* **Turn order**: of the turns of a burst exactly one is not overtaken.
* **All together**: a paused conversation is left alone, replies come in the order of the turns, nothing is
  written that the mode forbids, every turn comes to rest.

## 2. Modules

| Module | What it is |
|---|---|
| `Delivery` | abstract: what the outbox promises to the workflow that queues a row |
| `Outbound` | the outbox and its workers, in detail, with the mapping to `Delivery` |
| `OutboundProofs`, `DeliveryProofs` | theorems about `Outbound`; that it implements `Delivery` |
| `Intake` | abstract: what the webhook endpoint promises of the events of a conversation, one at a time |
| `Ingress` | concurrent webhook requests of one conversation, with the mapping to `Intake` |
| `IngressProofs`, `IntakeProofs` | theorems about `Ingress`; that it implements `Intake` |
| `Turn` | abstract: what the workflow promises of one customer turn |
| `Policy` | the rules before and after the model, those the executor repeats, and the snapshots of the catalog |
| `Workflow` | one run of the support workflow, with the mapping to `Turn` |
| `WorkflowProofs` | theorems about `Workflow`, and that it implements `Turn` |
| `Wakeup` | the worker loop, on PostgreSQL and polling |
| `WakeupProofs` | theorems about `Wakeup` |
| `TurnOrder` | which customer turn overtakes which |
| `TurnOrderProofs` | that this is an order, and leaves exactly one turn |
| `System` | Chatwoot, ingress, workflow, outbox and workers of one conversation, with the mapping to `Delivery` |
| `SystemProofs` | theorems about `System`, and that it implements `Delivery` |
| `MC*` | values of the constants for TLC |

Every module but `System` takes one part apart and leaves the others open. `System` puts them together with
the parts reduced to what the others see of them: a run of the workflow is a step of `Turn`, a worker
claims, checks and sends.

### Outbound

One conversation, any number of customer turns and workers. `Messages` are naturals: the rank of a turn by
`(created_at, message id)`, the order of `has_newer_customer_public_message`; turns are stored in any
order of rank. At most one row exists per turn (idempotency key and one workflow run per turn), so a row is
named by its turn.

A worker is the program counter of `run_once` for one claimed row:

| `pc` | code | action |
|---|---|---|
| `down`, `idle` | process not running; between two claims | `Start`, `LockNextRow` |
| `claiming` | the dequeue holds the row lock | `CommitClaim` |
| `claimed` | first `_is_superseded` | `CheckSuperseded`, `CheckPrivateNote` |
| `stored_check` | static rules and `_stored_state_blocked_reason` | `CheckStoredState` |
| `channel_read` | `get_conversation_safety` | `CheckChannelState`, `SafetyReadError` |
| `recheck` | second `_is_superseded` | `RecheckSuperseded` |
| `send` | `create_message` | `CreateMessage` |
| `failed_*` | `_mark_send_failure` | `MarkSendFailure` |
| `succeeded`, `label_write` | `_apply_post_send_updates` | `UpdateStatus`, `ReadLabels`, `ReplaceLabels` |
| `mark_sent` | `_mark_sent` | `MarkSent` |

Each action ends where the code awaits the database or Chatwoot, so everything else may happen in between:
`CustomerTurn`, `Enqueue`, `StoredStateChange` (a webhook request), `ChannelChange` (an operator), `Tick`,
`Crash`. `create_message` may create the message or not and succeed, fail retryably or fail for good, in
every combination but success without a message. Time is the number of ticks a row or a human's window has
left. `tries`, `copies`, `ambiguous` and `standing` are history: they record what happened and guard
nothing.

### Delivery

The outbox hides workers, claims, checks, clocks and retries. What is left: an open row may be delivered at
most `MaxAttempts` times, is confirmed only after a delivery, else closed, and then never delivered again.
`Outbound!Phase` maps a status to its phase (`executing` and `retryable_failure` are open). `CoarseSpec` also
has delivery and confirmation as one step (`Hand`), which is the grain of `System`.

### Ingress

A request (`Requests`) receives a delivery of `Feed`, any one, any number of times, then goes through
`handle`:

| `pc` | code | action |
|---|---|---|
| `raw` | `insert_raw_event`, translators | `InsertRaw` |
| `ignore` | `_ignore_raw_event` | `IgnoreRawEvent` |
| `message` | `insert_message` | `InsertMessage` |
| `load` | `get_or_create_state` reads the row | `LoadState` |
| `update` | the flush takes the row lock; `row_to_state` | `UpdateState` |
| `commit` | raw status; commit | `CommitIngress` |
| `workflow` | workflow, its commits | `RecordResult` |

PostgreSQL at READ COMMITTED is part of the model: `rawEvents`, `storedBy`, `exists`, `state` and `runs` are
the committed tables; what an open transaction wrote follows from its `pc` (`HoldsDelivery`, `HoldsMessage`,
`HoldsStateRow`), and an insert of the same key or an update of the same row waits for it. The session
writes only columns it changed (`Merged`), over the row as it is by then. `Fail` is the death of a request
or an error that escapes it, at any step.

A payload says who sent it (`sender`) and, for the properties only, who really wrote it (`author`).

### Intake

The endpoint as its callers may think of it: each delivery is handled at once and at most once. The first
delivery of a message stores it, a later one of the same message is a duplicate (`Repeat`) and counts as
what was stored, everything else is noted; `Answer` is the run of a stored customer turn. Only a human's
public reply moves the suppression window, and never closes it; it may leave it as another reply has set it
meanwhile (the session writes back only columns it changed), and a repeated or late reply may move it back,
because the code compares no times. Requests, sessions, locks and deaths are not visible: `Ingress!Inbox`
maps the committed tables to the variables of `Intake`.

### Policy and Workflow

`Policy` has no state: the rules are operators from what the code looks at to the set of rules that block.
A text is what the rules tell of it: absent, empty, blank or some text, does it speak of internal reasoning,
does it state a price and which known prices does it quote. A product is the price and availability facts
of a `ProductSnapshot`, and a listing is what a connector makes them from (`StoreApiSnapshot`,
`MockSnapshot`), missing, zero and unreadable prices included.

`Workflow` is `RunCustomerSupportWorkflow.run` for one turn. Mode, connector, provider, stored holds and the
customer's words are chosen at the start; what the store lists and the model answers at the call.

| `pc` | code | action |
|---|---|---|
| `catalog` | `_load_catalog_context` | `LoadCatalogContext`, `CatalogUnavailable`, `CatalogMalformed` |
| `triage` | node `triage_message` | `TriageMessage` |
| `gate` | node `policy_gate` | `PolicyGate` |
| `propose` | node `generate_proposal`, adapters without a call | `GenerateProposal` |
| `json_schema`, `function_calling` | one structured call each | `Answered`, `CallFailed` |
| `validate` | node `validate_outbound_action` | `ValidateOutboundAction` |
| `record` | `_record_result`, `_queue_action` | `RecordResult` |
| `commit` | the commit of `handle` | `Commit` |
| `done`, `raised`, `dead` | committed; an error the code raises; killed | `Fail` |

`session` is what the open transaction has written, `committed` what the database keeps; an error or a death
rolls the session back. `Turn` sees no nodes, rules or transactions: an open turn may consult the model
unless it is blocked, and is then recorded, with at most one effect that the mode allows, or lost.

### Wakeup

A row is `absent`, `written` (inserted, not committed), waiting, executing or settled. A worker runs (`run`),
sends (`send`), works out its wait in two reads (`read_queued`, `read_retries`: the queries of
`next_outbound_action_due_at`), and waits (`wait`) until `waitLeft` is over or a notification is on its
connection. With `profile = "postgres"` a commit notifies whoever listens, which is from before the loop on;
with `"polling"` the wait is the interval. What becomes of a claimed row is left open: settled, put back
for a retry, or left with a worker that dies.

### TurnOrder

`Outbound` and `System` number the turns. `TurnOrder` is the comparison in the code: `created_at`, then
message ids, which are texts in the database, compared as integers if both are.

### System

A webhook carries the conversation as it was when Chatwoot emitted it (`payload`), and is handled whenever it
arrives. A request is `Load` (reads the state row), `CommitIngress` (writes what its payload changed over the
row as it is by then) and, for a new turn with text, `RunWorkflow`, which decides on the state its own
request saw. `label` is Chatwoot's `wootpilot-paused` label and stands for every mark the checks treat
alike; `human` is the suppression window, which an echo of WootPilot's own reply opens like a human's.
`OperatorActs`, `Redeliver`, `Fail`, `RestartApi`, `SendFails` and `Die` are the world's part. `modes` and `lifted`
are history and guard nothing.

## 3. Runs

| Run | Question | Bounds |
|---|---|---|
| `outbound_workers` | exclusive claims, attempt budget, ledger, stranding, refinement of `Delivery` with its liveness, every row settles, an overtaken queued reply is never sent | 2 workers, 2 turns, 2 deaths by kill or read error, status update after a send |
| `outbound_checks` | holds that stand are respected, settled is final | 1 worker, 2 turns, every kind of draft, a stored and a channel hold that come and go, 1 death |
| `ingress_redelivery` | one run per turn, truthful raw events, windows kept, events stored, refinement of `Intake` | 3 symmetric requests, 7 deliveries (a turn under two ids, the second without status and `can_reply`; human reply, resolution, snoozing, a reply while snoozed, other), 1 death |
| `ingress_waiting` | every request ends | 3 requests, fair, 1 death |
| `workflow_turn` | what is queued, recorded and said; refinement of `Turn`; every run ends | all modes, connectors and providers, 5 states of the conversation, 4 kinds of words, 8 shelves, 2 prices, every kind of proposal |
| `wakeup_loop` | nobody sleeps past a row, every row is taken | both profiles, 2 rows, 2 workers, limit 1, interval 2, debounce 3, retry after 1, 1 death |
| `turn_order_burst` | exactly one turn is left | 3 seconds, ids 8, 9, 10, 11 |
| `system_conversation` | label, mode, order, rest, one message for a turn (refinement of `Delivery`) | 2 turns, 1 worker, 1 action of the operator, 1 fault |

Why the bounds are enough: two turns are what it takes for one to overtake the other, two workers what it
takes to compete; `MaxAttempts = 2` distinguishes a retry from the last attempt; a delay of one tick
distinguishes due from not due. A hold in `outbound_checks` stands for any of its kind: the checks treat
them alike. Three requests are two deliveries of the same turn and a third request that changes the state
row meanwhile. The shelves hold a product for sale, a placeholder, one out of stock, one not for sale, one
without a display text, one without a price, one with an unreadable price, and a product for sale together
with a placeholder or an unreadable one; two prices are what it takes to state a right and a wrong one.
The debounce of `wakeup_loop` is longer than its interval so that a worker wakes up in between. The ids of
`turn_order_burst` are on both sides of a power of ten, where texts and numbers order differently. In
`system_conversation` the label is set or not at the start and changes once, and the fault is a repeated
delivery, a death of a request or a worker, a failed send or a restart of the API in another mode.
`MaxDeaths`, `MaxFailures`, `MaxFaults` and `MaxActions` are bounds of TLC's; the safety proofs need none.

`CHECK_DEADLOCK FALSE` is set where the system really stops: a run of the workflow ends, a conversation has
no more turns to store, and in `System` nothing happens once every event is handled.

Four runs end in a counterexample: a document or a docstring promises what the code does not do. Each is a
finding in `PROJECT.json`:

* `outbound_resolved` - an error of `get_conversation_safety` leaves the row `executing` for ever.
* `ingress_echo` - the echo of WootPilot's own reply counts as a human's.
* `workflow_prices` - a reply that states one price it may and one it may not state is queued.
* `system_media` - an attachment supersedes the reply to the message before it and gets no note itself.

Other divergences, met while modelling; the models contain these behaviours, no run is spent on them:

* A lost answer to `create_message` is retried without an idempotency key, so the customer may get a reply
  twice (`chatwoot.py:701-707`; the executor "sends queued actions idempotently", `outbound.py:37`). Hence
  the "up to lost answers" in `LedgerMatchesChannel`.
* `add_conversation_labels` reads and replaces, so a label set meanwhile is lost (docstring at
  `chatwoot.py:454`: "without dropping existing labels").
* A human reply delivered after a newer one sets `human_active_until` back (`webhooks.py:257`), so the window
  of the newer one is cut short (`docs/product/conversation-behavior.md:147-148`). `SuppressionSurvives` admits
  that; `ImplementsIntake` shows that only such a reply sets it back, never a request that read an old row.
* A message of a conversation with a status outside `ConversationStatus` fails at `repositories.py:101` and is
  rolled back with its raw event: the exception `EventsAreStored` names.
* A public message without a text becomes a run with status `queued_action` and no outbound row
  (`workflow.py:249`; `README.md:134-135`): the exception `TurnCommitsAsAWhole` names.
* In mode `assist` a customer who asks for a person gets no note: the gate blocks the turn
  (`policy.py:146`; `docs/product/conversation-behavior.md:108-130`).
* A price that is no integer raises `ValueError` past the `CatalogContextError` of `search`
  (`store_api.py:89`, `:430`), and the turn is lost: `CatalogMalformed`.
* The executor checks mode and holds of replies only, so a note queued before a restart in mode `observe` is
  posted after it (`outbound.py:319`; `docs/product/operating-modes.md:14`): `ModeBoundsEffects` admits it for
  messages written before the restart, and for those only.
* A late payload overwrites the stored paused mark, and a note may be posted while the label is set
  (`webhooks.py:296`; `docs/architecture/chatwoot-channel.md:59`): hence `PausedTurnGetsNothing` is about
  turns written under the label and `LabelStopsReplies` about replies.

**Fairness.** `Outbound!Fairness` is weak fairness of each worker's next step and of time: `run_once` and
`outbound-worker` loop without end, the HTTP client has a timeout, and the README asks to keep the worker
running. `ImplementsFairDelivery` is conditional on no process having died, because a death strands its row.
`Ingress!Fairness` is strong fairness of each request's next step: PostgreSQL serves the waiters of a lock
in turn. `Workflow!FairSpec` is weak fairness of the run: connector and provider calls answer or time out.
`Wakeup!Fairness` is weak fairness of each worker and strong fairness of time, which passes between the
computations of the wait, not during one. `System!Fairness` is weak fairness of the
requests of turns, once they have begun, and of workers; no webhook ever has to arrive, nobody has to write or
act, no fault has to happen.

## 4. Proofs

All theorems hold for any number of turns, workers, drafts, deliveries, requests, rows and faults, under the
named assumptions on the constants only (delays and limits are naturals, feeds and answers are well typed).

`OutboundProofs`:

* `TypeCorrect`: `Spec => []TypeOK`.
* `ClaimsAreExclusive`: `ExclusiveClaim` is not inductive, because a worker that has locked a row but not
  committed it relies on the row still being due; `ClaimInv` adds that.
* `AttemptsAreBounded`: `AttemptBudget` speaks of calls, the code counts recorded failures. `BudgetInv`
  relates the two: equal before the call, one apart between the call and its record, and a row that waits
  has a call left. It rests on `ClaimInv`: the count in the read model of a worker is current because no
  other worker has the row.
* `LedgerIsTruthful`: `LedgerInv` adds that the ledger is one message behind exactly between a successful
  call and its record.
* `SettledRowsAreFinal`: from `ClaimInv`, a worker's row is `executing`, so no write meets a settled row.
* `StandingHoldsAreRespected`: `StandingInv` says which kinds of holds each passed check has ended; holds
  are only ever removed from `standing` after the claim, but for turns stored before Chatwoot answers.
* `OvertakenRepliesAreNeverSent`: a queued row has had no call (`BudgetInv`) and no worker past its claim
  (`ClaimInv`); once a newer turn is stored it stays `Overtaken`, because turns are never unstored and the
  first check of whoever claims it supersedes it. This is the promise of the README for queued replies,
  nested temporal operators included.
* `OnlyDeathsStrandRows`: a cardinality is bounded by an induction of its own, `StrandedInv`. The stranded
  rows are a finite set, at most as many as `deaths`; each step is shown to strand nothing new, or, if it is a
  death, at most the one row its worker had claimed (`OthersStrandNone`, `WorkerStrandsNone`,
  `DeathStrandsOne`). `ClaimInv` says that a row is put into `executing` only together with its claim. Number
  of rows and workers are not bounded: that `Messages` is finite is not assumed.

`DeliveryProofs`:

* `OutboundImplementsDelivery`: `Spec => ImplementsDelivery`. With `ClaimInv`, `BudgetInv` and `LedgerInv`
  as invariants, each step of a worker is a step of `Delivery` on the row it holds or a stutter: the budget
  bounds the deliveries, the ledger says that a confirmed row was delivered.

`IngressProofs` has one main induction, `Inductive == TypeOK /\ IngressInv /\ CommitsKnownStatus`:

* `DeliveryLock` and `MessageLock` say what the unique keys and the waiting of inserts come to: at most one
  open transaction has inserted a given delivery or message, and none that is already committed.
* `RequestInv` relates the `pc` of a request to what it stored, `StoreInv` the stored messages to their
  deliveries, runs and the requests still on their way. `OneRunForEachTurn` and `RawEventsAreTruthful`
  follow: `OneRunPerTurn` and `RawEventTellsOutcome` alone know nothing of the requests in flight.
* `TypeCorrect` needs more than types: an unknown conversation status must never be committed
  (`CommitsKnownStatus`), since `row_to_state` could not read it back.
* `SuppressionIsKept`: `SuppressionInv` says that the committed window belongs to a stored human reply, is
  there as soon as one is stored, and that the window a session has read belongs to one too; the set of
  such windows only grows, so a request that writes back what it read long ago writes no stranger's window.
* `OnlyFailuresAbandonTurns`: `AbandonedInv`, the same counting argument as for stranded rows: a turn that is
  stored has its request in `workflow` until its run is recorded, and only `Fail` takes the request away.
* `NoEventIsDropped`: a request ends without its raw event only if `row_to_state` cannot read the row it has
  flushed. `StoredIsReadable` is the strengthening: a message that comes again is applied as it was stored,
  so what is stored must be readable too, and a message with an unknown status is never stored.

`IntakeProofs`:

* `IngressImplementsIntake`: `Spec => ImplementsIntake`. The commit of a request is the one step that `Intake`
  sees: `Store` if it inserted the message (by `MessageLock` nobody has done so meanwhile), else `Repeat`;
  `IgnoreRawEvent` and state events are `Note`, `RecordResult` is `Answer`, all others stutter. `DeliveryLock`
  shows that the delivery has no outcome yet, `SuppressionInv` that writing back only changed columns never
  closes the window, and `RequestInv` with `RawEventTellsOutcome` that only an unanswered turn is answered.

`WorkflowProofs` rests on two invariants that say what a run has done by its `pc`, so no history is needed:

* `SessionInv`: what the session and the database hold follows from `pc` (`RowsOfTurn` once it is recorded);
  `TurnsAreWhole` is a consequence.
* `GraphInv`: while a run is undecided it has passed the gate with no rule; once decided, its decision is the
  one that gate, provider or validation made of the recorded policies. `OnlyApproved`, `ExecutorConfirms` and
  `RefusedDraftsAreReviewed` follow from it and from lemmas on the rules.
* `ShelfInv`: the context is what the connector made of the store's answer; with `MentionableIsBacked`, that
  a price the rules let pass comes from a product the store backs, it gives `PricesAreBacked`.
* `WorkflowImplementsTurn`: before the commit a step is a `Consult` or a stutter, the commit is a `Record` that
  `OnlyApproved` and `GraphInv` show allowed, an error a `Lose`.

`WakeupProofs`:

* `NobodyOversleeps`: not inductive alone, since a worker works out its wait before it sleeps. The
  strengthening says that from its first read on, a worker has counted each queued row or has a notification
  waiting: the commit of a row finds the worker listening.
* `RetriesHaveAWorker`: a row that was put back had a worker at that moment, which has not slept since
  without counting it; `ClaimInv` (a claimed row is executing, by one worker) keeps others from disturbing it.

`TurnOrderProofs`: overtaking compares ranks (`TurnsAreRanked`, `RanksAreTransitive`), for numbered ids and
any second and id; `LastTurnStays` proves, by induction over the steps that store turns, that exactly one
stored turn is not overtaken. Ids of both kinds at once would not be ordered (10, 9, and a text between them);
Chatwoot numbers its messages.

`SystemProofs` proves one invariant after the other, each resting on those before:

* `RowInv` (a row belongs to a stored turn; at most one run makes it), `TypeCorrect`.
* `PausedInv`: a turn written under the label has no row, because its request looks at its own payload.
* `ModeInv`: a row is of a kind that some mode since its turn was written allows. The mode the API runs in is
  always one of those (`ModesGrow`), so it is when the row is made; the mode of the workers plays no part.
* `LabelInv`: a worker past its check has seen the label off since its claim.
* `OrderInv`: with one worker, no later turn has had a reply when one is sent: a later turn's row is made
  after that turn is stored, and from then on the check supersedes the earlier.
* `SystemDeliversOnce`: `Spec => DeliversOnce`, the refinement of `Delivery!CoarseSpec` with a budget of one.
  `RowSteps` sums up what steps do to rows, claims and posts; `SoleInv` says that a claimed row is executing
  for one worker and that what was posted was sent; `RowInv`, that a turn with a row never gets a second
  run. Here a send that fails leaves nothing in Chatwoot; lost answers are `Outbound`'s, whose refinement of
  `Delivery` has the whole budget.

Every safety invariant and action property of a passing run is the subject of a theorem, and so is every
refinement. Out of reach of the prover and left to TLC are the liveness properties `EveryRowSettles`,
`EveryRequestEnds`, `ImplementsFairDelivery`, `TurnEnds`, `RowsAreTaken`, `TurnsComeToRest`.

## 5. Not modelled

* HTTP framing, payload parsing, headers, prompts, wording, word lists, logging, tracing.
* The webhook signature check: stateless; every request of the models is authentic.
* Which products a search matches: `Shelves` is whatever it finds. The structured reads of the catalog
  connectors have no caller in the program.
* Checkpoints: a LangGraph thread is one message and a message is run once, so nothing is resumed. An error
  of the saver is one of `Workflow!Fail`.
* The branch of `should_invoke` for other than customer turns: `handle` never gets there.
* Several conversations: no code relates them but the claim order.
* SQLite: the documentation allows one executor there; the locks of the models are PostgreSQL's.
* In `System`: delays, attempt counts and labels after a send (`Outbound` has them); a failed send is a row
  that is queued again, and the last failure is left out.
* `last_customer_message_at` and `last_human_public_message_at`: no code decides by them.
* A missing state row in the executor: ingress has committed the row before the workflow queues anything.
* The CLI's other commands, settings parsing, migrations, evaluation harness, development infrastructure.

## 6. What is left

1. The workflow in `System` as the abstract `Turn` of each message, so that what `Turn` promises is composed
   and not only restated.
2. `Outbound` as the implementation of the workers of `System`, and `Intake` of its requests.
3. Several conversations and the claim order between them.
