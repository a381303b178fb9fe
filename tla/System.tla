------------------------------- MODULE System -------------------------------
(***************************************************************************)
(* One conversation from end to end: Chatwoot with its customer and its     *)
(* operator, the requests of the API, the workflow, the outbox and the       *)
(* workers.  Webhooks report the conversation as it was when they were       *)
(* caused; they arrive in any order, late, or never, and a turn's may arrive  *)
(* again.  A reply comes back as an event of its own.                        *)
(*                                                                         *)
(* Each part is taken at the grain the others see it in: a request by what    *)
(* it reads and what it commits (Ingress shows the steps and their locks),    *)
(* the workflow by what it may queue (Turn), a worker by claim, check and     *)
(* send (Outbound).  The label stands for every mark Chatwoot reports.        *)
(***************************************************************************)
EXTENDS Naturals, FiniteSets

CONSTANTS
  Turns,       (* customer messages, ranked by (created_at, message id)      *)
  Media,       (* those without text                                         *)
  Workers,     (* outbound workers                                           *)
  NoTurn,
  MaxActions,  (* bound: what the operator does                              *)
  MaxFaults    (* bound: requests and workers that die, sends that fail,     *)
               (*   deliveries that are repeated, restarts of the API        *)

ASSUME SystemAssumption ==
  /\ Turns \subseteq Nat
  /\ NoTurn \notin Turns
  /\ Media \subseteq Turns
  /\ MaxActions \in Nat /\ MaxFaults \in Nat

Modes == {"observe", "assist", "public_reply"}
Kinds == {"public_message", "private_note"}

(* Webhook events: a customer's turn, the echo of a reply to it, what the       *)
(* operator did.                                                             *)
TurnEvent(m) == <<"turn", m>>
Echo(m)      == <<"echo", m>>
Action(i)    == <<"action", i>>
Events == {TurnEvent(m) : m \in Turns} \cup {Echo(m) : m \in Turns}
            \cup {Action(i) : i \in 1..MaxActions}

VARIABLES
  label,       (* Chatwoot: does the conversation carry wootpilot-paused?    *)
  payload,     (* what each event says: the label, and a human's reply or not *)
  actions,     (* what the operator has done, in number                      *)
  posted,      (* Chatwoot: what WootPilot posted for each turn              *)
  request,     (* how far the request of each event is                       *)
  loaded,      (* the conversation_states row it read                        *)
  state,       (* the committed conversation_states row                      *)
  stored,      (* turns in conversation_messages                             *)
  apiMode,     (* settings.automation_mode of the API process                *)
  row,         (* outbound_actions: the row of each turn                     *)
  pc,          (* what each worker does                                      *)
  claim,       (* the turn whose row it executes, or NoTurn                  *)
  workerMode,  (* settings.automation_mode of its process                    *)
  faults,
  modes,       (* history: of each turn, the modes the API has run in since   *)
               (*   it was written                                         *)
  lifted       (* history: has the label been off since the worker's claim?  *)

chatwoot == <<label, payload, actions, posted>>
requests == <<request, loaded>>
database == <<state, stored, row>>
workers  == <<pc, claim, workerMode>>
vars     == <<chatwoot, requests, database, apiMode, workers, faults, modes, lifted>>

Payload  == [label : BOOLEAN, human : BOOLEAN]
StateRow == [paused : BOOLEAN, human : BOOLEAN]
NewRow   == [paused |-> FALSE, human |-> FALSE]
NoRow    == [kind |-> "private_note", status |-> "none"]
Stages   == {"absent", "due", "loaded", "workflow", "done", "lost"}
Statuses == {"none", "queued", "executing", "sent", "superseded", "blocked_by_policy"}
-----------------------------------------------------------------------------
Init ==
  /\ label      \in BOOLEAN
  /\ payload    = [e \in Events |-> [label |-> FALSE, human |-> FALSE]]
  /\ actions    = 0
  /\ posted     = [m \in Turns |-> {}]
  /\ request    = [e \in Events |-> "absent"]
  /\ loaded     = [e \in Events |-> NewRow]
  /\ state      = NewRow
  /\ stored     = {}
  /\ apiMode    \in Modes
  /\ row        = [m \in Turns |-> NoRow]
  /\ pc         = [w \in Workers |-> "down"]
  /\ claim      = [w \in Workers |-> NoTurn]
  /\ workerMode = [w \in Workers |-> "observe"]
  /\ faults     = 0
  /\ modes      = [m \in Turns |-> {}]
  /\ lifted     = [w \in Workers |-> FALSE]

Fault == faults < MaxFaults /\ faults' = faults + 1

At(e, stage) == request' = [request EXCEPT ![e] = stage]

(* Chatwoot has an event to deliver, with the conversation as it is.           *)
Emit(e, marked, human) ==
  /\ payload' = [payload EXCEPT ![e] = [label |-> marked, human |-> human]]
  /\ At(e, "due")
-----------------------------------------------------------------------------
(***************************************************************************)
(* Chatwoot.                                                                *)
(***************************************************************************)
CustomerWrites(m) ==
  /\ request[TurnEvent(m)] = "absent"
  /\ \A n \in Turns : n < m => request[TurnEvent(n)] # "absent"
  /\ Emit(TurnEvent(m), label, FALSE)
  /\ modes' = [modes EXCEPT ![m] = {apiMode}]
  /\ UNCHANGED <<label, actions, posted, loaded, database, apiMode, workers, faults, lifted>>

(* The operator sets or removes the label, or replies.                        *)
OperatorActs ==
  /\ actions < MaxActions
  /\ actions' = actions + 1
  /\ \/ /\ label' = ~label
        /\ Emit(Action(actions'), label', FALSE)
     \/ /\ UNCHANGED label
        /\ Emit(Action(actions'), label, TRUE)
  /\ lifted' = [w \in Workers |-> lifted[w] \/ ~label']
  /\ UNCHANGED <<posted, loaded, database, apiMode, workers, faults, modes>>

(* The message of a turn comes again, under another delivery id.               *)
Redeliver(m) ==
  /\ request[TurnEvent(m)] \in {"done", "lost"}
  /\ Fault
  /\ At(TurnEvent(m), "due")
  /\ UNCHANGED <<chatwoot, loaded, database, apiMode, workers, modes, lifted>>

(* human_active_until passes.                                                 *)
WindowEnds ==
  /\ state.human
  /\ state' = [state EXCEPT !.human = FALSE]
  /\ UNCHANGED <<chatwoot, requests, stored, row, apiMode, workers, faults, modes, lifted>>
-----------------------------------------------------------------------------
(***************************************************************************)
(* A request of the API.                                                    *)
(***************************************************************************)
Load(e) ==
  /\ request[e] = "due"
  /\ At(e, "loaded")
  /\ loaded' = [loaded EXCEPT ![e] = state]
  /\ UNCHANGED <<chatwoot, database, apiMode, workers, faults, modes, lifted>>

(* Mutant: the marks of the payload are used for later messages only.          *)
ViewAsLoaded(e, human) == [paused |-> loaded[e].paused, human |-> human]

(* The row as the request changes it: the marks are those of the payload.  A     *)
(* human's reply that comes late may open a window that is over.              *)
View(e, human) == [paused |-> payload[e].label, human |-> human]

(* UPDATE writes the columns the session changed.                             *)
Merged(e, new) ==
  [paused |-> IF new.paused # loaded[e].paused THEN new.paused ELSE state.paused,
   human  |-> IF payload[e].human THEN new.human ELSE state.human]

(* Mutant: a turn with text goes on to the workflow, stored before or not.      *)
CommitIngressAgain(e) ==
  /\ request[e] = "loaded"
  /\ \E human \in IF payload[e].human THEN BOOLEAN ELSE {loaded[e].human} :
       /\ state' = Merged(e, View(e, human))
       /\ loaded' = [loaded EXCEPT ![e] = View(e, human)]
  /\ stored' = IF e[1] = "turn" THEN stored \cup {e[2]} ELSE stored
  /\ At(e, IF e[1] = "turn" /\ e[2] \notin Media THEN "workflow" ELSE "done")
  /\ UNCHANGED <<chatwoot, row, apiMode, workers, faults, modes, lifted>>

(* The ingress transaction: a turn that was not stored and has text goes on to  *)
(* the workflow.                                                             *)
CommitIngress(e) ==
  /\ request[e] = "loaded"
  /\ \E human \in IF payload[e].human THEN BOOLEAN ELSE {loaded[e].human} :
       /\ state' = Merged(e, View(e, human))
       /\ loaded' = [loaded EXCEPT ![e] = View(e, human)]
  /\ stored' = IF e[1] = "turn" THEN stored \cup {e[2]} ELSE stored
  /\ At(e, IF e[1] = "turn" /\ e[2] \notin stored \cup Media THEN "workflow" ELSE "done")
  /\ UNCHANGED <<chatwoot, row, apiMode, workers, faults, modes, lifted>>

(* The gate looks at the row as the request left it.                          *)
Held(m) ==
  LET view == loaded[TurnEvent(m)]
  IN  view.paused \/ (apiMode = "public_reply" /\ view.human)

(* Mutant: a reply is queued in mode assist.                                  *)
RunWorkflowForReplies(m) ==
  /\ request[TurnEvent(m)] = "workflow"
  /\ At(TurnEvent(m), "done")
  /\ \/ UNCHANGED row
     \/ \E kind \in Kinds :
          /\ ~Held(m)
          /\ apiMode # "observe"
          /\ row' = [row EXCEPT ![m] = [kind |-> kind, status |-> "queued"]]
  /\ UNCHANGED <<chatwoot, loaded, state, stored, apiMode, workers, faults, modes, lifted>>

(* The workflow's transaction: a row within what Turn allows, or none.         *)
RunWorkflow(m) ==
  /\ request[TurnEvent(m)] = "workflow"
  /\ At(TurnEvent(m), "done")
  /\ \/ UNCHANGED row
     \/ \E kind \in Kinds :
          /\ ~Held(m)
          /\ apiMode = "public_reply" \/ (apiMode = "assist" /\ kind = "private_note")
          /\ row' = [row EXCEPT ![m] = [kind |-> kind, status |-> "queued"]]
  /\ UNCHANGED <<chatwoot, loaded, state, stored, apiMode, workers, faults, modes, lifted>>

(* A request dies.                                                            *)
Fail(e) ==
  /\ request[e] \in {"loaded", "workflow"}
  /\ Fault
  /\ At(e, "lost")
  /\ UNCHANGED <<chatwoot, loaded, database, apiMode, workers, modes, lifted>>

(* The API is restarted in another mode, which ends its requests.              *)
RestartApi ==
  /\ Fault
  /\ apiMode' \in Modes
  /\ modes' = [m \in Turns |-> IF modes[m] = {} THEN {} ELSE modes[m] \cup {apiMode'}]
  /\ request' = [e \in Events |->
       IF request[e] \in {"loaded", "workflow"} THEN "lost" ELSE request[e]]
  /\ UNCHANGED <<chatwoot, loaded, database, workers, lifted>>
-----------------------------------------------------------------------------
(***************************************************************************)
(* A worker.                                                                *)
(***************************************************************************)
Goto(w, to) == pc' = [pc EXCEPT ![w] = to]

(* Its process starts, in a mode of its own.                                   *)
Start(w) ==
  /\ pc[w] = "down"
  /\ \E mode \in Modes : workerMode' = [workerMode EXCEPT ![w] = mode]
  /\ Goto(w, "idle")
  /\ UNCHANGED <<chatwoot, requests, database, apiMode, claim, faults, modes, lifted>>

(* Mutant: the dequeue is for replies.                                        *)
ClaimableReply(m) == row[m].status = "queued" /\ row[m].kind = "public_message"

Claimable(m) == row[m].status = "queued"

Claim(w) ==
  /\ pc[w] = "idle"
  /\ \E m \in Turns :
       /\ Claimable(m)
       /\ claim' = [claim EXCEPT ![w] = m]
       /\ row' = [row EXCEPT ![m].status = "executing"]
  /\ lifted' = [lifted EXCEPT ![w] = ~label]
  /\ Goto(w, "check")
  /\ UNCHANGED <<chatwoot, requests, state, stored, apiMode, workerMode, faults, modes>>

(* Mutant: the worker keeps what it claimed.                                  *)
SettleKeepingClaim(w, status) ==
  /\ row' = [row EXCEPT ![claim[w]].status = status]
  /\ Goto(w, "idle")
  /\ UNCHANGED claim

Settle(w, status) ==
  /\ row' = [row EXCEPT ![claim[w]].status = status]
  /\ claim' = [claim EXCEPT ![w] = NoTurn]
  /\ Goto(w, "idle")

(* Mutant: the comparison of the two turns is swapped.                        *)
OvertakenByEarlier(m) == \E n \in stored : n < m

Overtaken(m) == \E n \in stored : n > m

(* Mutant: what the webhooks said is taken for Chatwoot's state.               *)
BlockedAsStored(w) == workerMode[w] # "public_reply" \/ state.paused \/ state.human

(* Mode, stored state, and the state Chatwoot has now.                        *)
Blocked(w) ==
  workerMode[w] # "public_reply" \/ state.paused \/ state.human \/ label

(* A note is sent whatever the mode and the conversation.                     *)
Check(w) ==
  LET reply == row[claim[w]].kind = "public_message"
  IN  /\ pc[w] = "check"
      /\ \/ /\ reply /\ Overtaken(claim[w])
            /\ Settle(w, "superseded")
         \/ /\ reply /\ ~Overtaken(claim[w]) /\ Blocked(w)
            /\ Settle(w, "blocked_by_policy")
         \/ /\ ~reply \/ (~Overtaken(claim[w]) /\ ~Blocked(w))
            /\ Goto(w, "send")
            /\ UNCHANGED <<row, claim>>
      /\ UNCHANGED <<chatwoot, requests, state, stored, apiMode, workerMode, faults,
                     modes, lifted>>

(* create_message, and the row is marked; Chatwoot has an echo to deliver, which *)
(* says what a human's reply says.                                           *)
Send(w) ==
  LET m == claim[w]
  IN  /\ pc[w] = "send"
      /\ posted' = [posted EXCEPT ![m] = @ \cup {row[m].kind}]
      /\ IF row[m].kind = "public_message"
           THEN Emit(Echo(m), label, TRUE)
           ELSE UNCHANGED <<payload, request>>
      /\ Settle(w, "sent")
      /\ UNCHANGED <<label, actions, loaded, state, stored, apiMode, workerMode, faults,
                     modes, lifted>>

(* Chatwoot rejects the call for now.                                         *)
SendFails(w) ==
  /\ pc[w] = "send"
  /\ Fault
  /\ Settle(w, "queued")
  /\ UNCHANGED <<chatwoot, requests, state, stored, apiMode, workerMode, modes, lifted>>

(* Its process ends, killed with a row or stopped without one.                 *)
Die(w) ==
  /\ pc[w] # "down"
  /\ Fault
  /\ Goto(w, "down")
  /\ claim' = [claim EXCEPT ![w] = NoTurn]
  /\ UNCHANGED <<chatwoot, requests, database, apiMode, workerMode, modes, lifted>>

Handle(e) == Load(e) \/ CommitIngress(e) \/ (e[1] = "turn" /\ RunWorkflow(e[2]))

Work(w) == Start(w) \/ Claim(w) \/ Check(w) \/ Send(w)

Next ==
  \/ \E m \in Turns : CustomerWrites(m) \/ Redeliver(m)
  \/ OperatorActs
  \/ WindowEnds
  \/ \E e \in Events : Handle(e) \/ Fail(e)
  \/ RestartApi
  \/ \E w \in Workers : Work(w) \/ SendFails(w) \/ Die(w)

Spec == Init /\ [][Next]_vars

(* The requests of turns, and workers, go on once they have begun; no webhook has *)
(* to arrive.                                                                *)
Fairness ==
  /\ \A m \in Turns :
       WF_vars(request[TurnEvent(m)] \in {"loaded", "workflow"} /\ Handle(TurnEvent(m)))
  /\ \A w \in Workers : WF_vars(Work(w))

FairSpec == Spec /\ Fairness
-----------------------------------------------------------------------------
(***************************************************************************)
(* Correctness.                                                             *)
(***************************************************************************)
(* Every variable has its type.                                              *)
TypeOK ==
  /\ label \in BOOLEAN
  /\ payload \in [Events -> Payload]
  /\ actions \in 0..MaxActions
  /\ posted \in [Turns -> SUBSET Kinds]
  /\ request \in [Events -> Stages]
  /\ loaded \in [Events -> StateRow]
  /\ state \in StateRow
  /\ stored \subseteq Turns
  /\ apiMode \in Modes
  /\ row \in [Turns -> [kind : Kinds, status : Statuses]]
  /\ pc \in [Workers -> {"down", "idle", "check", "send"}]
  /\ claim \in [Workers -> Turns \cup {NoTurn}]
  /\ \A w \in Workers : pc[w] \in {"check", "send"} <=> claim[w] # NoTurn
  /\ workerMode \in [Workers -> Modes]
  /\ faults \in 0..MaxFaults
  /\ modes \in [Turns -> SUBSET Modes]
  /\ lifted \in [Workers -> BOOLEAN]

PostsReply(m) == "public_message" \in posted'[m] \ posted[m]

(* A message the customer wrote while automation was paused gets nothing from    *)
(* WootPilot, in whatever order, how late and how often webhooks arrive, and     *)
(* though the label is removed meanwhile.                                     *)
PausedTurnGetsNothing ==
  \A m \in Turns : payload[TurnEvent(m)].label => posted[m] = {}

(* Nor is a reply sent that was claimed with the label set, not even if an old    *)
(* payload has wiped the stored mark.                                         *)
LabelStopsReplies ==
  [][\A w \in Workers : pc[w] = "send" /\ PostsReply(claim[w]) => lifted[w]]_vars

(* With one worker the customer never reads the reply to an earlier turn after   *)
(* the reply to a later one, though their requests end in any order.           *)
RepliesKeepOrder ==
  [][(\A v, w \in Workers : v = w) =>
       \A m, n \in Turns : PostsReply(m) /\ n > m => "public_message" \notin posted[n]]_vars

(* A turn that Chatwoot has delivered comes to rest: its request ends, and its    *)
(* row is sent, superseded or blocked, unless it was left behind by a worker     *)
(* that died.                                                                *)
AtRest(m) ==
  /\ request[TurnEvent(m)] \notin {"loaded", "workflow"}
  /\ row[m].status # "queued"
  /\ row[m].status = "executing" => \A w \in Workers : claim[w] # m

TurnsComeToRest ==
  \A m \in Turns : request[TurnEvent(m)] = "loaded" ~> AtRest(m)

(* What WootPilot writes for a message is bounded by the modes the API has run in  *)
(* since the message was written: nothing in observe, notes in assist, in         *)
(* whatever mode the workers run.  A change of the mode leaves the rows that      *)
(* are queued, so a note may still follow it; but not for a message written        *)
(* after it, however requests and deliveries overlap the restart.                *)
EffectsOf(mode) ==
  CASE mode = "observe"      -> {}
    [] mode = "assist"       -> {"private_note"}
    [] mode = "public_reply" -> Kinds

EffectsSince(m) == UNION {EffectsOf(mode) : mode \in modes[m]}

ModeBoundsEffects == \A m \in Turns : posted[m] \subseteq EffectsSince(m)

(* End to end, a turn gets one message from WootPilot at the most, however often   *)
(* it is delivered, and none any more once its row is closed: the promise that    *)
(* Outbound keeps step by step holds with the requests and the workflow around    *)
(* it.  A send that fails leaves nothing in Chatwoot here; Outbound has those     *)
(* that fail after all.                                                        *)
RowPhase(status) ==
  CASE status = "none"                                -> "absent"
    [] status \in {"queued", "executing"}             -> "open"
    [] status = "sent"                                -> "confirmed"
    [] status \in {"superseded", "blocked_by_policy"} -> "closed"

Outbox == INSTANCE Delivery WITH
  Messages    <- Turns,
  MaxAttempts <- 1,
  phase       <- [m \in Turns |-> RowPhase(row[m].status)],
  copies      <- [m \in Turns |-> Cardinality(posted[m])]

DeliversOnce == Outbox!CoarseSpec

(* conversation-behavior.md: WootPilot hands off when the customer sends          *)
(* unsupported media; in mode public_reply preferably by a private note.  So      *)
(* when an attachment has superseded the reply to a message, there is a note.    *)
MediaIsHandedOff ==
  \A m \in stored \cap Media, n \in Turns :
    /\ n < m /\ row[n].status = "superseded"
    /\ \A k \in Turns : request[TurnEvent(k)] = "done" /\ AtRest(k)
    => \E k \in Turns : k >= m /\ "private_note" \in posted[k]
=============================================================================
