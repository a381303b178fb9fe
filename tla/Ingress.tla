------------------------------ MODULE Ingress ------------------------------
(***************************************************************************)
(* HandleWebhookEvent: concurrent webhook requests of one conversation.     *)
(*                                                                         *)
(* A request stores the raw event and the message, updates the safety state *)
(* of the conversation, commits, runs the support workflow and commits      *)
(* again.  Chatwoot may deliver the events of Feed in any order, any number *)
(* of times and concurrently, and a request may die between any two steps.  *)
(*                                                                         *)
(* The database is PostgreSQL at READ COMMITTED: what a transaction writes  *)
(* is seen by others when it commits, an insert waits for an open           *)
(* transaction that inserted the same unique key, and an update waits for   *)
(* the row lock and writes only the columns the session changed.            *)
(***************************************************************************)
EXTENDS Naturals, FiniteSets

CONSTANTS
  Requests,     (* handlers that may be busy at the same time                *)
  Deliveries,   (* provider_event_id's                                       *)
  MessageIds,   (* Chatwoot's message ids                                    *)
  Feed,         (* the payload of each delivery                              *)
  Flags,        (* blocking marks a payload restates: paused, assigned       *)
  Ttl,          (* settings.human_operator_active_ttl_seconds                *)
  MaxFailures   (* bound: requests that die                                  *)

Known     == {"open", "pending", "resolved"}   (* ConversationStatus         *)
RawStatus == Known \cup {"unset", "snoozed"}   (* what a payload may say      *)

Payload ==
  [kind : {"message", "conversation", "other"},
   id : MessageIds,                          (* of a message                  *)
   incoming : BOOLEAN, private : BOOLEAN, blank : BOOLEAN,
   sender : {"contact", "user", "agent_bot"},
   author : {"customer", "human", "wootpilot"},  (* who really wrote it       *)
   at : Nat,                                 (* created_at                    *)
   status : RawStatus,
   canReply : {"unset", "yes", "no"},
   flags : SUBSET Flags]

None == "none"

ASSUME IngressAssumption ==
  /\ None \notin Deliveries
  /\ Feed \in [Deliveries -> Payload]
  /\ Ttl \in Nat \ {0}
  /\ MaxFailures \in Nat

VARIABLES
  pc,         (* what each request does next                                 *)
  delivery,   (* the delivery a request handles                              *)
  storing,    (* does the request insert its message, or was it stored?       *)
  loaded,     (* the conversation_states row as the request's session read it *)
  rawEvents,  (* raw_events: the committed status of each delivery            *)
  storedBy,   (* conversation_messages: the delivery that stored the message  *)
  exists,     (* is the conversation_states row committed?                    *)
  state,      (* the committed conversation_states row                        *)
  runs,       (* agent_runs committed for each message                        *)
  failures    (* requests that died                                          *)

tables   == <<rawEvents, storedBy, exists, state, runs>>
requests == <<pc, delivery, storing, loaded>>
vars     == <<requests, tables, failures>>

StateRow  == [status : Known \cup {"unset"}, replyable : BOOLEAN,
              flags : SUBSET Flags, humanUntil : Nat]
NewRow    == [status |-> "unset", replyable |-> TRUE, flags |-> {}, humanUntil |-> 0]
Locations == {"idle", "raw", "message", "load", "update", "ignore", "commit", "workflow"}
-----------------------------------------------------------------------------
(***************************************************************************)
(* Translation of a payload and its effect on the state row.                *)
(***************************************************************************)
(* _author_type                                                              *)
AuthorType(p) ==
  CASE p.sender = "contact"   -> "customer"
    [] p.sender = "user"      -> "human_agent"
    [] p.sender = "agent_bot" -> "bot"

(* NormalizedMessage.is_customer_public_inbound                              *)
Agentable(p) ==
  /\ p.kind = "message"
  /\ p.incoming
  /\ ~p.private
  /\ AuthorType(p) = "customer"
  /\ ~p.blank

(* NormalizedMessage.is_human_public_reply                                   *)
HumanPublicReply(p) ==
  /\ p.kind = "message"
  /\ ~p.incoming
  /\ ~p.private
  /\ AuthorType(p) = "human_agent"

(* _apply_channel_metadata: the marks of the payload replace those of the row *)
ApplyChannelMetadata(row, p, status) ==
  [row EXCEPT !.flags = p.flags,
              !.status = IF status = "unset" THEN @ ELSE status,
              !.replyable = @ /\ status # "resolved"]

Replyable(p, otherwise) ==
  IF p.canReply = "unset" THEN otherwise ELSE p.canReply = "yes"

(* _update_conversation_state                                                *)
AfterMessage(row, p) ==
  LET applied == ApplyChannelMetadata(row, p, p.status)
  IN  [applied EXCEPT
         !.replyable = Replyable(p, @),
         !.humanUntil = IF HumanPublicReply(p) THEN p.at + Ttl ELSE @]

(* Mutant: an unknown status of a channel event is kept.                       *)
AfterConversationEventRaw(row, p) ==
  [ApplyChannelMetadata(row, p, p.status) EXCEPT
     !.replyable = IF p.status = "resolved" THEN @ ELSE Replyable(p, @)]

(* _update_channel_state: translate_channel_event drops an unknown status,    *)
(* and a resolved conversation stays not replyable.                          *)
AfterConversationEvent(row, p) ==
  LET status  == IF p.status \in Known THEN p.status ELSE "unset"
      applied == ApplyChannelMetadata(row, p, status)
  IN  [applied EXCEPT
         !.replyable = IF applied.status = "resolved" THEN @ ELSE Replyable(p, @)]

(* A message that was stored before is applied as it was stored.              *)
Applied(r) ==
  LET p == Feed[delivery[r]]
  IN  IF p.kind = "message" /\ ~storing[r] THEN Feed[storedBy[p.id]] ELSE p

Updated(r) ==
  IF Applied(r).kind = "message" THEN AfterMessage(loaded[r], Applied(r))
                                 ELSE AfterConversationEvent(loaded[r], Applied(r))

(* Mutant: UPDATE writes the whole row as the session knows it.                *)
MergedWhole(old, new, current) == new

(* UPDATE writes the columns the session changed, on the row as it is by then. *)
Merged(old, new, current) ==
  [status     |-> IF new.status # old.status THEN new.status ELSE current.status,
   replyable  |-> IF new.replyable # old.replyable THEN new.replyable
                                                   ELSE current.replyable,
   flags      |-> (current.flags \cup (new.flags \ old.flags)) \ (old.flags \ new.flags),
   humanUntil |-> IF new.humanUntil # old.humanUntil THEN new.humanUntil
                                                     ELSE current.humanUntil]
-----------------------------------------------------------------------------
(***************************************************************************)
(* Locks of the open ingress transactions.                                  *)
(***************************************************************************)
InTransaction(r) == pc[r] \in {"message", "load", "update", "ignore", "commit"}

HoldsDelivery(r, d) == InTransaction(r) /\ delivery[r] = d

HoldsMessage(r, id) ==
  /\ pc[r] \in {"load", "update", "commit"}
  /\ Feed[delivery[r]].kind = "message"
  /\ Feed[delivery[r]].id = id
  /\ storing[r]

(* Mutant: the row is locked when it is read, by everyone who reads it.        *)
HoldsStateRowEarly(r) == pc[r] \in {"update", "commit"}

(* The request that creates the row holds its key from its insert on.         *)
HoldsStateRow(r) == pc[r] = "commit" \/ (pc[r] = "update" /\ ~exists)

Others(r) == Requests \ {r}
-----------------------------------------------------------------------------
Init ==
  /\ pc        = [r \in Requests |-> "idle"]
  /\ delivery  = [r \in Requests |-> None]
  /\ storing   = [r \in Requests |-> FALSE]
  /\ loaded    = [r \in Requests |-> NewRow]
  /\ rawEvents = [d \in Deliveries |-> None]
  /\ storedBy  = [i \in MessageIds |-> None]
  /\ exists    = FALSE
  /\ state     = NewRow
  /\ runs      = [i \in MessageIds |-> 0]
  /\ failures  = 0

Goto(r, to) == pc' = [pc EXCEPT ![r] = to]

(* The request ends: what its session held is gone.                           *)
Finish(r) ==
  /\ Goto(r, "idle")
  /\ delivery' = [delivery EXCEPT ![r] = None]
  /\ storing' = [storing EXCEPT ![r] = FALSE]
  /\ loaded' = [loaded EXCEPT ![r] = NewRow]

(* Chatwoot delivers an event, for the first time or again.                   *)
Receive(r, d) ==
  /\ pc[r] = "idle"
  /\ Goto(r, "raw")
  /\ delivery' = [delivery EXCEPT ![r] = d]
  /\ UNCHANGED <<storing, loaded, tables, failures>>

(* Mutant: without the unique key, the stored events are only looked up.       *)
InsertRawUnlocked(r) ==
  LET d == delivery[r]
  IN  /\ pc[r] = "raw"
      /\ \/ /\ rawEvents[d] # None
            /\ Finish(r)
         \/ /\ rawEvents[d] = None
            /\ Goto(r, CASE Feed[d].kind = "message"      -> "message"
                         [] Feed[d].kind = "conversation" -> "load"
                         [] Feed[d].kind = "other"        -> "ignore")
            /\ UNCHANGED <<delivery, storing, loaded>>
      /\ UNCHANGED <<tables, failures>>

(* insert_raw_event, and where the translators send the event.                *)
InsertRaw(r) ==
  LET d == delivery[r]
  IN  /\ pc[r] = "raw"
      /\ \A q \in Others(r) : ~HoldsDelivery(q, d)
      /\ \/ /\ rawEvents[d] # None
            /\ Finish(r)
         \/ /\ rawEvents[d] = None
            /\ Goto(r, CASE Feed[d].kind = "message"      -> "message"
                         [] Feed[d].kind = "conversation" -> "load"
                         [] Feed[d].kind = "other"        -> "ignore")
            /\ UNCHANGED <<delivery, storing, loaded>>
      /\ UNCHANGED <<tables, failures>>

(* _ignore_raw_event                                                          *)
IgnoreRawEvent(r) ==
  /\ pc[r] = "ignore"
  /\ rawEvents' = [rawEvents EXCEPT ![delivery[r]] = "ignored"]
  /\ Finish(r)
  /\ UNCHANGED <<storedBy, exists, state, runs, failures>>

(* Mutant: without the unique key, the stored messages are only looked up.     *)
InsertMessageUnlocked(r) ==
  /\ pc[r] = "message"
  /\ storing' = [storing EXCEPT ![r] = storedBy[Feed[delivery[r]].id] = None]
  /\ Goto(r, "load")
  /\ UNCHANGED <<delivery, loaded, tables, failures>>

(* insert_message                                                             *)
InsertMessage(r) ==
  LET id == Feed[delivery[r]].id
  IN  /\ pc[r] = "message"
      /\ \A q \in Others(r) : ~HoldsMessage(q, id)
      /\ storing' = [storing EXCEPT ![r] = storedBy[id] = None]
      /\ Goto(r, "load")
      /\ UNCHANGED <<delivery, loaded, tables, failures>>

(* get_or_create_state                                                        *)
LoadState(r) ==
  /\ pc[r] = "load"
  /\ exists \/ \A q \in Others(r) : ~HoldsStateRow(q)
  /\ loaded' = [loaded EXCEPT ![r] = state]
  /\ Goto(r, "update")
  /\ UNCHANGED <<delivery, storing, tables, failures>>

(* Mutant: the row that was written is not read back.                         *)
UpdateStateUnread(r) ==
  /\ pc[r] = "update"
  /\ \A q \in Others(r) : ~HoldsStateRow(q)
  /\ Goto(r, "commit")
  /\ UNCHANGED <<delivery, storing, loaded, tables, failures>>

(* The flush takes the row lock; then row_to_state reads the row back, and     *)
(* raises ValueError for a status outside of ConversationStatus: the request  *)
(* fails and its transaction is rolled back.                                 *)
UpdateState(r) ==
  /\ pc[r] = "update"
  /\ \A q \in Others(r) : ~HoldsStateRow(q)
  /\ \/ /\ Updated(r).status \in Known \cup {"unset"}
        /\ Goto(r, "commit")
        /\ UNCHANGED <<delivery, storing, loaded>>
     \/ /\ Updated(r).status \notin Known \cup {"unset"}
        /\ Finish(r)
  /\ UNCHANGED <<tables, failures>>

(* Mutant: a turn counts as processed before the workflow has run.            *)
IngressStatusEarly(r) ==
  CASE Feed[delivery[r]].kind = "conversation" -> "processed"
    [] Feed[delivery[r]].kind = "message" ->
         IF ~storing[r] THEN "duplicate"
         ELSE IF Agentable(Feed[delivery[r]]) THEN "processed" ELSE "ignored"

(* The status of the raw event in the ingress transaction.                    *)
IngressStatus(r) ==
  CASE Feed[delivery[r]].kind = "conversation" -> "processed"
    [] Feed[delivery[r]].kind = "message" ->
         IF ~storing[r] THEN "duplicate"
         ELSE IF Agentable(Feed[delivery[r]]) THEN "received" ELSE "ignored"

(* Mutant: a turn in a conversation that was resolved is dropped.             *)
StartsWorkflowIfOpen(r) ==
  storing[r] /\ Agentable(Feed[delivery[r]]) /\ state.status # "resolved"

(* Only a customer turn that was not stored before goes on to the workflow.    *)
StartsWorkflow(r) == storing[r] /\ Agentable(Feed[delivery[r]])

(* The commit of the ingress transaction, whether handle commits it or, on a   *)
(* return, the session dependency.                                           *)
CommitIngress(r) ==
  LET d == delivery[r]
  IN  /\ pc[r] = "commit"
      /\ rawEvents' = [rawEvents EXCEPT ![d] = IngressStatus(r)]
      /\ storedBy' = IF storing[r] THEN [storedBy EXCEPT ![Feed[d].id] = d] ELSE storedBy
      /\ exists' = TRUE
      /\ state' = Merged(loaded[r], Updated(r), state)
      /\ IF StartsWorkflow(r)
           THEN Goto(r, "workflow") /\ UNCHANGED <<delivery, storing, loaded>>
           ELSE Finish(r)
      /\ UNCHANGED <<runs, failures>>

(* The workflow ends and its run is committed with the raw status.            *)
RecordResult(r) ==
  LET d == delivery[r]
  IN  /\ pc[r] = "workflow"
      /\ runs' = [runs EXCEPT ![Feed[d].id] = @ + 1]
      /\ rawEvents' = [rawEvents EXCEPT ![d] = "processed"]
      /\ Finish(r)
      /\ UNCHANGED <<storedBy, exists, state, failures>>

(* The request dies, or an error escapes it: its open transaction is lost.     *)
Fail(r) ==
  /\ pc[r] # "idle"
  /\ failures < MaxFailures
  /\ failures' = failures + 1
  /\ Finish(r)
  /\ UNCHANGED tables

Step(r) ==
  \/ InsertRaw(r)
  \/ IgnoreRawEvent(r)
  \/ InsertMessage(r)
  \/ LoadState(r)
  \/ UpdateState(r)
  \/ CommitIngress(r)
  \/ RecordResult(r)

Next ==
  \/ \E r \in Requests, d \in Deliveries : Receive(r, d)
  \/ \E r \in Requests : Step(r)
  \/ \E r \in Requests : Fail(r)

Spec == Init /\ [][Next]_vars

(* A handler runs on, connector and model calls time out, and PostgreSQL       *)
(* queues those who wait for a lock.                                         *)
Fairness == \A r \in Requests : SF_vars(Step(r))

FairSpec == Spec /\ Fairness
-----------------------------------------------------------------------------
(***************************************************************************)
(* Correctness.                                                             *)
(***************************************************************************)
(* Every variable has its type; a request that waits has no delivery.         *)
TypeOK ==
  /\ pc \in [Requests -> Locations]
  /\ delivery \in [Requests -> Deliveries \cup {None}]
  /\ \A r \in Requests : delivery[r] = None <=> pc[r] = "idle"
  /\ storing \in [Requests -> BOOLEAN]
  /\ loaded \in [Requests -> StateRow]
  /\ rawEvents \in [Deliveries ->
                      {None, "received", "processed", "ignored", "duplicate"}]
  /\ storedBy \in [MessageIds -> Deliveries \cup {None}]
  /\ exists \in BOOLEAN
  /\ state \in StateRow
  /\ runs \in [MessageIds -> Nat]
  /\ failures \in 0..MaxFailures

(* A customer turn gets at most one run of the workflow, however often and     *)
(* under however many delivery ids Chatwoot delivers it, at the same time or   *)
(* not, and whatever fails; and nothing but a customer turn gets one.          *)
OneRunPerTurn ==
  \A i \in MessageIds :
    runs[i] > 0 => runs[i] = 1 /\ storedBy[i] # None /\ Agentable(Feed[storedBy[i]])

(* The raw events tell what became of each stored message: the event that      *)
(* stored a turn is `processed` if the turn has its run and `received` if not, *)
(* so a turn left unanswered can be found; a `duplicate` stored nothing.       *)
RawEventTellsOutcome ==
  /\ \A i \in MessageIds : storedBy[i] # None =>
       rawEvents[storedBy[i]] =
         IF ~Agentable(Feed[storedBy[i]]) THEN "ignored"
         ELSE IF runs[i] = 1 THEN "processed" ELSE "received"
  /\ \A d \in Deliveries : rawEvents[d] = "duplicate" =>
       storedBy[Feed[d].id] \notin {None, d}

(* A stored turn is without a run only while its request is on it, or because  *)
(* that request died; each death abandons at most one.                        *)
Abandoned(i) ==
  /\ storedBy[i] # None
  /\ Agentable(Feed[storedBy[i]])
  /\ runs[i] = 0
  /\ \A r \in Requests : pc[r] = "workflow" => delivery[r] # storedBy[i]

AbandonedOnlyByFailure == Cardinality({i \in MessageIds : Abandoned(i)}) <= failures

(* Once a human reply is stored, human_active_until is that of some stored     *)
(* human reply: requests that work on the row at the same time never wipe it   *)
(* out, and nothing else sets it.                                             *)
Replies == {i \in MessageIds : storedBy[i] # None /\ HumanPublicReply(Feed[storedBy[i]])}

Windows == {Feed[storedBy[i]].at + Ttl : i \in Replies}

SuppressionSurvives ==
  state.humanUntil \in Windows \/ (state.humanUntil = 0 /\ Windows = {})

(* Requests that wait for each other's unique keys and row locks all end.      *)
EveryRequestEnds == \A r \in Requests : pc[r] # "idle" ~> pc[r] = "idle"

(* conversation-behavior.md: bot echoes are ignored, it is a human's public     *)
(* reply that suppresses public replies.                                      *)
OnlyHumansSuppress ==
  state.humanUntil > 0 =>
    \E i \in MessageIds : storedBy[i] # None /\ Feed[storedBy[i]].author = "human"

(* Payloads after which the state row can be read back.                        *)
Readable(p) == p.kind = "message" => p.status \in Known \cup {"unset"}

(* A request that is not killed leaves its event behind as stored or ignored,    *)
(* waiting for others included; but not the message of a conversation with a    *)
(* status the program does not know, which is rolled back as a whole.           *)
EventsAreStored ==
  [][\A r \in Requests :
       /\ pc[r] # "idle" /\ pc'[r] = "idle" /\ failures' = failures
       /\ Readable(Feed[delivery[r]])
       => rawEvents'[delivery[r]] # None]_vars

(* The feed as the promise of the endpoint sees it.                           *)
OfMessages  == {d \in Deliveries : Feed[d].kind = "message"}
OfTurns     == {d \in Deliveries : Agentable(Feed[d])}
OfReplies   == {d \in Deliveries : HumanPublicReply(Feed[d])}
OfState     == {d \in Deliveries : Feed[d].kind = "conversation"}
MessageOf   == [d \in Deliveries |-> Feed[d].id]
WindowEndOf == [d \in Deliveries |-> Feed[d].at + Ttl]

Inbox == INSTANCE Intake WITH
  Carrying <- OfMessages, Carried <- MessageOf, Turns <- OfTurns, Replies <- OfReplies,
  WindowEnd <- WindowEndOf, StateEvents <- OfState,
  outcome <- rawEvents, source <- storedBy, until <- state.humanUntil

(* Whatever requests do at the same time and however they die, what they commit  *)
(* is what an endpoint that handles one event at a time could have committed:    *)
(* the unique keys and row locks serialise them.                               *)
ImplementsIntake == Inbox!Spec
-----------------------------------------------------------------------------
(***************************************************************************)
(* The inductive invariant: what the properties above rest on, in parts.     *)
(***************************************************************************)
Busy(r) == InTransaction(r) \/ pc[r] = "workflow"

(* Unique keys: two requests never work on the same delivery, nor insert the   *)
(* same message, and what a request is inserting is not committed yet.        *)
DeliveryLock ==
  /\ \A q, r \in Requests : q # r /\ Busy(q) /\ Busy(r) => delivery[q] # delivery[r]
  /\ \A r \in Requests : InTransaction(r) => rawEvents[delivery[r]] = None

MessageLock ==
  /\ \A q, r \in Requests : \A i \in MessageIds :
       q # r /\ HoldsMessage(q, i) => ~HoldsMessage(r, i)
  /\ \A r \in Requests : pc[r] \in {"load", "update", "commit"} =>
       LET p == Feed[delivery[r]]
       IN  /\ p.kind \in {"message", "conversation"}
           /\ p.kind = "message" => (storing[r] <=> storedBy[p.id] = None)
           /\ p.kind = "conversation" => ~storing[r]

(* How far a request is tells what it has to do with its delivery.            *)
RequestInv ==
  \A r \in Requests :
    /\ pc[r] \in {"idle", "raw", "message"} => ~storing[r]
    /\ pc[r] = "message" => Feed[delivery[r]].kind = "message"
    /\ pc[r] = "ignore" => Feed[delivery[r]].kind = "other"
    /\ pc[r] = "workflow" =>
         LET p == Feed[delivery[r]]
         IN  Agentable(p) /\ storedBy[p.id] = delivery[r] /\ runs[p.id] = 0

(* A message is stored by a delivery of it, and only stored turns have runs.   *)
StoreInv ==
  \A i \in MessageIds :
    /\ storedBy[i] # None => Feed[storedBy[i]].kind = "message" /\ Feed[storedBy[i]].id = i
    /\ runs[i] = 0 \/ (runs[i] = 1 /\ storedBy[i] # None /\ Agentable(Feed[storedBy[i]]))

(* A row that is about to be committed has been read back.                    *)
CommitsKnownStatus ==
  \A r \in Requests : pc[r] = "commit" => Updated(r).status \in Known \cup {"unset"}

(* What is stored could be read back: a message that comes again is applied as   *)
(* it was stored, whatever it says now.                                        *)
StoredIsReadable ==
  \A i \in MessageIds : storedBy[i] # None => Readable(Feed[storedBy[i]])

IngressInv ==
  DeliveryLock /\ MessageLock /\ RequestInv /\ StoreInv /\ RawEventTellsOutcome

(* A session never holds a window no stored reply accounts for.               *)
SuppressionInv ==
  /\ SuppressionSurvives
  /\ \A r \in Requests :
       pc[r] \in {"update", "commit"} => loaded[r].humanUntil \in {0} \cup Windows
=============================================================================
