--------------------------- MODULE IngressProofs ---------------------------
(***************************************************************************)
(* Proofs about Ingress, for any feed, requests and failures.               *)
(***************************************************************************)
EXTENDS Ingress, FiniteSetTheorems, TLAPS

-----------------------------------------------------------------------------
(***************************************************************************)
(* Types.                                                                   *)
(***************************************************************************)
(* A payload applied to a row gives a row, but for an unknown status.          *)
LEMMA AppliedPayload ==
  ASSUME TypeOK, NEW r \in Requests, delivery[r] \in Deliveries,
         storing[r] \/ Feed[delivery[r]].kind # "message"
           \/ storedBy[Feed[delivery[r]].id] # None
  PROVE  Applied(r) \in Payload
BY IngressAssumption DEF Applied, TypeOK, Payload

LEMMA UpdatedType ==
  ASSUME NEW r \in Requests, loaded[r] \in StateRow, Applied(r) \in Payload
  PROVE  Updated(r) \in [status : RawStatus, replyable : BOOLEAN,
                         flags : SUBSET Flags, humanUntil : Nat]
<1> DEFINE p == Applied(r)
           row == loaded[r]
<1> HIDE DEF p, row
<1>0. row \in StateRow /\ p \in Payload
  BY DEF row, p
<1> DEFINE Wide == [status : RawStatus, replyable : BOOLEAN,
                    flags : SUBSET Flags, humanUntil : Nat]
<1>1. ASSUME NEW s \in RawStatus PROVE ApplyChannelMetadata(row, p, s) \in Wide
  BY <1>0, <1>1 DEF ApplyChannelMetadata, StateRow, Payload, RawStatus
<1>2. \A b \in BOOLEAN : Replyable(p, b) \in BOOLEAN
  BY <1>0 DEF Replyable
<1>3. AfterMessage(row, p) \in Wide
  <2> DEFINE applied == ApplyChannelMetadata(row, p, p.status)
             until == IF HumanPublicReply(p) THEN p.at + Ttl ELSE applied.humanUntil
  <2>1. applied \in Wide
    BY <1>0, <1>1 DEF Payload
  <2>2. until \in Nat /\ Replyable(p, applied.replyable) \in BOOLEAN
    BY <1>0, <1>2, <2>1, IngressAssumption DEF Payload
  <2>3. AfterMessage(row, p) = [applied EXCEPT !.replyable = Replyable(p, applied.replyable),
                                               !.humanUntil = until]
    BY DEF AfterMessage
  <2> HIDE DEF applied, until
  <2> QED
    BY <2>1, <2>2, <2>3
<1>4. AfterConversationEvent(row, p) \in Wide
  <2> DEFINE status == IF p.status \in Known THEN p.status ELSE "unset"
             applied == ApplyChannelMetadata(row, p, status)
             can == IF applied.status = "resolved" THEN applied.replyable
                    ELSE Replyable(p, applied.replyable)
  <2>1. applied \in Wide
    BY <1>0, <1>1 DEF Payload, RawStatus
  <2>2. can \in BOOLEAN
    BY <1>2, <2>1
  <2>3. AfterConversationEvent(row, p) = [applied EXCEPT !.replyable = can]
    BY DEF AfterConversationEvent
  <2> HIDE DEF applied, can
  <2> QED
    BY <2>1, <2>2, <2>3
<1> QED
  BY <1>3, <1>4 DEF Updated, p, row

(* Merging rows gives a row.                                                  *)
LEMMA MergedType ==
  ASSUME NEW old \in StateRow, NEW new \in StateRow, NEW current \in StateRow
  PROVE  Merged(old, new, current) \in StateRow
BY DEF Merged, StateRow

(* The end of a request keeps the types of the requests.                      *)
LEMMA FinishType ==
  ASSUME TypeOK, NEW r \in Requests, Finish(r)
  PROVE  /\ pc' \in [Requests -> Locations]
         /\ delivery' \in [Requests -> Deliveries \cup {None}]
         /\ \A q \in Requests : delivery'[q] = None <=> pc'[q] = "idle"
         /\ storing' \in [Requests -> BOOLEAN]
         /\ loaded' \in [Requests -> StateRow]
BY DEF TypeOK, Finish, Goto, Locations, StateRow, NewRow, Known

(* The type of the requests after one of them moved on.                       *)
LEMMA MoveType ==
  ASSUME TypeOK, NEW r \in Requests, NEW to \in Locations \ {"idle"}, pc[r] # "idle",
         Goto(r, to), UNCHANGED delivery
  PROVE  /\ pc' \in [Requests -> Locations]
         /\ delivery' \in [Requests -> Deliveries \cup {None}]
         /\ \A q \in Requests : delivery'[q] = None <=> pc'[q] = "idle"
BY DEF TypeOK, Goto

(* Types are kept, given that what a request inserts is not stored yet and that   *)
(* the row it commits has been read back: TypeOK alone is not inductive.         *)
LEMMA TypeStep ==
  ASSUME TypeOK, MessageLock, CommitsKnownStatus, [Next]_vars
  PROVE  TypeOK'
<1> USE IngressAssumption
<1>1. ASSUME NEW r \in Requests, NEW d \in Deliveries, Receive(r, d) PROVE TypeOK'
  BY <1>1 DEF TypeOK, Receive, Goto, Locations, tables
<1>2. ASSUME NEW r \in Requests, InsertRaw(r) PROVE TypeOK'
  <2>1. CASE Finish(r)
    BY <1>2, <2>1, FinishType DEF TypeOK, InsertRaw, tables
  <2>2. CASE ~Finish(r)
    <3>1. PICK to \in {"message", "load", "ignore"} : Goto(r, to)
      <4>1. Feed[delivery[r]].kind \in {"message", "conversation", "other"}
        BY <1>2 DEF InsertRaw, TypeOK, Payload
      <4> QED
        BY <1>2, <2>2, <4>1 DEF InsertRaw
    <3>2. UNCHANGED <<delivery, storing, loaded, tables, failures>>
      BY <1>2, <2>2 DEF InsertRaw
    <3>3. pc[r] # "idle" /\ to \in Locations \ {"idle"}
      BY <1>2 DEF InsertRaw, Locations
    <3> QED
      BY <3>1, <3>2, <3>3, MoveType DEF TypeOK, tables
  <2> QED
    BY <2>1, <2>2
<1>3. ASSUME NEW r \in Requests, IgnoreRawEvent(r) PROVE TypeOK'
  <2>1. rawEvents' \in [Deliveries ->
                         {None, "received", "processed", "ignored", "duplicate"}]
    BY <1>3 DEF IgnoreRawEvent, TypeOK
  <2> QED
    BY <1>3, <2>1, FinishType DEF TypeOK, IgnoreRawEvent
<1>4. ASSUME NEW r \in Requests, InsertMessage(r) PROVE TypeOK'
  <2>1. storing' \in [Requests -> BOOLEAN]
    BY <1>4 DEF InsertMessage, TypeOK
  <2>2. pc[r] # "idle" /\ Goto(r, "load") /\ UNCHANGED <<delivery, loaded, tables, failures>>
    BY <1>4 DEF InsertMessage
  <2> QED
    BY <2>1, <2>2, MoveType DEF TypeOK, tables, Locations
<1>5. ASSUME NEW r \in Requests, LoadState(r) PROVE TypeOK'
  <2>1. loaded' \in [Requests -> StateRow]
    BY <1>5 DEF LoadState, TypeOK
  <2>2. pc[r] # "idle" /\ Goto(r, "update") /\ UNCHANGED <<delivery, storing, tables, failures>>
    BY <1>5 DEF LoadState
  <2> QED
    BY <2>1, <2>2, MoveType DEF TypeOK, tables, Locations
<1>6. ASSUME NEW r \in Requests, UpdateState(r) PROVE TypeOK'
  <2>1. CASE Finish(r)
    BY <1>6, <2>1, FinishType DEF TypeOK, UpdateState, tables
  <2>2. CASE ~Finish(r)
    <3>1. /\ pc[r] # "idle" /\ Goto(r, "commit")
          /\ UNCHANGED <<delivery, storing, loaded, tables, failures>>
      BY <1>6, <2>2 DEF UpdateState
    <3> QED
      BY <3>1, MoveType DEF TypeOK, tables, Locations
  <2> QED
    BY <2>1, <2>2
<1>7. ASSUME NEW r \in Requests, CommitIngress(r) PROVE TypeOK'
  <2>1. delivery[r] \in Deliveries /\ pc[r] = "commit"
    BY <1>7 DEF CommitIngress, TypeOK
  <2>2. rawEvents' \in [Deliveries ->
                         {None, "received", "processed", "ignored", "duplicate"}]
    <3>1. IngressStatus(r) \in {"received", "processed", "ignored", "duplicate"}
      BY <2>1 DEF IngressStatus, MessageLock
    <3> QED
      BY <1>7, <2>1, <3>1 DEF CommitIngress, TypeOK
  <2>3. storedBy' \in [MessageIds -> Deliveries \cup {None}]
    BY <1>7, <2>1 DEF CommitIngress, TypeOK
  <2>4. state' \in StateRow
    <3>1. Updated(r) \in StateRow
      <4>1. Applied(r) \in Payload
        BY <2>1, AppliedPayload DEF MessageLock
      <4>2. Updated(r) \in [status : RawStatus, replyable : BOOLEAN,
                            flags : SUBSET Flags, humanUntil : Nat]
        BY <4>1, UpdatedType DEF TypeOK
      <4> QED
        BY <2>1, <4>2 DEF CommitsKnownStatus, StateRow
    <3> QED
      BY <1>7, <3>1, MergedType DEF CommitIngress, TypeOK
  <2>5. exists' \in BOOLEAN /\ UNCHANGED <<runs, failures>>
    BY <1>7 DEF CommitIngress
  <2>6. CASE StartsWorkflow(r)
    <3>1. Goto(r, "workflow") /\ UNCHANGED <<delivery, storing, loaded>>
      BY <1>7, <2>6 DEF CommitIngress
    <3> QED
      BY <2>1, <2>2, <2>3, <2>4, <2>5, <3>1, MoveType DEF TypeOK, Locations
  <2>7. CASE ~StartsWorkflow(r)
    <3>1. Finish(r)
      BY <1>7, <2>7 DEF CommitIngress
    <3> QED
      BY <2>2, <2>3, <2>4, <2>5, <3>1, FinishType DEF TypeOK
  <2> QED
    BY <2>6, <2>7
<1>8. ASSUME NEW r \in Requests, RecordResult(r) PROVE TypeOK'
  <2>1. rawEvents' \in [Deliveries ->
                         {None, "received", "processed", "ignored", "duplicate"}]
    BY <1>8 DEF RecordResult, TypeOK
  <2>2. runs' \in [MessageIds -> Nat]
    <3>1. PICK i : runs' = [runs EXCEPT ![i] = runs[i] + 1]
      BY <1>8 DEF RecordResult
    <3>2. runs \in [MessageIds -> Nat]
      BY DEF TypeOK
    <3>3. i \in MessageIds => runs[i] + 1 \in Nat
      BY <3>2
    <3> QED
      BY <3>1, <3>2, <3>3
  <2> QED
    BY <1>8, <2>1, <2>2, FinishType DEF TypeOK, RecordResult
<1>9. ASSUME NEW r \in Requests, Fail(r) PROVE TypeOK'
  BY <1>9, FinishType DEF TypeOK, Fail, tables
<1>10. CASE UNCHANGED vars
  BY <1>10 DEF TypeOK, vars, requests, tables
<1> QED
  BY <1>1, <1>2, <1>3, <1>4, <1>5, <1>6, <1>7, <1>8, <1>9, <1>10 DEF Next, Step

-----------------------------------------------------------------------------
(***************************************************************************)
(* Frames: what a step of one request leaves alone.                          *)
(***************************************************************************)
(* The steps of a request that write no table.                               *)
Quiet(r) ==
  \/ \E d \in Deliveries : Receive(r, d)
  \/ InsertRaw(r) \/ InsertMessage(r) \/ LoadState(r) \/ UpdateState(r) \/ Fail(r)

(* A request leaves the others where they are.                               *)
LEMMA OthersStay ==
  ASSUME TypeOK, NEW r \in Requests, NEW q \in Requests, q # r,
         Quiet(r) \/ IgnoreRawEvent(r) \/ CommitIngress(r) \/ RecordResult(r)
  PROVE  /\ pc'[q] = pc[q] /\ delivery'[q] = delivery[q]
         /\ storing'[q] = storing[q] /\ loaded'[q] = loaded[q]
<1>1. CASE Quiet(r)
  BY <1>1 DEF TypeOK, Quiet, Receive, InsertRaw, InsertMessage, LoadState, UpdateState,
              Fail, Finish, Goto
<1>2. CASE IgnoreRawEvent(r)
  BY <1>2 DEF TypeOK, IgnoreRawEvent, Finish, Goto
<1>3. CASE CommitIngress(r)
  BY <1>3 DEF TypeOK, CommitIngress, Finish, Goto
<1>4. CASE RecordResult(r)
  BY <1>4 DEF TypeOK, RecordResult, Finish, Goto
<1> QED
  BY <1>1, <1>2, <1>3, <1>4

LEMMA QuietKeepsTables ==
  ASSUME NEW r \in Requests, Quiet(r)
  PROVE  UNCHANGED tables
BY DEF Quiet, Receive, InsertRaw, InsertMessage, LoadState, UpdateState, Fail, tables

(* A request that ends is idle, without a delivery and a message to store.     *)
LEMMA FinishEffect ==
  ASSUME TypeOK, NEW r \in Requests, Finish(r)
  PROVE  pc'[r] = "idle" /\ delivery'[r] = None /\ ~storing'[r]
BY DEF TypeOK, Finish, Goto

(* What a quiet step does to the request that takes it.                        *)
LEMMA QuietEffect ==
  ASSUME TypeOK, NEW r \in Requests, Quiet(r)
  PROVE  \/ pc'[r] = "idle" /\ delivery'[r] = None /\ ~storing'[r]
         \/ /\ pc[r] = "idle" /\ pc'[r] = "raw" /\ storing'[r] = storing[r]
         \/ /\ pc[r] = "raw" /\ pc'[r] \in {"message", "load", "ignore"}
            /\ delivery'[r] = delivery[r] /\ storing'[r] = storing[r]
            /\ rawEvents[delivery[r]] = None
            /\ \A q \in Others(r) : ~HoldsDelivery(q, delivery[r])
            /\ pc'[r] = "message" => Feed[delivery[r]].kind = "message"
            /\ pc'[r] = "load" => Feed[delivery[r]].kind = "conversation"
            /\ pc'[r] = "ignore" => Feed[delivery[r]].kind = "other"
         \/ /\ pc[r] = "message" /\ pc'[r] = "load" /\ delivery'[r] = delivery[r]
            /\ storing'[r] <=> storedBy[Feed[delivery[r]].id] = None
            /\ \A q \in Others(r) : ~HoldsMessage(q, Feed[delivery[r]].id)
         \/ /\ pc[r] = "load" /\ pc'[r] = "update" /\ delivery'[r] = delivery[r]
            /\ storing'[r] = storing[r] /\ loaded'[r] = state
         \/ /\ pc[r] = "update" /\ pc'[r] = "commit" /\ delivery'[r] = delivery[r]
            /\ storing'[r] = storing[r] /\ loaded'[r] = loaded[r]
            /\ Updated(r).status \in Known \cup {"unset"}
<1>1. ASSUME NEW d \in Deliveries, Receive(r, d)
      PROVE  pc[r] = "idle" /\ pc'[r] = "raw" /\ storing'[r] = storing[r]
  BY <1>1 DEF TypeOK, Receive, Goto
<1>2. CASE InsertRaw(r)
  <2>1. CASE rawEvents[delivery[r]] # None
    BY <1>2, <2>1, FinishEffect DEF InsertRaw
  <2>2. CASE rawEvents[delivery[r]] = None
    <3>1. delivery[r] \in Deliveries
      BY <1>2 DEF InsertRaw, TypeOK
    <3>2. Feed[delivery[r]].kind \in {"message", "conversation", "other"}
      BY <3>1, IngressAssumption DEF Payload
    <3> QED
      BY <1>2, <2>2, <3>2 DEF InsertRaw, TypeOK, Goto
  <2> QED
    BY <2>1, <2>2
<1>3. CASE InsertMessage(r)
  BY <1>3 DEF TypeOK, InsertMessage, Goto
<1>4. CASE LoadState(r)
  BY <1>4 DEF TypeOK, LoadState, Goto
<1>5. CASE UpdateState(r)
  <2>1. CASE Finish(r)
    BY <2>1, FinishEffect
  <2>2. CASE ~Finish(r)
    BY <1>5, <2>2 DEF TypeOK, UpdateState, Goto
  <2> QED
    BY <2>1, <2>2
<1>6. CASE Fail(r)
  BY <1>6, FinishEffect DEF Fail
<1> QED
  BY <1>1, <1>2, <1>3, <1>4, <1>5, <1>6 DEF Quiet

(* What the commit of the ingress transaction does.                           *)
LEMMA CommitEffect ==
  ASSUME TypeOK, DeliveryLock, MessageLock, NEW r \in Requests, CommitIngress(r)
  PROVE  /\ pc[r] = "commit" /\ delivery[r] \in Deliveries
         /\ rawEvents[delivery[r]] = None
         /\ rawEvents' = [rawEvents EXCEPT ![delivery[r]] = IngressStatus(r)]
         /\ \/ storing[r] /\ Feed[delivery[r]].kind = "message"
                 /\ storedBy[Feed[delivery[r]].id] = None
                 /\ storedBy' = [storedBy EXCEPT ![Feed[delivery[r]].id] = delivery[r]]
            \/ ~storing[r] /\ Feed[delivery[r]].kind = "message"
                 /\ storedBy[Feed[delivery[r]].id] # None
                 /\ storedBy' = storedBy
            \/ ~storing[r] /\ Feed[delivery[r]].kind = "conversation"
                 /\ storedBy' = storedBy
         /\ \/ StartsWorkflow(r) /\ pc'[r] = "workflow" /\ storing'[r] = storing[r]
                 /\ delivery'[r] = delivery[r]
            \/ pc'[r] = "idle" /\ delivery'[r] = None /\ ~storing'[r]
         /\ runs' = runs /\ failures' = failures
<1>1. pc[r] = "commit" /\ delivery[r] \in Deliveries
  BY DEF CommitIngress, TypeOK
<1>2. rawEvents[delivery[r]] = None
  BY <1>1 DEF DeliveryLock, InTransaction
<1>3. /\ Feed[delivery[r]].kind \in {"message", "conversation"}
      /\ Feed[delivery[r]].kind = "message" =>
           (storing[r] <=> storedBy[Feed[delivery[r]].id] = None)
      /\ Feed[delivery[r]].kind = "conversation" => ~storing[r]
  BY <1>1 DEF MessageLock
<1>4. \/ StartsWorkflow(r) /\ pc'[r] = "workflow" /\ storing'[r] = storing[r]
           /\ delivery'[r] = delivery[r]
      \/ pc'[r] = "idle" /\ delivery'[r] = None /\ ~storing'[r]
  <2>1. CASE StartsWorkflow(r)
    BY <2>1 DEF CommitIngress, TypeOK, Goto
  <2>2. CASE ~StartsWorkflow(r)
    BY <2>2, FinishEffect DEF CommitIngress
  <2> QED
    BY <2>1, <2>2
<1> QED
  BY <1>1, <1>2, <1>3, <1>4 DEF CommitIngress

(* A stored message stays stored, by the delivery that stored it.              *)
LEMMA StoredStays ==
  ASSUME TypeOK, DeliveryLock, MessageLock, [Next]_vars,
         NEW i \in MessageIds, storedBy[i] # None
  PROVE  storedBy'[i] = storedBy[i]
<1>1. ASSUME NEW r \in Requests, CommitIngress(r) PROVE storedBy'[i] = storedBy[i]
  BY <1>1, CommitEffect DEF TypeOK
<1>2. CASE storedBy' = storedBy
  BY <1>2
<1>3. storedBy' = storedBy \/ \E r \in Requests : CommitIngress(r)
  BY DEF Next, Step, Receive, InsertRaw, IgnoreRawEvent, InsertMessage, LoadState,
         UpdateState, RecordResult, Fail, vars, tables
<1> QED
  BY <1>1, <1>2, <1>3

(* Every step is one of these.                                               *)
LEMMA StepKinds ==
  ASSUME [Next]_vars
  PROVE  \/ UNCHANGED vars
         \/ \E r \in Requests : Quiet(r)
         \/ \E r \in Requests : IgnoreRawEvent(r)
         \/ \E r \in Requests : CommitIngress(r)
         \/ \E r \in Requests : RecordResult(r)
BY DEF Next, Step, Quiet

-----------------------------------------------------------------------------
(***************************************************************************)
(* The locks.                                                                *)
(***************************************************************************)
(* Requests leave the work on their delivery and never return to it, but by    *)
(* insert_raw_event.                                                         *)
LEMMA DeliveryLockStep ==
  ASSUME TypeOK, IngressInv, [Next]_vars
  PROVE  DeliveryLock'
<1> USE DEF Busy, InTransaction
<1>1. ASSUME NEW r \in Requests, Quiet(r) PROVE DeliveryLock'
  <2>1. rawEvents' = rawEvents
    BY <1>1, QuietKeepsTables DEF tables
  <2>2. ASSUME NEW q \in Requests, q # r
        PROVE  pc'[q] = pc[q] /\ delivery'[q] = delivery[q]
    BY <1>1, <2>2, OthersStay
  <2>3. ASSUME NEW q \in Requests, q # r, Busy(q)', Busy(r)'
        PROVE  delivery'[q] # delivery'[r]
    <3>1. CASE Busy(r) /\ delivery'[r] = delivery[r]
      BY <2>2, <2>3, <3>1 DEF IngressInv, DeliveryLock
    <3>2. CASE pc[r] = "raw" /\ delivery'[r] = delivery[r]
                 /\ rawEvents[delivery[r]] = None
                 /\ \A p \in Others(r) : ~HoldsDelivery(p, delivery[r])
      <4>1. CASE pc[q] = "workflow"
        <5>1. storedBy[Feed[delivery[q]].id] = delivery[q] /\ Feed[delivery[q]].id \in MessageIds
              /\ delivery[q] \in Deliveries
          BY <4>1, IngressAssumption DEF IngressInv, RequestInv, TypeOK, Payload
        <5>2. rawEvents[delivery[q]] # None
          BY <5>1, IngressAssumption DEF IngressInv, RawEventTellsOutcome, None
        <5> QED
          BY <2>2, <2>3, <3>2, <5>2
      <4>2. CASE pc[q] # "workflow"
        BY <2>2, <2>3, <3>2, <4>2 DEF HoldsDelivery, Others
      <4> QED
        BY <4>1, <4>2
    <3> QED
      BY <1>1, <2>3, <3>1, <3>2, QuietEffect
  <2>4. InTransaction(r)' => rawEvents[delivery'[r]] = None
    BY <1>1, QuietEffect DEF IngressInv, DeliveryLock
  <2> QED
    BY <2>1, <2>2, <2>3, <2>4 DEF IngressInv, DeliveryLock
<1>2. ASSUME NEW r \in Requests,
             IgnoreRawEvent(r) \/ CommitIngress(r) \/ RecordResult(r)
      PROVE  DeliveryLock'
  <2>1. /\ Busy(r) /\ delivery[r] \in Deliveries
        /\ pc'[r] \in {"idle", "workflow"}
        /\ pc'[r] = "workflow" => delivery'[r] = delivery[r]
        /\ \A d \in Deliveries : d # delivery[r] => rawEvents'[d] = rawEvents[d]
    <3>1. CASE IgnoreRawEvent(r)
      BY <3>1, FinishEffect DEF IgnoreRawEvent, TypeOK
    <3>2. CASE CommitIngress(r)
      BY <3>2, CommitEffect DEF IngressInv, TypeOK
    <3>3. CASE RecordResult(r)
      BY <3>3, FinishEffect DEF RecordResult, TypeOK
    <3> QED
      BY <1>2, <3>1, <3>2, <3>3
  <2>2. ASSUME NEW q \in Requests, q # r
        PROVE  pc'[q] = pc[q] /\ delivery'[q] = delivery[q]
    BY <1>2, <2>2, OthersStay
  <2>3. ASSUME NEW q \in Requests, q # r, InTransaction(q)'
        PROVE  rawEvents'[delivery'[q]] = None
    <3>1. delivery[q] # delivery[r] /\ rawEvents[delivery[q]] = None
      BY <2>1, <2>2, <2>3 DEF IngressInv, DeliveryLock
    <3>2. delivery[q] \in Deliveries
      BY <2>2, <2>3 DEF TypeOK
    <3> QED
      BY <2>1, <2>2, <3>1, <3>2
  <2> QED
    BY <2>1, <2>2, <2>3 DEF IngressInv, DeliveryLock
<1>3. CASE UNCHANGED vars
  BY <1>3 DEF vars, requests, tables, IngressInv, DeliveryLock
<1> QED
  BY <1>1, <1>2, <1>3, StepKinds

(* The unique key of a message is held by one request, and whether a request   *)
(* stores its message is settled once it has that key.                        *)
LEMMA MessageLockStep ==
  ASSUME TypeOK, IngressInv, [Next]_vars
  PROVE  MessageLock'
<1> DEFINE Settled(r) ==
      pc[r] \in {"load", "update", "commit"} =>
        LET p == Feed[delivery[r]]
        IN  /\ p.kind \in {"message", "conversation"}
            /\ p.kind = "message" => (storing[r] <=> storedBy[p.id] = None)
            /\ p.kind = "conversation" => ~storing[r]
<1>1. ASSUME NEW r \in Requests, Quiet(r) PROVE MessageLock'
  <2>1. storedBy' = storedBy
    BY <1>1, QuietKeepsTables DEF tables
  <2>2. ASSUME NEW q \in Requests, q # r
        PROVE  pc'[q] = pc[q] /\ delivery'[q] = delivery[q] /\ storing'[q] = storing[q]
    BY <1>1, <2>2, OthersStay
  <2>3. ASSUME NEW q \in Requests, q # r, NEW i \in MessageIds,
               HoldsMessage(q, i)', HoldsMessage(r, i)'
        PROVE  FALSE
    <3>1. HoldsMessage(q, i)
      BY <2>2, <2>3 DEF HoldsMessage
    <3>2. CASE HoldsMessage(r, i)
      BY <2>3, <3>1, <3>2 DEF IngressInv, MessageLock
    <3>3. CASE pc[r] = "message" /\ delivery'[r] = delivery[r]
                 /\ \A p \in Others(r) : ~HoldsMessage(p, Feed[delivery[r]].id)
      BY <2>3, <3>1, <3>3 DEF HoldsMessage, Others
    <3> QED
      BY <1>1, <2>3, <3>2, <3>3, QuietEffect DEF HoldsMessage, IngressInv, RequestInv
  <2>4. Settled(r)'
    BY <1>1, <2>1, QuietEffect DEF IngressInv, MessageLock, RequestInv
  <2>5. ASSUME NEW q \in Requests, q # r PROVE Settled(q)'
    BY <2>1, <2>2, <2>5 DEF IngressInv, MessageLock
  <2> QED
    BY <2>2, <2>3, <2>4, <2>5 DEF IngressInv, MessageLock, HoldsMessage
<1>2. ASSUME NEW r \in Requests,
             IgnoreRawEvent(r) \/ CommitIngress(r) \/ RecordResult(r)
      PROVE  MessageLock'
  <2>1. pc'[r] \in {"idle", "workflow"}
    <3>1. CASE IgnoreRawEvent(r)
      BY <3>1, FinishEffect DEF IgnoreRawEvent
    <3>2. CASE CommitIngress(r)
      BY <3>2, CommitEffect DEF IngressInv
    <3>3. CASE RecordResult(r)
      BY <3>3, FinishEffect DEF RecordResult
    <3> QED
      BY <1>2, <3>1, <3>2, <3>3
  <2>2. ASSUME NEW q \in Requests, q # r
        PROVE  pc'[q] = pc[q] /\ delivery'[q] = delivery[q] /\ storing'[q] = storing[q]
    BY <1>2, <2>2, OthersStay
  <2>3. ASSUME NEW q \in Requests, q # r, pc[q] \in {"load", "update", "commit"},
               Feed[delivery[q]].kind = "message"
        PROVE  storedBy'[Feed[delivery[q]].id] = storedBy[Feed[delivery[q]].id]
    <3> DEFINE i == Feed[delivery[q]].id
    <3>1. i \in MessageIds
      BY <2>3, IngressAssumption DEF TypeOK, Payload
    <3>2. CASE storedBy[i] # None
      BY <3>1, <3>2, StoredStays DEF IngressInv
    <3>3. CASE storedBy[i] = None
      <4>1. HoldsMessage(q, i)
        BY <2>3, <3>3 DEF IngressInv, MessageLock, HoldsMessage
      <4>2. ~HoldsMessage(r, i)
        BY <2>3, <3>1, <4>1 DEF IngressInv, MessageLock
      <4>3. CASE CommitIngress(r)
        BY <3>1, <4>2, <4>3, CommitEffect DEF IngressInv, HoldsMessage, TypeOK
      <4> QED
        BY <1>2, <4>3 DEF IgnoreRawEvent, RecordResult
    <3> QED
      BY <3>2, <3>3
  <2>4. ASSUME NEW q \in Requests PROVE Settled(q)'
    BY <2>1, <2>2, <2>3 DEF IngressInv, MessageLock
  <2> QED
    BY <2>1, <2>2, <2>4 DEF IngressInv, MessageLock, HoldsMessage
<1>3. CASE UNCHANGED vars
  BY <1>3 DEF vars, requests, tables, IngressInv, MessageLock, HoldsMessage
<1> QED
  BY <1>1, <1>2, <1>3, StepKinds

-----------------------------------------------------------------------------
(***************************************************************************)
(* Requests, stored messages and their runs.                                 *)
(***************************************************************************)
(* A request that runs the workflow is the one that stored the turn, and the   *)
(* turn has no run yet.                                                      *)
LEMMA RequestInvStep ==
  ASSUME TypeOK, IngressInv, [Next]_vars
  PROVE  RequestInv'
<1> DEFINE Before(r) ==
             /\ pc[r] \in {"idle", "raw", "message"} => ~storing[r]
             /\ pc[r] = "message" => Feed[delivery[r]].kind = "message"
             /\ pc[r] = "ignore" => Feed[delivery[r]].kind = "other"
           Running(r) ==
             pc[r] = "workflow" =>
               LET p == Feed[delivery[r]]
               IN  Agentable(p) /\ storedBy[p.id] = delivery[r] /\ runs[p.id] = 0
<1>1. ASSUME NEW r \in Requests, Quiet(r) PROVE RequestInv'
  <2>1. storedBy' = storedBy /\ runs' = runs
    BY <1>1, QuietKeepsTables DEF tables
  <2>2. ASSUME NEW q \in Requests, q # r
        PROVE  pc'[q] = pc[q] /\ delivery'[q] = delivery[q] /\ storing'[q] = storing[q]
    BY <1>1, <2>2, OthersStay
  <2>3. Before(r)' /\ Running(r)'
    BY <1>1, QuietEffect DEF IngressInv, RequestInv
  <2>4. ASSUME NEW q \in Requests, q # r PROVE Before(q)' /\ Running(q)'
    BY <2>1, <2>2, <2>4 DEF IngressInv, RequestInv
  <2> QED
    BY <2>3, <2>4 DEF RequestInv
<1>2. ASSUME NEW r \in Requests,
             IgnoreRawEvent(r) \/ CommitIngress(r) \/ RecordResult(r)
      PROVE  RequestInv'
  <2>1. ASSUME NEW q \in Requests, q # r
        PROVE  pc'[q] = pc[q] /\ delivery'[q] = delivery[q] /\ storing'[q] = storing[q]
    BY <1>2, <2>1, OthersStay
  <2>2. ASSUME NEW q \in Requests, q # r, pc[q] = "workflow"
        PROVE  /\ storedBy'[Feed[delivery[q]].id] = delivery[q]
               /\ runs'[Feed[delivery[q]].id] = 0
    <3>1. /\ delivery[q] \in Deliveries /\ Feed[delivery[q]].id \in MessageIds
          /\ storedBy[Feed[delivery[q]].id] = delivery[q]
          /\ runs[Feed[delivery[q]].id] = 0
      BY <2>2, IngressAssumption DEF TypeOK, Payload, IngressInv, RequestInv
    <3>2. storedBy'[Feed[delivery[q]].id] = delivery[q]
      BY <3>1, StoredStays, IngressAssumption DEF IngressInv, None
    <3>3. CASE RecordResult(r)
      <4>1. delivery[r] # delivery[q]
        BY <2>2, <3>3 DEF RecordResult, IngressInv, DeliveryLock, Busy
      <4>2. storedBy[Feed[delivery[r]].id] = delivery[r]
        BY <3>3 DEF RecordResult, IngressInv, RequestInv
      <4> QED
        BY <3>1, <3>2, <3>3, <4>1, <4>2 DEF RecordResult, TypeOK
    <3>4. CASE IgnoreRawEvent(r) \/ CommitIngress(r)
      BY <3>1, <3>2, <3>4 DEF IgnoreRawEvent, CommitIngress
    <3> QED
      BY <1>2, <3>3, <3>4
  <2>3. Before(r)' /\ Running(r)'
    <3>1. CASE IgnoreRawEvent(r)
      BY <3>1, FinishEffect DEF IgnoreRawEvent
    <3>2. CASE RecordResult(r)
      BY <3>2, FinishEffect DEF RecordResult
    <3>3. CASE CommitIngress(r) /\ pc'[r] = "idle"
      BY <3>3, CommitEffect DEF IngressInv
    <3>4. CASE CommitIngress(r) /\ pc'[r] # "idle"
      <4>1. /\ StartsWorkflow(r) /\ pc'[r] = "workflow" /\ delivery'[r] = delivery[r]
            /\ runs' = runs /\ delivery[r] \in Deliveries
            /\ storedBy[Feed[delivery[r]].id] = None
            /\ storedBy' = [storedBy EXCEPT ![Feed[delivery[r]].id] = delivery[r]]
        BY <3>4, CommitEffect DEF IngressInv, StartsWorkflow
      <4>2. Feed[delivery[r]].id \in MessageIds
        BY <4>1, IngressAssumption DEF Payload
      <4>3. runs[Feed[delivery[r]].id] = 0
        BY <4>1, <4>2 DEF IngressInv, StoreInv
      <4> QED
        BY <4>1, <4>2, <4>3 DEF StartsWorkflow, TypeOK
    <3> QED
      BY <1>2, <3>1, <3>2, <3>3, <3>4
  <2>4. ASSUME NEW q \in Requests, q # r PROVE Before(q)' /\ Running(q)'
    BY <2>1, <2>2, <2>4 DEF IngressInv, RequestInv
  <2> QED
    BY <2>3, <2>4 DEF RequestInv
<1>3. CASE UNCHANGED vars
  BY <1>3 DEF vars, requests, tables, IngressInv, RequestInv
<1> QED
  BY <1>1, <1>2, <1>3, StepKinds

(* A message is stored by a delivery of it, and has at most one run.           *)
LEMMA StoreInvStep ==
  ASSUME TypeOK, IngressInv, [Next]_vars
  PROVE  StoreInv'
<1> SUFFICES ASSUME NEW i \in MessageIds
             PROVE  /\ storedBy'[i] # None =>
                         Feed[storedBy'[i]].kind = "message" /\ Feed[storedBy'[i]].id = i
                    /\ \/ runs'[i] = 0
                       \/ runs'[i] = 1 /\ storedBy'[i] # None /\ Agentable(Feed[storedBy'[i]])
  BY DEF StoreInv, Agentable, AuthorType
<1>1. storedBy[i] # None => storedBy'[i] = storedBy[i]
  BY StoredStays DEF IngressInv
<1>2. CASE storedBy' = storedBy /\ runs' = runs
  BY <1>2 DEF IngressInv, StoreInv
<1>3. ASSUME NEW r \in Requests, CommitIngress(r)
      PROVE  /\ storedBy'[i] # None =>
                   Feed[storedBy'[i]].kind = "message" /\ Feed[storedBy'[i]].id = i
             /\ \/ runs'[i] = 0
                \/ runs'[i] = 1 /\ storedBy'[i] # None /\ Agentable(Feed[storedBy'[i]])
  <2>1. /\ runs' = runs
        /\ \/ storedBy' = storedBy
           \/ /\ Feed[delivery[r]].kind = "message"
              /\ storedBy' = [storedBy EXCEPT ![Feed[delivery[r]].id] = delivery[r]]
    BY <1>3, CommitEffect DEF IngressInv
  <2> QED
    BY <1>1, <2>1 DEF IngressInv, StoreInv, TypeOK
<1>4. ASSUME NEW r \in Requests, RecordResult(r)
      PROVE  /\ storedBy'[i] # None =>
                   Feed[storedBy'[i]].kind = "message" /\ Feed[storedBy'[i]].id = i
             /\ \/ runs'[i] = 0
                \/ runs'[i] = 1 /\ storedBy'[i] # None /\ Agentable(Feed[storedBy'[i]])
  <2> DEFINE j == Feed[delivery[r]].id
  <2>1. /\ delivery[r] \in Deliveries /\ storedBy' = storedBy
        /\ runs' = [runs EXCEPT ![j] = runs[j] + 1]
        /\ Agentable(Feed[delivery[r]]) /\ storedBy[j] = delivery[r] /\ runs[j] = 0
    BY <1>4 DEF RecordResult, TypeOK, IngressInv, RequestInv
  <2>2. CASE i = j
    <3>1. runs'[i] = 1
      BY <2>1, <2>2 DEF TypeOK
    <3>2. storedBy'[i] = delivery[r] /\ storedBy'[i] # None
      BY <2>1, <2>2, IngressAssumption
    <3> QED
      BY <2>1, <2>2, <3>1, <3>2 DEF IngressInv, StoreInv
  <2>3. CASE i # j
    BY <2>1, <2>3 DEF IngressInv, StoreInv, TypeOK
  <2> QED
    BY <2>2, <2>3
<1>5. \/ storedBy' = storedBy /\ runs' = runs
      \/ \E r \in Requests : CommitIngress(r)
      \/ \E r \in Requests : RecordResult(r)
  BY StepKinds, QuietKeepsTables DEF tables, vars, IgnoreRawEvent
<1> QED
  BY <1>2, <1>3, <1>4, <1>5

(* A raw event written by a request that holds it tells the outcome, and what   *)
(* other requests write changes no outcome.                                    *)
LEMMA RawEventStep ==
  ASSUME TypeOK, IngressInv, [Next]_vars
  PROVE  RawEventTellsOutcome'
<1> DEFINE Told(i) ==
      storedBy[i] # None =>
        rawEvents[storedBy[i]] =
          IF ~Agentable(Feed[storedBy[i]]) THEN "ignored"
          ELSE IF runs[i] = 1 THEN "processed" ELSE "received"
<1> DEFINE Repeated(d) == rawEvents[d] = "duplicate" => storedBy[Feed[d].id] \notin {None, d}
<1>a. /\ \A i \in MessageIds : Told(i)
      /\ \A d \in Deliveries : Repeated(d)
  BY DEF IngressInv, RawEventTellsOutcome
<1>b. ASSUME NEW i \in MessageIds, storedBy[i] # None
      PROVE  storedBy[i] \in Deliveries /\ rawEvents[storedBy[i]] # None
             /\ storedBy'[i] = storedBy[i]
  BY <1>a, <1>b, StoredStays DEF IngressInv, TypeOK, None
<1>c. \A d \in Deliveries : Feed[d].id \in MessageIds
  BY IngressAssumption DEF Payload
<1>d. ASSUME NEW d \in Deliveries, rawEvents[d] = "duplicate"
      PROVE  storedBy'[Feed[d].id] \notin {None, d}
  BY <1>a, <1>b, <1>c, <1>d
<1>1. CASE UNCHANGED <<rawEvents, storedBy, runs>>
  <2>1. \A i \in MessageIds : Told(i)'
    BY <1>1, <1>a
  <2>2. \A d \in Deliveries : Repeated(d)'
    BY <1>1, <1>a
  <2> QED
    BY <2>1, <2>2 DEF RawEventTellsOutcome
<1>2. ASSUME NEW r \in Requests, IgnoreRawEvent(r) PROVE RawEventTellsOutcome'
  <2>1. /\ delivery[r] \in Deliveries /\ rawEvents[delivery[r]] = None
        /\ rawEvents' = [rawEvents EXCEPT ![delivery[r]] = "ignored"]
        /\ storedBy' = storedBy /\ runs' = runs
    BY <1>2 DEF IgnoreRawEvent, TypeOK, IngressInv, DeliveryLock, InTransaction
  <2>2. ASSUME NEW i \in MessageIds PROVE Told(i)'
    BY <1>a, <1>b, <2>1, <2>2 DEF TypeOK
  <2>3. ASSUME NEW d \in Deliveries PROVE Repeated(d)'
    BY <1>d, <2>1, <2>3 DEF TypeOK
  <2> QED
    BY <2>2, <2>3 DEF RawEventTellsOutcome
<1>3. ASSUME NEW r \in Requests, CommitIngress(r) PROVE RawEventTellsOutcome'
  <2> DEFINE d == delivery[r]
             j == Feed[d].id
  <2>1. /\ d \in Deliveries /\ rawEvents[d] = None /\ runs' = runs
        /\ rawEvents' = [rawEvents EXCEPT ![d] = IngressStatus(r)]
    BY <1>3, CommitEffect DEF IngressInv
  <2>2. ASSUME NEW i \in MessageIds, storedBy[i] # None PROVE Told(i)'
    BY <1>a, <1>b, <2>1, <2>2 DEF TypeOK
  <2>3. CASE /\ storing[r] /\ Feed[d].kind = "message" /\ storedBy[j] = None
             /\ storedBy' = [storedBy EXCEPT ![j] = d]
    <3>1. rawEvents'[d] = (IF Agentable(Feed[d]) THEN "received" ELSE "ignored")
      BY <2>1, <2>3 DEF IngressStatus, TypeOK
    <3>2. runs'[j] # 1
      BY <1>c, <2>1, <2>3 DEF IngressInv, StoreInv
    <3>3. storedBy'[j] = d
      BY <1>c, <2>1, <2>3 DEF TypeOK
    <3>4. ASSUME NEW i \in MessageIds, storedBy[i] = None PROVE Told(i)'
      <4>1. CASE i = j
        BY <3>1, <3>2, <3>3, <4>1
      <4>2. CASE i # j
        BY <2>3, <3>4, <4>2 DEF TypeOK
      <4> QED
        BY <4>1, <4>2
    <3>5. ASSUME NEW e \in Deliveries PROVE Repeated(e)'
      BY <1>d, <2>1, <3>1, <3>5 DEF TypeOK
    <3> QED
      BY <2>2, <3>4, <3>5 DEF RawEventTellsOutcome
  <2>4. CASE /\ ~storing[r] /\ Feed[d].kind = "message" /\ storedBy[j] # None
             /\ storedBy' = storedBy
    <3>1. rawEvents'[d] = "duplicate" /\ storedBy'[j] # d
      BY <1>b, <1>c, <2>1, <2>4 DEF IngressStatus, TypeOK
    <3>2. ASSUME NEW e \in Deliveries PROVE Repeated(e)'
      BY <1>d, <2>1, <2>4, <3>1, <3>2 DEF TypeOK
    <3> QED
      BY <2>2, <2>4, <3>2 DEF RawEventTellsOutcome
  <2>5. CASE ~storing[r] /\ Feed[d].kind = "conversation" /\ storedBy' = storedBy
    <3>1. rawEvents'[d] = "processed"
      BY <2>1, <2>5 DEF IngressStatus, TypeOK
    <3>2. ASSUME NEW e \in Deliveries PROVE Repeated(e)'
      BY <1>d, <2>1, <2>5, <3>1, <3>2 DEF TypeOK
    <3> QED
      BY <2>2, <2>5, <3>2 DEF RawEventTellsOutcome
  <2> QED
    BY <1>3, <2>3, <2>4, <2>5, CommitEffect DEF IngressInv
<1>4. ASSUME NEW r \in Requests, RecordResult(r) PROVE RawEventTellsOutcome'
  <2> DEFINE d == delivery[r]
             j == Feed[d].id
  <2>1. /\ d \in Deliveries /\ j \in MessageIds /\ storedBy' = storedBy
        /\ rawEvents' = [rawEvents EXCEPT ![d] = "processed"]
        /\ runs' = [runs EXCEPT ![j] = runs[j] + 1]
        /\ Agentable(Feed[d]) /\ storedBy[j] = d /\ runs[j] = 0
    BY <1>4, <1>c DEF RecordResult, TypeOK, IngressInv, RequestInv
  <2>2. ASSUME NEW i \in MessageIds, i # j PROVE Told(i)'
    <3>1. storedBy[i] # None => storedBy[i] # d
      BY <2>2 DEF IngressInv, StoreInv
    <3>2. runs'[i] = runs[i]
      BY <2>1, <2>2 DEF TypeOK
    <3> QED
      BY <1>a, <1>b, <2>1, <2>2, <3>1, <3>2 DEF TypeOK
  <2>3. ASSUME NEW i \in MessageIds, i = j PROVE Told(i)'
    <3>1. rawEvents'[d] = "processed" /\ runs'[i] = 1
      BY <2>1, <2>3 DEF TypeOK
    <3> QED
      BY <2>1, <2>3, <3>1
  <2>4. ASSUME NEW e \in Deliveries PROVE Repeated(e)'
    BY <1>d, <2>1, <2>4 DEF TypeOK
  <2> QED
    BY <2>2, <2>3, <2>4 DEF RawEventTellsOutcome
<1> QED
  BY <1>1, <1>2, <1>3, <1>4, StepKinds, QuietKeepsTables DEF vars, tables

(* The row a session is about to commit stays as it was read back: a message    *)
(* that was stored before is still stored by the same delivery.                *)
LEMMA KnownStatusStep ==
  ASSUME TypeOK, IngressInv, CommitsKnownStatus, [Next]_vars
  PROVE  CommitsKnownStatus'
<1>1. ASSUME NEW q \in Requests, pc[q] \in {"update", "commit"},
             delivery'[q] = delivery[q], storing'[q] = storing[q], loaded'[q] = loaded[q]
      PROVE  Updated(q)' = Updated(q)
  <2> DEFINE p == Feed[delivery[q]]
  <2>1. Applied(q)' = Applied(q)
    <3>1. CASE p.kind = "message" /\ ~storing[q]
      <4>1. p.id \in MessageIds /\ storedBy[p.id] # None
        BY <1>1, <3>1, IngressAssumption DEF TypeOK, Payload, IngressInv, MessageLock
      <4>2. storedBy'[p.id] = storedBy[p.id]
        BY <4>1, StoredStays DEF IngressInv
      <4> QED
        BY <1>1, <4>2 DEF Applied
    <3>2. CASE ~(p.kind = "message" /\ ~storing[q])
      BY <1>1, <3>2 DEF Applied
    <3> QED
      BY <3>1, <3>2
  <2> QED
    BY <1>1, <2>1 DEF Updated
<1>2. ASSUME NEW r \in Requests, NEW q \in Requests, q # r,
             Quiet(r) \/ IgnoreRawEvent(r) \/ CommitIngress(r) \/ RecordResult(r),
             pc'[q] = "commit"
      PROVE  Updated(q)'.status \in Known \cup {"unset"}
  BY <1>1, <1>2, OthersStay DEF CommitsKnownStatus
<1>3. ASSUME NEW r \in Requests,
             Quiet(r) \/ IgnoreRawEvent(r) \/ CommitIngress(r) \/ RecordResult(r),
             pc'[r] = "commit"
      PROVE  Updated(r)'.status \in Known \cup {"unset"}
  <2>1. CASE Quiet(r)
    <3>1. /\ pc[r] = "update" /\ delivery'[r] = delivery[r]
          /\ storing'[r] = storing[r] /\ loaded'[r] = loaded[r]
          /\ Updated(r).status \in Known \cup {"unset"}
      BY <1>3, <2>1, QuietEffect
    <3> QED
      BY <1>1, <3>1
  <2>2. CASE IgnoreRawEvent(r)
    BY <1>3, <2>2, FinishEffect DEF IgnoreRawEvent
  <2>3. CASE CommitIngress(r)
    BY <1>3, <2>3, CommitEffect DEF IngressInv
  <2>4. CASE RecordResult(r)
    BY <1>3, <2>4, FinishEffect DEF RecordResult
  <2> QED
    BY <1>3, <2>1, <2>2, <2>3, <2>4
<1>4. CASE UNCHANGED vars
  BY <1>4 DEF vars, requests, tables, CommitsKnownStatus, Updated, Applied
<1>5. ASSUME NEW r \in Requests,
             Quiet(r) \/ IgnoreRawEvent(r) \/ CommitIngress(r) \/ RecordResult(r)
      PROVE  CommitsKnownStatus'
  BY <1>2, <1>3, <1>5 DEF CommitsKnownStatus
<1> QED
  BY <1>4, <1>5, StepKinds

-----------------------------------------------------------------------------
(***************************************************************************)
(* The theorems, from one induction.                                         *)
(***************************************************************************)
Inductive == TypeOK /\ IngressInv /\ CommitsKnownStatus

LEMMA InitInductive == Init => Inductive
<1> SUFFICES ASSUME Init PROVE Inductive
  OBVIOUS
<1>0. NewRow \in StateRow
  BY DEF NewRow, StateRow
<1>1. TypeOK
  <2>1. /\ pc \in [Requests -> Locations]
        /\ delivery \in [Requests -> Deliveries \cup {None}]
        /\ \A r \in Requests : delivery[r] = None <=> pc[r] = "idle"
        /\ storing \in [Requests -> BOOLEAN]
    BY DEF Init, Locations
  <2>2. loaded \in [Requests -> StateRow] /\ state \in StateRow
    BY <1>0 DEF Init
  <2>3. /\ rawEvents \in [Deliveries ->
                           {None, "received", "processed", "ignored", "duplicate"}]
        /\ storedBy \in [MessageIds -> Deliveries \cup {None}]
        /\ exists \in BOOLEAN
    BY DEF Init
  <2>4. runs \in [MessageIds -> Nat] /\ failures \in 0..MaxFailures
    BY IngressAssumption DEF Init
  <2> QED
    BY <2>1, <2>2, <2>3, <2>4 DEF TypeOK
<1>2. IngressInv
  BY DEF Init, IngressInv, DeliveryLock, MessageLock, RequestInv, StoreInv,
         RawEventTellsOutcome, HoldsMessage, Busy, InTransaction, None
<1>3. CommitsKnownStatus
  BY DEF Init, CommitsKnownStatus
<1> QED
  BY <1>1, <1>2, <1>3 DEF Inductive

LEMMA Induction == Spec => []Inductive
<1>1. Inductive /\ [Next]_vars => Inductive'
  <2> SUFFICES ASSUME Inductive, [Next]_vars PROVE Inductive'
    OBVIOUS
  <2>1. TypeOK /\ IngressInv /\ CommitsKnownStatus
    BY DEF Inductive
  <2>2. TypeOK'
    BY <2>1, TypeStep DEF IngressInv
  <2>3. DeliveryLock' /\ MessageLock' /\ RequestInv'
    BY <2>1, DeliveryLockStep, MessageLockStep, RequestInvStep
  <2>4. StoreInv' /\ RawEventTellsOutcome' /\ CommitsKnownStatus'
    BY <2>1, StoreInvStep, RawEventStep, KnownStatusStep
  <2> QED
    BY <2>2, <2>3, <2>4 DEF Inductive, IngressInv
<1> QED
  BY InitInductive, <1>1, PTL DEF Spec

(* Tables and requests keep their types: in particular a status the program     *)
(* cannot read back is never committed to conversation_states.                 *)
THEOREM TypeCorrect == Spec => []TypeOK
BY Induction, PTL DEF Inductive

(* A customer turn gets at most one run of the workflow, whatever Chatwoot       *)
(* delivers, however often, and whatever dies: the unique keys of raw_events    *)
(* and conversation_messages serialise the requests of a turn.                 *)
THEOREM OneRunForEachTurn == Spec => []OneRunPerTurn
<1>1. Inductive => OneRunPerTurn
  <2> SUFFICES ASSUME Inductive, NEW i \in MessageIds, runs[i] > 0
               PROVE  runs[i] = 1 /\ storedBy[i] # None /\ Agentable(Feed[storedBy[i]])
    BY DEF OneRunPerTurn
  <2>1. \/ runs[i] = 0
        \/ runs[i] = 1 /\ storedBy[i] # None /\ Agentable(Feed[storedBy[i]])
    BY DEF Inductive, IngressInv, StoreInv
  <2> QED
    BY <2>1
<1> QED
  BY Induction, <1>1, PTL

(* The raw event of a stored turn tells whether the turn was answered, after     *)
(* any crash: the commits of handle and of its session dependency suffice.      *)
THEOREM RawEventsAreTruthful == Spec => []RawEventTellsOutcome
BY Induction, PTL DEF Inductive, IngressInv

-----------------------------------------------------------------------------
(***************************************************************************)
(* The suppression window.                                                   *)
(***************************************************************************)
(* Windows are only added.                                                     *)
LEMMA WindowsGrow ==
  ASSUME TypeOK, IngressInv, [Next]_vars
  PROVE  Windows \subseteq Windows'
<1>1. ASSUME NEW i \in Replies PROVE i \in Replies' /\ storedBy'[i] = storedBy[i]
  BY StoredStays DEF Replies, IngressInv, HumanPublicReply, AuthorType
<1> QED
  BY <1>1 DEF Windows

(* What an update makes of the window a session read: the window of the reply    *)
(* it applies, or the same.                                                    *)
LEMMA UpdatedWindow ==
  ASSUME NEW r \in Requests, loaded[r] \in StateRow
  PROVE  Updated(r).humanUntil =
           IF HumanPublicReply(Applied(r)) THEN Applied(r).at + Ttl ELSE loaded[r].humanUntil
<1> DEFINE p == Applied(r)
           row == loaded[r]
<1> HIDE DEF p, row
<1>0. row \in StateRow
  BY DEF row
<1>1. ASSUME NEW s
      PROVE  /\ ApplyChannelMetadata(row, p, s).humanUntil = row.humanUntil
             /\ DOMAIN ApplyChannelMetadata(row, p, s)
                  = {"status", "replyable", "flags", "humanUntil"}
  <2> DEFINE status == IF s = "unset" THEN row.status ELSE s
             replyable == row.replyable /\ s # "resolved"
  <2>1. ApplyChannelMetadata(row, p, s)
          = [row EXCEPT !.flags = p.flags, !.status = status, !.replyable = replyable]
    BY DEF ApplyChannelMetadata
  <2> HIDE DEF status, replyable
  <2> QED
    BY <1>0, <2>1 DEF StateRow
<1>2. AfterMessage(row, p).humanUntil =
        IF HumanPublicReply(p) THEN p.at + Ttl ELSE row.humanUntil
  BY <1>1 DEF AfterMessage
<1>3. AfterConversationEvent(row, p).humanUntil = row.humanUntil
  BY <1>1 DEF AfterConversationEvent
<1> QED
  BY <1>2, <1>3 DEF Updated, HumanPublicReply, p, row

(* A session that applies a human reply applies one that its commit has stored,  *)
(* or that was stored before.                                                  *)
LEMMA CommitStoresReply ==
  ASSUME TypeOK, IngressInv, NEW r \in Requests, CommitIngress(r),
         HumanPublicReply(Applied(r))
  PROVE  Applied(r).at + Ttl \in Windows'
<1> DEFINE d == delivery[r]
           i == Feed[d].id
<1>1. d \in Deliveries /\ i \in MessageIds
  BY IngressAssumption DEF CommitIngress, TypeOK, Payload
<1>2. CASE /\ storing[r] /\ storedBy' = [storedBy EXCEPT ![i] = d]
  <2>1. Applied(r) = Feed[d]
    BY <1>2 DEF Applied
  <2>2. storedBy'[i] = d /\ d # None
    BY <1>1, <1>2, IngressAssumption DEF TypeOK
  <2>3. \E j \in MessageIds : j \in Replies' /\ Applied(r).at + Ttl = Feed[storedBy'[j]].at + Ttl
    BY <1>1, <2>1, <2>2 DEF Replies
  <2> QED
    BY <2>3 DEF Windows
<1>3. CASE /\ ~storing[r] /\ Feed[d].kind = "message" /\ storedBy[i] # None
           /\ storedBy' = storedBy
  <2>1. Applied(r) = Feed[storedBy[i]]
    BY <1>3 DEF Applied
  <2>2. \E j \in MessageIds : j \in Replies' /\ Applied(r).at + Ttl = Feed[storedBy'[j]].at + Ttl
    BY <1>1, <1>3, <2>1 DEF Replies
  <2> QED
    BY <2>2 DEF Windows
<1>4. CASE Feed[d].kind = "conversation"
  BY <1>4 DEF Applied, HumanPublicReply
<1> QED
  BY <1>2, <1>3, <1>4, CommitEffect DEF IngressInv

(* Replies of the state before and of the one after a commit.                   *)
LEMMA NewWindow ==
  ASSUME TypeOK, IngressInv, NEW r \in Requests, CommitIngress(r),
         Windows = {}, Windows' # {}
  PROVE  HumanPublicReply(Applied(r)) /\ Applied(r) \in Payload
<1>1. PICK i \in MessageIds : i \in Replies' /\ i \notin Replies
  BY DEF Windows, Replies
<1>2. storedBy'[i] # storedBy[i] /\ storedBy'[i] # None
  BY <1>1 DEF Replies
<1>3. storing[r] /\ storedBy'[i] = delivery[r] /\ delivery[r] \in Deliveries
  BY <1>2, CommitEffect DEF IngressInv, TypeOK
<1>4. Applied(r) = Feed[delivery[r]]
  BY <1>3 DEF Applied
<1> QED
  BY <1>1, <1>3, <1>4, IngressAssumption DEF Replies

LEMMA CommitSuppression ==
  ASSUME TypeOK, IngressInv, CommitsKnownStatus, SuppressionInv,
         [Next]_vars, NEW r \in Requests, CommitIngress(r)
  PROVE  SuppressionSurvives'
<1> DEFINE old == loaded[r].humanUntil
           new == Updated(r).humanUntil
           at == Applied(r).at + Ttl
<1>1. state'.humanUntil = IF new # old THEN new ELSE state.humanUntil
  BY DEF CommitIngress, Merged
<1>2. new = IF HumanPublicReply(Applied(r)) THEN at ELSE old
  BY UpdatedWindow DEF TypeOK
<1>3. CASE new # old
  BY <1>1, <1>2, <1>3, CommitStoresReply DEF SuppressionSurvives
<1>4. CASE new = old
  <2>1. state'.humanUntil = state.humanUntil
    BY <1>1, <1>4
  <2>2. CASE state.humanUntil \in Windows
    BY <2>1, <2>2, WindowsGrow DEF SuppressionSurvives
  <2>3. CASE state.humanUntil = 0 /\ Windows = {}
    <3>1. CASE Windows' = {}
      BY <2>1, <2>3, <3>1 DEF SuppressionSurvives
    <3>2. CASE Windows' # {}
      <4>1. new = at /\ Applied(r).at \in Nat
        BY <1>2, <2>3, <3>2, NewWindow DEF Payload
      <4>2. old = 0
        BY <2>3 DEF SuppressionInv, CommitIngress
      <4> QED
        <5>1. Ttl \in Nat \ {0}
          BY IngressAssumption
        <5>2. Applied(r).at + Ttl = 0
          BY <1>4, <4>1, <4>2
        <5> HIDE DEF new, old
        <5> QED
          BY <4>1, <5>1, <5>2
    <3> QED
      BY <3>1, <3>2
  <2> QED
    BY <2>2, <2>3 DEF SuppressionInv, SuppressionSurvives
<1> QED
  BY <1>3, <1>4

LEMMA SuppressionStep ==
  ASSUME Inductive, SuppressionInv, [Next]_vars
  PROVE  SuppressionInv'
<1>0. TypeOK /\ IngressInv /\ CommitsKnownStatus /\ Windows \subseteq Windows'
  BY WindowsGrow DEF Inductive
<1>1. SuppressionSurvives'
  <2>1. ASSUME NEW r \in Requests, CommitIngress(r) PROVE SuppressionSurvives'
    BY <1>0, <2>1, CommitSuppression
  <2>2. CASE state' = state /\ storedBy' = storedBy
    BY <2>2 DEF SuppressionInv, SuppressionSurvives, Windows, Replies
  <2>3. (state' = state /\ storedBy' = storedBy) \/ \E r \in Requests : CommitIngress(r)
    BY StepKinds, QuietKeepsTables DEF tables, vars, IgnoreRawEvent, RecordResult
  <2> QED
    BY <2>1, <2>2, <2>3
<1>2. ASSUME NEW r \in Requests, NEW q \in Requests,
             Quiet(r) \/ IgnoreRawEvent(r) \/ CommitIngress(r) \/ RecordResult(r),
             pc'[q] \in {"update", "commit"}
      PROVE  loaded'[q].humanUntil \in {0} \cup Windows'
  <2>1. CASE q # r
    BY <1>0, <1>2, <2>1, OthersStay DEF SuppressionInv
  <2>2. CASE q = r /\ Quiet(r)
    <3>1. state.humanUntil \in {0} \cup Windows
      BY DEF SuppressionInv, SuppressionSurvives
    <3> QED
      BY <1>0, <1>2, <2>2, <3>1, QuietEffect DEF SuppressionInv
  <2>3. CASE q = r /\ ~Quiet(r)
    <3>1. CASE IgnoreRawEvent(r)
      BY <1>0, <1>2, <2>3, <3>1, FinishEffect DEF IgnoreRawEvent
    <3>2. CASE CommitIngress(r)
      BY <1>0, <1>2, <2>3, <3>2, CommitEffect DEF IngressInv
    <3>3. CASE RecordResult(r)
      BY <1>0, <1>2, <2>3, <3>3, FinishEffect DEF RecordResult
    <3> QED
      BY <1>2, <2>3, <3>1, <3>2, <3>3
  <2> QED
    BY <2>1, <2>2, <2>3
<1>3. CASE UNCHANGED vars
  BY <1>1, <1>3 DEF vars, requests, tables, SuppressionInv, Windows, Replies
<1>4. ASSUME NEW r \in Requests,
             Quiet(r) \/ IgnoreRawEvent(r) \/ CommitIngress(r) \/ RecordResult(r)
      PROVE  SuppressionInv'
  BY <1>1, <1>2, <1>4 DEF SuppressionInv
<1> QED
  BY <1>3, <1>4, StepKinds

LEMMA SuppressionHolds == Spec => []SuppressionInv
<1>1. Init => SuppressionInv
  <2> SUFFICES ASSUME Init PROVE SuppressionInv
    OBVIOUS
  <2>1. Windows = {}
    BY DEF Init, Windows, Replies
  <2> QED
    BY <2>1 DEF Init, NewRow, SuppressionInv, SuppressionSurvives
<1> QED
  BY Induction, <1>1, SuppressionStep, PTL DEF Spec

(* However requests interleave between the read of the state row and its         *)
(* update, a stored human reply keeps the conversation in some reply's window,   *)
(* and nothing but a reply opens one.                                           *)
THEOREM SuppressionIsKept == Spec => []SuppressionSurvives
BY SuppressionHolds, PTL DEF SuppressionInv

-----------------------------------------------------------------------------
(***************************************************************************)
(* Turns without a run.                                                      *)
(***************************************************************************)
AbandonedTurns == {i \in MessageIds : Abandoned(i)}

AbandonedInv == IsFiniteSet(AbandonedTurns) /\ Cardinality(AbandonedTurns) <= failures

(* A set within a bounded one is bounded, and one more element raises the bound *)
(* by one.                                                                    *)
LEMMA Bounded ==
  ASSUME NEW S, NEW n \in Nat, IsFiniteSet(S), Cardinality(S) <= n,
         NEW x, NEW T, T \subseteq S \cup {x}
  PROVE  /\ IsFiniteSet(T) /\ Cardinality(T) <= n + 1
         /\ T \subseteq S => Cardinality(T) <= n
<1>0. Cardinality(S) \in Nat
  BY FS_CardinalityType
<1>1. IsFiniteSet(S \cup {x}) /\ Cardinality(S \cup {x}) <= n + 1
  <2>1. /\ IsFiniteSet(S \cup {x})
        /\ \/ Cardinality(S \cup {x}) = Cardinality(S)
           \/ Cardinality(S \cup {x}) = Cardinality(S) + 1
    BY FS_AddElement
  <2> QED
    BY <1>0, <2>1
<1>2. IsFiniteSet(T) /\ Cardinality(T) <= Cardinality(S \cup {x})
  BY <1>1, FS_Subset
<1>3. ASSUME T \subseteq S PROVE Cardinality(T) <= n
  <2>1. Cardinality(T) <= Cardinality(S)
    BY <1>3, FS_Subset
  <2> QED
    BY <1>2, <2>1, FS_CardinalityType
<1> QED
  BY <1>1, <1>2, <1>3, FS_CardinalityType

(* A turn that is left alone by a step of r keeps the request that is on it.     *)
LEMMA StaysAbandoned ==
  ASSUME TypeOK, NEW r \in Requests,
         Quiet(r) \/ IgnoreRawEvent(r) \/ CommitIngress(r) \/ RecordResult(r),
         NEW i \in MessageIds, storedBy'[i] = storedBy[i], runs'[i] = runs[i],
         pc[r] = "workflow" => delivery[r] # storedBy[i],
         Abandoned(i)'
  PROVE  Abandoned(i)
<1>1. ASSUME NEW q \in Requests, pc[q] = "workflow" PROVE delivery[q] # storedBy[i]
  <2>1. CASE q = r
    BY <1>1, <2>1
  <2>2. CASE q # r
    <3>1. pc'[q] = pc[q] /\ delivery'[q] = delivery[q]
      BY <2>2, OthersStay
    <3> QED
      BY <1>1, <3>1 DEF Abandoned
  <2> QED
    BY <2>1, <2>2
<1> QED
  BY <1>1 DEF Abandoned

(* The steps that end no request in its workflow abandon no turn: a turn that is *)
(* stored is taken to the workflow by the commit that stores it.               *)
LEMMA StepAbandonsNone ==
  ASSUME TypeOK, IngressInv, NEW r \in Requests,
         \/ Quiet(r) /\ pc[r] # "workflow"
         \/ IgnoreRawEvent(r) \/ CommitIngress(r) \/ RecordResult(r)
  PROVE  AbandonedTurns' \subseteq AbandonedTurns
<1> DEFINE d == delivery[r]
           j == Feed[d].id
<1> SUFFICES ASSUME NEW i \in MessageIds, Abandoned(i)' PROVE Abandoned(i)
  BY DEF AbandonedTurns
<1>1. CASE Quiet(r) /\ pc[r] # "workflow"
  BY <1>1, QuietKeepsTables, StaysAbandoned DEF tables
<1>2. CASE IgnoreRawEvent(r)
  BY <1>2, StaysAbandoned DEF IgnoreRawEvent
<1>3. CASE CommitIngress(r)
  <2>1. pc[r] = "commit" /\ runs' = runs /\ d \in Deliveries
    BY <1>3, CommitEffect DEF IngressInv
  <2>2. CASE storedBy'[i] = storedBy[i]
    BY <1>3, <2>1, <2>2, StaysAbandoned
  <2>3. CASE storedBy'[i] # storedBy[i]
    <3>1. storing[r] /\ i = j /\ storedBy'[i] = d
      BY <1>3, <2>3, CommitEffect DEF IngressInv, TypeOK
    <3>2. StartsWorkflow(r)
      BY <3>1 DEF Abandoned, StartsWorkflow
    <3>3. pc'[r] = "workflow" /\ delivery'[r] = d
      BY <1>3, <3>2 DEF CommitIngress, TypeOK, Goto
    <3> QED
      BY <3>1, <3>3 DEF Abandoned
  <2> QED
    BY <2>2, <2>3
<1>4. CASE RecordResult(r)
  <2>1. /\ pc[r] = "workflow" /\ d \in Deliveries /\ storedBy' = storedBy
        /\ runs' = [runs EXCEPT ![j] = runs[j] + 1]
        /\ runs[j] = 0 /\ j \in MessageIds
    <3>1. pc[r] = "workflow" /\ storedBy' = storedBy
          /\ runs' = [runs EXCEPT ![j] = runs[j] + 1]
      BY <1>4 DEF RecordResult
    <3>2. d \in Deliveries /\ runs[j] = 0
      BY <3>1 DEF TypeOK, IngressInv, RequestInv
    <3> QED
      BY <3>1, <3>2, IngressAssumption DEF Payload
  <2>2. i # j
    BY <2>1 DEF Abandoned, TypeOK
  <2>3. d # storedBy[i]
    BY <2>1, <2>2 DEF IngressInv, StoreInv, Abandoned
  <2> QED
    BY <1>4, <2>1, <2>2, <2>3, StaysAbandoned DEF TypeOK
<1> QED
  BY <1>1, <1>2, <1>3, <1>4

(* A death abandons at most the turn its request was answering.                *)
LEMMA FailureAbandonsOne ==
  ASSUME TypeOK, IngressInv, NEW r \in Requests, Fail(r)
  PROVE  AbandonedTurns' \subseteq AbandonedTurns \cup {Feed[delivery[r]].id}
<1> SUFFICES ASSUME NEW i \in MessageIds, Abandoned(i)', i # Feed[delivery[r]].id
             PROVE  Abandoned(i)
  BY DEF AbandonedTurns
<1>1. storedBy' = storedBy /\ runs' = runs
  BY DEF Fail, tables
<1>2. storedBy[i] # delivery[r]
  BY <1>1 DEF Abandoned, IngressInv, StoreInv
<1> QED
  BY <1>1, <1>2, StaysAbandoned DEF Quiet

LEMMA AbandonedStep ==
  ASSUME Inductive, AbandonedInv, [Next]_vars
  PROVE  AbandonedInv'
<1>0. TypeOK /\ IngressInv /\ failures \in Nat
  BY IngressAssumption DEF Inductive, TypeOK
<1>1. ASSUME AbandonedTurns' \subseteq AbandonedTurns, failures' = failures
      PROVE  AbandonedInv'
  <2>1. IsFiniteSet(AbandonedTurns') /\ Cardinality(AbandonedTurns') <= failures
    BY <1>0, <1>1, Bounded DEF AbandonedInv
  <2> QED
    BY <1>1, <2>1 DEF AbandonedInv
<1>2. ASSUME NEW r \in Requests, Fail(r) PROVE AbandonedInv'
  <2>1. /\ AbandonedTurns' \subseteq AbandonedTurns \cup {Feed[delivery[r]].id}
        /\ failures' = failures + 1
    BY <1>0, <1>2, FailureAbandonsOne DEF Fail
  <2>2. IsFiniteSet(AbandonedTurns') /\ Cardinality(AbandonedTurns') <= failures + 1
    BY <1>0, <2>1, Bounded DEF AbandonedInv
  <2> QED
    BY <2>1, <2>2 DEF AbandonedInv
<1>3. ASSUME NEW r \in Requests, Quiet(r), ~Fail(r)
      PROVE  AbandonedInv'
  <2>1. pc[r] # "workflow" /\ failures' = failures
    BY <1>3 DEF Quiet, Receive, InsertRaw, InsertMessage, LoadState, UpdateState
  <2> QED
    BY <1>0, <1>1, <1>3, <2>1, StepAbandonsNone
<1>4. ASSUME NEW r \in Requests, IgnoreRawEvent(r) \/ CommitIngress(r) \/ RecordResult(r)
      PROVE  AbandonedInv'
  <2>1. failures' = failures
    BY <1>4 DEF IgnoreRawEvent, CommitIngress, RecordResult
  <2> QED
    BY <1>0, <1>1, <1>4, <2>1, StepAbandonsNone
<1>5. CASE UNCHANGED vars
  BY <1>1, <1>5 DEF vars, requests, tables, AbandonedTurns, Abandoned
<1> QED
  BY <1>2, <1>3, <1>4, <1>5, StepKinds

(* Turns that are stored, are not answered and have no request on them are never *)
(* more than the requests that died: a redelivery, a lock that was waited for, a  *)
(* row that could not be read back or an echo never leaves one behind.           *)
THEOREM OnlyFailuresAbandonTurns == Spec => []AbandonedOnlyByFailure
<1>1. Init => AbandonedInv
  <2> SUFFICES ASSUME Init PROVE AbandonedInv
    OBVIOUS
  <2>1. AbandonedTurns = {} /\ failures = 0
    BY DEF Init, AbandonedTurns, Abandoned
  <2> QED
    BY <2>1, FS_EmptySet DEF AbandonedInv
<1>2. AbandonedInv => AbandonedOnlyByFailure
  BY DEF AbandonedInv, AbandonedTurns, AbandonedOnlyByFailure
<1> QED
  BY Induction, <1>1, <1>2, AbandonedStep, PTL DEF Spec
-----------------------------------------------------------------------------
(***************************************************************************)
(* Events that are stored.                                                   *)
(***************************************************************************)
(* What an update makes of the status of a row.                               *)
LEMMA UpdatedStatus ==
  ASSUME NEW r \in Requests, loaded[r] \in StateRow
  PROVE  Updated(r).status =
           IF Applied(r).status = "unset" THEN loaded[r].status
           ELSE IF Applied(r).kind = "message" \/ Applied(r).status \in Known
           THEN Applied(r).status ELSE loaded[r].status
<1> DEFINE p == Applied(r)
           row == loaded[r]
<1> HIDE DEF p, row
<1>0. row \in StateRow
  BY DEF row
<1>1. ASSUME NEW s
      PROVE  /\ ApplyChannelMetadata(row, p, s).status = IF s = "unset" THEN row.status ELSE s
             /\ DOMAIN ApplyChannelMetadata(row, p, s)
                  = {"status", "replyable", "flags", "humanUntil"}
  <2> DEFINE status == IF s = "unset" THEN row.status ELSE s
             replyable == row.replyable /\ s # "resolved"
  <2>1. ApplyChannelMetadata(row, p, s)
          = [row EXCEPT !.flags = p.flags, !.status = status, !.replyable = replyable]
    BY DEF ApplyChannelMetadata
  <2> HIDE DEF replyable
  <2> QED
    BY <1>0, <2>1 DEF StateRow
<1>2. AfterMessage(row, p).status = IF p.status = "unset" THEN row.status ELSE p.status
  BY <1>1 DEF AfterMessage
<1>3. AfterConversationEvent(row, p).status =
        IF p.status \in Known THEN p.status ELSE row.status
  BY <1>1 DEF AfterConversationEvent, Known
<1> QED
  BY <1>2, <1>3 DEF Updated, Known, p, row

(* A message whose row was read back is one that could be.                     *)
LEMMA ReadableStep ==
  ASSUME Inductive, StoredIsReadable, [Next]_vars
  PROVE  StoredIsReadable'
<1>0. TypeOK /\ IngressInv /\ CommitsKnownStatus
  BY DEF Inductive
<1> SUFFICES ASSUME NEW i \in MessageIds, storedBy'[i] # None
             PROVE  Readable(Feed[storedBy'[i]])
  BY DEF StoredIsReadable
<1>1. CASE storedBy'[i] = storedBy[i]
  BY <1>1 DEF StoredIsReadable
<1>2. ASSUME NEW r \in Requests, CommitIngress(r), storedBy'[i] # storedBy[i]
      PROVE  Readable(Feed[storedBy'[i]])
  <2>1. /\ storing[r] /\ storedBy'[i] = delivery[r]
        /\ Feed[delivery[r]].kind = "message" /\ pc[r] = "commit"
    BY <1>0, <1>2, CommitEffect DEF IngressInv, TypeOK
  <2>2. Applied(r) = Feed[delivery[r]]
    BY <2>1 DEF Applied
  <2>3. Updated(r).status \in Known \cup {"unset"}
    BY <1>0, <2>1 DEF CommitsKnownStatus
  <2>4. Feed[delivery[r]].status = "unset" \/ Feed[delivery[r]].status = Updated(r).status
    BY <1>0, <2>1, <2>2, UpdatedStatus DEF TypeOK
  <2> QED
    BY <2>1, <2>3, <2>4 DEF Readable
<1>3. storedBy' = storedBy \/ \E r \in Requests : CommitIngress(r)
  BY StepKinds, QuietKeepsTables DEF tables, vars, IgnoreRawEvent, RecordResult
<1> QED
  BY <1>1, <1>2, <1>3

(* The row of a readable payload can be read back, also when the payload is the  *)
(* repetition of a stored one that was.                                        *)
LEMMA ReadsBack ==
  ASSUME TypeOK, IngressInv, StoredIsReadable, NEW r \in Requests, pc[r] = "update",
         Readable(Feed[delivery[r]])
  PROVE  Updated(r).status \in Known \cup {"unset"}
<1>1. delivery[r] \in Deliveries /\ loaded[r] \in StateRow
  BY DEF TypeOK
<1>2. Readable(Applied(r))
  <2> DEFINE p == Feed[delivery[r]]
  <2>1. CASE p.kind = "message" /\ ~storing[r]
    <3>1. p.id \in MessageIds /\ storedBy[p.id] # None
      BY <1>1, <2>1, IngressAssumption DEF Payload, IngressInv, MessageLock
    <3> QED
      BY <2>1, <3>1 DEF Applied, StoredIsReadable
  <2>2. CASE ~(p.kind = "message" /\ ~storing[r])
    BY <2>2 DEF Applied
  <2> QED
    BY <2>1, <2>2
<1> QED
  BY <1>1, <1>2, UpdatedStatus DEF Readable, StateRow

(* A request that ends without dying leaves its event in raw_events: a handler   *)
(* never drops an event in silence, not the one it gave up after waiting for a   *)
(* lock, nor a repetition of a message under a new delivery id.                 *)
THEOREM NoEventIsDropped == Spec => EventsAreStored
<1> DEFINE Stores(r) ==
             /\ pc[r] # "idle" /\ pc'[r] = "idle" /\ failures' = failures
             /\ Readable(Feed[delivery[r]])
             => rawEvents'[delivery[r]] # None
<1>1. Init => StoredIsReadable
  BY DEF Init, StoredIsReadable
<1>2. ASSUME Inductive, StoredIsReadable, [Next]_vars, NEW r \in Requests
      PROVE  Stores(r)
  <2> SUFFICES ASSUME pc[r] # "idle", pc'[r] = "idle", failures' = failures,
                      Readable(Feed[delivery[r]])
               PROVE  rawEvents'[delivery[r]] # None
    OBVIOUS
  <2>0. TypeOK /\ IngressInv /\ delivery[r] \in Deliveries
    BY <1>2 DEF Inductive, TypeOK
  <2>1. CASE IgnoreRawEvent(r)
    BY <2>0, <2>1, IngressAssumption DEF IgnoreRawEvent, TypeOK, None
  <2>2. CASE CommitIngress(r)
    <3>1. IngressStatus(r) # None
      BY <2>0, <2>2, CommitEffect DEF IngressStatus, IngressInv, None
    <3> QED
      BY <2>0, <2>2, <3>1 DEF CommitIngress, TypeOK
  <2>3. CASE RecordResult(r)
    BY <2>0, <2>3 DEF RecordResult, TypeOK, None
  <2>4. CASE Quiet(r)
    <3>1. ~Fail(r)
      <4>1. failures \in Nat
        BY <2>0, IngressAssumption DEF TypeOK
      <4> QED
        BY <4>1 DEF Fail
    <3>2. CASE InsertRaw(r)
      <4>1. Feed[delivery[r]].kind \in {"message", "conversation", "other"}
        BY <2>0, IngressAssumption DEF Payload
      <4>2. rawEvents[delivery[r]] # None
        BY <2>0, <3>2, <4>1 DEF InsertRaw, Goto, TypeOK
      <4> QED
        BY <3>2, <4>2 DEF InsertRaw, tables
    <3>3. ~UpdateState(r)
      <4> SUFFICES ASSUME UpdateState(r) PROVE FALSE
        OBVIOUS
      <4>1. Updated(r).status \in Known \cup {"unset"}
        BY <1>2, <2>0, ReadsBack DEF UpdateState
      <4> QED
        BY <2>0, <4>1 DEF UpdateState, Goto, TypeOK
    <3> QED
      BY <2>0, <2>4, <3>1, <3>2, <3>3 DEF Quiet, Receive, InsertMessage, LoadState, Goto, TypeOK
  <2>5. ASSUME NEW q \in Requests, q # r,
               Quiet(q) \/ IgnoreRawEvent(q) \/ CommitIngress(q) \/ RecordResult(q)
        PROVE  FALSE
    BY <2>0, <2>5, OthersStay
  <2>6. ~UNCHANGED vars
    BY DEF vars, requests
  <2> QED
    BY <1>2, <2>1, <2>2, <2>3, <2>4, <2>5, <2>6, StepKinds
<1>3. Inductive /\ StoredIsReadable /\ [Next]_vars => [\A r \in Requests : Stores(r)]_vars
  BY <1>2
<1> QED
  BY Induction, <1>1, <1>3, ReadableStep, PTL DEF Spec, EventsAreStored
=============================================================================
