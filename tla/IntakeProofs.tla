---------------------------- MODULE IntakeProofs ----------------------------
(***************************************************************************)
(* Ingress implements Intake: concurrent requests commit what an endpoint     *)
(* that handles one event at a time could have committed.                    *)
(***************************************************************************)
EXTENDS IngressProofs

(* A commit moves the window to that of the reply it applies, or leaves it; and   *)
(* after the commit of a reply there is a window.                              *)
LEMMA CommitMovesWindow ==
  ASSUME TypeOK, SuppressionInv, NEW r \in Requests, CommitIngress(r),
         Applied(r) \in Payload
  PROVE  IF HumanPublicReply(Applied(r))
           THEN state'.humanUntil \in {state.humanUntil, Applied(r).at + Ttl} \ {0}
           ELSE state'.humanUntil = state.humanUntil
<1> DEFINE old == loaded[r].humanUntil
           new == Updated(r).humanUntil
           at == Applied(r).at + Ttl
<1>1. state'.humanUntil = IF new # old THEN new ELSE state.humanUntil
  BY DEF CommitIngress, Merged
<1>2. new = IF HumanPublicReply(Applied(r)) THEN at ELSE old
  BY UpdatedWindow DEF TypeOK
<1>3. CASE ~HumanPublicReply(Applied(r))
  BY <1>1, <1>2, <1>3
<1>4. CASE HumanPublicReply(Applied(r))
  <2>1. at \in Nat \ {0}
    BY IngressAssumption DEF Payload
  <2>2. CASE new # old
    BY <1>1, <1>2, <1>4, <2>1, <2>2
  <2>3. CASE new = old
    <3>1. old # 0 /\ state'.humanUntil = state.humanUntil
      BY <1>1, <1>2, <1>4, <2>1, <2>3
    <3>2. Windows # {}
      BY <3>1 DEF SuppressionInv, CommitIngress
    <3>3. \A u \in Windows : u # 0
      <4>1. \A i \in Replies : Feed[storedBy[i]].at \in Nat
        BY IngressAssumption DEF Replies, TypeOK, Payload
      <4> QED
        BY <4>1, IngressAssumption DEF Windows
    <3> QED
      BY <1>4, <3>1, <3>2, <3>3 DEF SuppressionInv, SuppressionSurvives
  <2> QED
    BY <2>2, <2>3
<1> QED
  BY <1>3, <1>4

(* The commit of an ingress transaction stores a message, repeats one, or notes   *)
(* an event that carries none.                                                *)
LEMMA CommitHandles ==
  ASSUME Inductive, SuppressionInv, NEW r \in Requests, CommitIngress(r)
  PROVE  Inbox!Next
<1> DEFINE d == delivery[r]
           p == Feed[d]
<1>1. TypeOK /\ IngressInv
  BY DEF Inductive
<1>2. /\ d \in Deliveries /\ rawEvents[d] = None /\ runs' = runs
      /\ rawEvents' = [rawEvents EXCEPT ![d] = IngressStatus(r)]
  BY <1>1, CommitEffect DEF IngressInv
<1>3. p \in Payload /\ p.id \in MessageIds /\ MessageOf[d] = p.id
  BY <1>2, IngressAssumption DEF Payload, MessageOf
<1>4. CASE /\ storing[r] /\ p.kind = "message" /\ storedBy[p.id] = None
           /\ storedBy' = [storedBy EXCEPT ![p.id] = d]
  <2>1. Applied(r) = p
    BY <1>4 DEF Applied
  <2>2. IngressStatus(r) = IF d \in OfTurns THEN "received" ELSE "ignored"
    BY <1>2, <1>4 DEF IngressStatus, OfTurns
  <2>3. Inbox!Suppress(d)
    BY <1>1, <1>2, <1>3, <2>1, CommitMovesWindow
       DEF Inbox!Suppress, OfReplies, WindowEndOf
  <2>4. Inbox!Store(d)
    BY <1>2, <1>3, <1>4, <2>2, <2>3 DEF Inbox!Store, Inbox!Handle, OfMessages
  <2> QED
    BY <1>2, <2>4 DEF Inbox!Next
<1>5. CASE /\ ~storing[r] /\ p.kind = "message" /\ storedBy[p.id] # None
           /\ storedBy' = storedBy
  <2> DEFINE s == storedBy[p.id]
  <2>1. s \in Deliveries /\ Feed[s] \in Payload /\ Applied(r) = Feed[s]
    BY <1>1, <1>3, <1>5, IngressAssumption DEF Applied, TypeOK
  <2>2. IngressStatus(r) = "duplicate"
    BY <1>5 DEF IngressStatus
  <2>3. Inbox!Suppress(s)
    BY <1>1, <2>1, CommitMovesWindow DEF Inbox!Suppress, OfReplies, WindowEndOf
  <2>4. Inbox!Repeat(d)
    BY <1>2, <1>3, <1>5, <2>2, <2>3 DEF Inbox!Repeat, Inbox!Handle, OfMessages
  <2> QED
    BY <1>2, <2>4 DEF Inbox!Next
<1>6. CASE ~storing[r] /\ p.kind = "conversation" /\ storedBy' = storedBy
  <2>1. /\ IngressStatus(r) = "processed" /\ d \in OfState /\ d \notin OfMessages
        /\ Applied(r) = p
    BY <1>2, <1>6 DEF IngressStatus, OfState, OfMessages, Applied
  <2>2. state'.humanUntil = state.humanUntil
    BY <1>1, <1>3, <1>6, <2>1, CommitMovesWindow DEF HumanPublicReply
  <2>3. Inbox!Note(d)
    BY <1>2, <1>6, <2>1, <2>2 DEF Inbox!Note, Inbox!Handle
  <2> QED
    BY <1>2, <2>3 DEF Inbox!Next
<1> QED
  BY <1>1, <1>4, <1>5, <1>6, CommitEffect DEF IngressInv

(* Every step of a request is a step of Intake or a stutter.                   *)
LEMMA StepHandles ==
  ASSUME Inductive, SuppressionInv, [Next]_vars
  PROVE  Inbox!Next \/ UNCHANGED Inbox!vars
<1>0. TypeOK /\ IngressInv
  BY DEF Inductive
<1>1. CASE UNCHANGED tables
  BY <1>1 DEF tables, Inbox!vars
<1>2. ASSUME NEW r \in Requests, IgnoreRawEvent(r) PROVE Inbox!Next
  <2> DEFINE d == delivery[r]
  <2>1. d \in Deliveries /\ Feed[d].kind = "other" /\ rawEvents[d] = None
    BY <1>0, <1>2 DEF IgnoreRawEvent, TypeOK, IngressInv, RequestInv, DeliveryLock,
                      InTransaction
  <2>2. Inbox!Note(d)
    BY <1>2, <2>1 DEF IgnoreRawEvent, Inbox!Note, Inbox!Handle, OfState, OfMessages
  <2> QED
    BY <2>1, <2>2 DEF Inbox!Next
<1>3. ASSUME NEW r \in Requests, RecordResult(r) PROVE Inbox!Next
  <2> DEFINE d == delivery[r]
             i == Feed[d].id
  <2>1. /\ d \in Deliveries /\ Agentable(Feed[d]) /\ storedBy[i] = d /\ runs[i] = 0
        /\ runs' = [runs EXCEPT ![i] = runs[i] + 1]
        /\ rawEvents' = [rawEvents EXCEPT ![d] = "processed"]
        /\ UNCHANGED <<storedBy, state>>
    BY <1>0, <1>3 DEF RecordResult, TypeOK, IngressInv, RequestInv
  <2>2. i \in MessageIds
    BY <2>1, IngressAssumption DEF Payload
  <2>3. storedBy[i] # None /\ rawEvents[storedBy[i]] = "received"
    BY <1>0, <2>1, <2>2, IngressAssumption DEF IngressInv, RawEventTellsOutcome
  <2>4. Inbox!Answer(i)
    BY <2>1, <2>3 DEF Inbox!Answer
  <2> QED
    BY <2>2, <2>4 DEF Inbox!Next
<1> QED
  BY <1>1, <1>2, <1>3, CommitHandles, StepKinds, QuietKeepsTables DEF vars

(* The webhook endpoint implements Intake, for any feed, any number of requests    *)
(* at the same time, and any deaths: events are as good as handled one by one.    *)
THEOREM IngressImplementsIntake == Spec => ImplementsIntake
<1>1. Init => Inbox!Init
  BY DEF Init, Inbox!Init, NewRow
<1>2. Inductive /\ SuppressionInv /\ [Next]_vars => [Inbox!Next]_(Inbox!vars)
  BY StepHandles
<1> QED
  BY <1>1, <1>2, Induction, SuppressionHolds, PTL DEF Spec, ImplementsIntake, Inbox!Spec
=============================================================================
