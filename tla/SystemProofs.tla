---------------------------- MODULE SystemProofs ----------------------------
(***************************************************************************)
(* Proofs about System, for any number of turns, workers, actions of the     *)
(* operator, faults and restarts.                                            *)
(***************************************************************************)
EXTENDS System, FiniteSetTheorems, TLAPS

USE DEF vars, chatwoot, requests, database, workers

LEMMA EventsAreDistinct ==
  /\ \A m, n \in Turns : TurnEvent(m) # Echo(n) /\ (TurnEvent(m) = TurnEvent(n) => m = n)
  /\ \A m \in Turns, i \in 1..MaxActions : TurnEvent(m) # Action(i)
  /\ \A m \in Turns : TurnEvent(m) \in Events /\ Echo(m) \in Events
  /\ \A i \in 1..MaxActions : Action(i) \in Events
  /\ \A e \in Events : e[1] = "turn" => e[2] \in Turns /\ e = TurnEvent(e[2])
  /\ \A m \in Turns : TurnEvent(m)[1] = "turn" /\ TurnEvent(m)[2] = m
BY DEF TurnEvent, Echo, Action, Events

LEMMA ViewType ==
  ASSUME TypeOK, NEW e \in Events, NEW human \in BOOLEAN
  PROVE  View(e, human) \in StateRow /\ Merged(e, View(e, human)) \in StateRow
BY DEF TypeOK, View, Merged, StateRow, Payload

LEMMA EmitType ==
  ASSUME TypeOK, NEW e \in Events, NEW marked \in BOOLEAN, NEW human \in BOOLEAN,
         Emit(e, marked, human)
  PROVE  payload' \in [Events -> Payload] /\ request' \in [Events -> Stages]
<1>1. [label |-> marked, human |-> human] \in Payload
  BY DEF Payload
<1>2. "due" \in Stages
  BY DEF Stages
<1> QED BY <1>1, <1>2 DEF Emit, At, TypeOK

LEMMA SettleType ==
  ASSUME TypeOK, NEW w \in Workers, NEW status \in Statuses, claim[w] \in Turns,
         Settle(w, status)
  PROVE  /\ row' \in [Turns -> [kind : Kinds, status : Statuses]]
         /\ claim' \in [Workers -> Turns \cup {NoTurn}]
         /\ pc' \in [Workers -> {"down", "idle", "check", "send"}]
         /\ \A v \in Workers : pc'[v] \in {"check", "send"} <=> claim'[v] # NoTurn
<1>1. row' \in [Turns -> [kind : Kinds, status : Statuses]]
  BY DEF Settle, TypeOK
<1> QED BY <1>1, SystemAssumption DEF Settle, Goto, TypeOK

(* Every variable has its type, and workers with a row are those that execute.  *)
THEOREM TypeCorrect == Spec => []TypeOK
<1> USE SystemAssumption
<1>1. Init => TypeOK
  BY DEF Init, TypeOK, Payload, StateRow, NewRow, NoRow, Stages, Statuses, Kinds, Modes
<1>2. TypeOK /\ [Next]_vars => TypeOK'
  <2> SUFFICES ASSUME TypeOK, [Next]_vars  PROVE TypeOK'
    OBVIOUS
  <2> USE EventsAreDistinct DEF TypeOK, At, Emit, Goto
  <2>1. ASSUME NEW m \in Turns, CustomerWrites(m)  PROVE TypeOK'
    BY <2>1, EmitType DEF CustomerWrites
  <2>2. CASE OperatorActs
    <3>1. actions' \in 1..MaxActions
      BY <2>2 DEF OperatorActs
    <3>2. Action(actions') \in Events
      BY <3>1
    <3>3. payload' \in [Events -> Payload] /\ request' \in [Events -> Stages]
      BY <2>2, <3>2, EmitType DEF OperatorActs
    <3>4. label' \in BOOLEAN
      BY <2>2 DEF OperatorActs
    <3> QED BY <2>2, <3>1, <3>3, <3>4 DEF OperatorActs
  <2>3. ASSUME NEW m \in Turns, Redeliver(m)  PROVE TypeOK'
    BY <2>3 DEF Redeliver, Fault, Stages
  <2>4. CASE WindowEnds
    BY <2>4 DEF WindowEnds, StateRow
  <2>5. ASSUME NEW e \in Events, Load(e)  PROVE TypeOK'
    BY <2>5 DEF Load, Stages, StateRow
  <2>6. ASSUME NEW e \in Events, CommitIngress(e)  PROVE TypeOK'
    <3>1. PICK human \in BOOLEAN :
            /\ state' = Merged(e, View(e, human))
            /\ loaded' = [loaded EXCEPT ![e] = View(e, human)]
      <4>1. loaded[e].human \in BOOLEAN
        BY DEF StateRow
      <4>2. (IF payload[e].human THEN BOOLEAN ELSE {loaded[e].human}) \subseteq BOOLEAN
        BY <4>1
      <4> QED BY <2>6, <4>2 DEF CommitIngress
    <3>2. state' \in StateRow /\ loaded' \in [Events -> StateRow]
      BY <3>1, ViewType
    <3>3. stored' \subseteq Turns /\ request' \in [Events -> Stages]
      BY <2>6 DEF CommitIngress, Stages
    <3> QED BY <2>6, <3>2, <3>3 DEF CommitIngress
  <2>7. ASSUME NEW m \in Turns, RunWorkflow(m)  PROVE TypeOK'
    <3>1. request' \in [Events -> Stages]
      BY <2>7 DEF RunWorkflow, Stages
    <3>2. row' \in [Turns -> [kind : Kinds, status : Statuses]]
      BY <2>7 DEF RunWorkflow, Statuses
    <3> QED BY <2>7, <3>1, <3>2 DEF RunWorkflow
  <2>8. ASSUME NEW e \in Events, Fail(e)  PROVE TypeOK'
    BY <2>8 DEF Fail, Fault, Stages
  <2>9. CASE RestartApi
    BY <2>9 DEF RestartApi, Fault, Stages
  <2>10. ASSUME NEW w \in Workers, Start(w)  PROVE TypeOK'
    BY <2>10 DEF Start
  <2>11. ASSUME NEW w \in Workers, Claim(w)  PROVE TypeOK'
    BY <2>11 DEF Claim, Statuses
  <2>12. ASSUME NEW w \in Workers, Check(w)  PROVE TypeOK'
    <3>1. claim[w] \in Turns
      BY <2>12 DEF Check
    <3>2. CASE Settle(w, "superseded") \/ Settle(w, "blocked_by_policy")
      BY <2>12, <3>1, <3>2, SettleType DEF Check, Statuses
    <3>3. CASE Goto(w, "send") /\ UNCHANGED <<row, claim>>
      BY <2>12, <3>1, <3>3 DEF Check
    <3> QED BY <2>12, <3>2, <3>3 DEF Check
  <2>13. ASSUME NEW w \in Workers, Send(w)  PROVE TypeOK'
    <3>1. claim[w] \in Turns
      BY <2>13 DEF Send
    <3>2. payload' \in [Events -> Payload] /\ request' \in [Events -> Stages]
      <4>1. Emit(Echo(claim[w]), label, TRUE) \/ UNCHANGED <<payload, request>>
        BY <2>13 DEF Send
      <4>2. Echo(claim[w]) \in Events
        BY <3>1
      <4> QED BY <4>1, <4>2, EmitType
    <3>3. posted' \in [Turns -> SUBSET Kinds]
      <4>1. row[claim[w]].kind \in Kinds
        BY <3>1
      <4> QED BY <2>13, <3>1, <4>1 DEF Send
    <3> QED BY <2>13, <3>1, <3>2, <3>3, SettleType DEF Send, Statuses
  <2>14. ASSUME NEW w \in Workers, SendFails(w)  PROVE TypeOK'
    <3>1. claim[w] \in Turns
      BY <2>14 DEF SendFails
    <3> QED BY <2>14, <3>1, SettleType DEF SendFails, Fault, Statuses
  <2>15. ASSUME NEW w \in Workers, Die(w)  PROVE TypeOK'
    BY <2>15 DEF Die, Fault
  <2>16. CASE UNCHANGED vars
    BY <2>16
  <2> QED
    BY <2>1, <2>2, <2>3, <2>4, <2>5, <2>6, <2>7, <2>8, <2>9, <2>10, <2>11, <2>12, <2>13,
       <2>14, <2>15, <2>16
       DEF Next, Handle, Work
<1> QED BY <1>1, <1>2, PTL DEF Spec

(***************************************************************************)
(* Rows.  A row exists for a stored turn only and is written once; what was   *)
(* posted had a row.                                                         *)
(***************************************************************************)
HasRow(m) == row[m].status # "none"

RowInv ==
  /\ \A m \in Turns :
       /\ HasRow(m) => m \in stored
       /\ posted[m] # {} => HasRow(m)
       /\ request[TurnEvent(m)] = "absent" => m \notin stored
       /\ request[TurnEvent(m)] = "workflow" => m \in stored /\ ~HasRow(m)
  /\ \A w \in Workers : claim[w] # NoTurn => HasRow(claim[w])

(* Marking a row leaves it a row, of the same kind.                            *)
LEMMA SettleKeepsRows ==
  ASSUME TypeOK, RowInv, NEW w \in Workers, claim[w] \in Turns,
         NEW status \in Statuses \ {"none"}, Settle(w, status)
  PROVE  /\ \A m \in Turns : HasRow(m)' <=> HasRow(m)
         /\ \A m \in Turns : row'[m].kind = row[m].kind
         /\ \A v \in Workers : claim'[v] \in {claim[v], NoTurn}
BY SystemAssumption DEF TypeOK, RowInv, Settle, HasRow

(* So does whatever adds no row and no turn.                                   *)
LEMMA RowInvIsKept ==
  ASSUME TypeOK, RowInv, stored' = stored,
         \A m \in Turns : HasRow(m)' <=> HasRow(m),
         \A w \in Workers : claim'[w] \in {claim[w], NoTurn},
         \A m \in Turns : posted'[m] # {} => HasRow(m),
         \A m \in Turns : request'[TurnEvent(m)] = request[TurnEvent(m)]
  PROVE  RowInv'
<1>1. ASSUME NEW m \in Turns
      PROVE  /\ HasRow(m)' => m \in stored'
             /\ posted'[m] # {} => HasRow(m)'
             /\ request'[TurnEvent(m)] = "absent" => m \notin stored'
             /\ request'[TurnEvent(m)] = "workflow" => m \in stored' /\ ~HasRow(m)'
  BY <1>1 DEF RowInv
<1>2. ASSUME NEW w \in Workers, claim'[w] # NoTurn
      PROVE  row'[claim'[w]].status # "none"
  <2>1. claim'[w] = claim[w] /\ claim[w] \in Turns
    BY <1>2 DEF TypeOK
  <2>2. row[claim[w]].status # "none"
    BY <1>2, <2>1 DEF RowInv, HasRow
  <2>3. (row'[claim[w]].status # "none") <=> (row[claim[w]].status # "none")
    BY <2>1 DEF HasRow
  <2> QED BY <2>1, <2>2, <2>3
<1>3. ASSUME NEW m \in Turns
      PROVE  /\ row'[m].status # "none" => m \in stored'
             /\ posted'[m] # {} => row'[m].status # "none"
             /\ request'[TurnEvent(m)] = "absent" => m \notin stored'
             /\ request'[TurnEvent(m)] = "workflow" => m \in stored' /\ row'[m].status = "none"
  BY <1>1 DEF HasRow
<1> QED BY <1>2, <1>3 DEF RowInv, HasRow

LEMMA NothingAtFirst ==
  ASSUME Init
  PROVE  /\ \A m \in Turns : /\ ~HasRow(m) /\ posted[m] = {} /\ m \notin stored
                            /\ request[TurnEvent(m)] = "absent"
                            /\ ~payload[TurnEvent(m)].label
         /\ \A w \in Workers : claim[w] = NoTurn
<1>1. \A m \in Turns : TurnEvent(m) \in Events
  BY EventsAreDistinct
<1>2. /\ \A m \in Turns : posted[m] = {} /\ m \notin stored
      /\ \A w \in Workers : claim[w] = NoTurn
  BY DEF Init
<1>3. \A m \in Turns : ~HasRow(m)
  BY DEF Init, HasRow, NoRow
<1>4. \A e \in Events : request[e] = "absent" /\ ~payload[e].label
  BY DEF Init
<1> QED BY <1>1, <1>2, <1>3, <1>4

LEMMA RowsAreSound == Spec => []RowInv
<1>1. Init => RowInv
  BY NothingAtFirst DEF RowInv
<1>2. TypeOK /\ RowInv /\ [Next]_vars => RowInv'
  <2> SUFFICES ASSUME TypeOK, RowInv, [Next]_vars  PROVE RowInv'
    OBVIOUS
  <2> USE EventsAreDistinct, SystemAssumption DEF RowInv, At, Emit
  <2>1. ASSUME NEW m \in Turns, CustomerWrites(m)  PROVE RowInv'
    BY <2>1 DEF CustomerWrites, TypeOK, HasRow
  <2>2. CASE OperatorActs
    <3>1. actions' \in 1..MaxActions /\ Action(actions') \in Events
      BY <2>2 DEF OperatorActs, TypeOK
    <3>2. \A m \in Turns : request'[TurnEvent(m)] = request[TurnEvent(m)]
      BY <2>2, <3>1 DEF OperatorActs, TypeOK
    <3> QED BY <2>2, <3>2 DEF OperatorActs, HasRow
  <2>3. ASSUME NEW m \in Turns, Redeliver(m)  PROVE RowInv'
    BY <2>3 DEF Redeliver, TypeOK, HasRow
  <2>4. CASE WindowEnds
    BY <2>4 DEF WindowEnds, HasRow
  <2>5. ASSUME NEW e \in Events, Load(e)  PROVE RowInv'
    BY <2>5 DEF Load, TypeOK, HasRow
  <2>6. ASSUME NEW e \in Events, CommitIngress(e)  PROVE RowInv'
    <3>1. CASE e[1] # "turn"
      <4>1. stored' = stored /\ \A m \in Turns : request'[TurnEvent(m)] = request[TurnEvent(m)]
        <5>1. \A m \in Turns : TurnEvent(m) # e
          BY <3>1
        <5>2. stored' = stored /\ request' = [request EXCEPT ![e] = "done"]
          BY <2>6, <3>1 DEF CommitIngress
        <5> QED BY <5>1, <5>2 DEF TypeOK
      <4> QED BY <2>6, <4>1 DEF CommitIngress, HasRow
    <3>2. CASE e[1] = "turn"
      <4>1. PICK m \in Turns : e = TurnEvent(m) /\ e[2] = m
        BY <3>2
      <4>2. /\ stored' = stored \cup {m}
            /\ request' = [request EXCEPT ![TurnEvent(m)] =
                 IF m \notin stored \cup Media THEN "workflow" ELSE "done"]
        BY <2>6, <3>2, <4>1 DEF CommitIngress
      <4> QED BY <2>6, <4>2 DEF CommitIngress, TypeOK, HasRow
    <3> QED BY <3>1, <3>2
  <2>7. ASSUME NEW m \in Turns, RunWorkflow(m)  PROVE RowInv'
    <3>1. m \in stored /\ request' = [request EXCEPT ![TurnEvent(m)] = "done"]
      BY <2>7 DEF RunWorkflow
    <3>2. CASE row' = row
      BY <2>7, <3>1, <3>2 DEF RunWorkflow, TypeOK, HasRow
    <3>3. CASE \E kind \in Kinds : row' = [row EXCEPT ![m] = [kind |-> kind, status |-> "queued"]]
      <4>1. HasRow(m)' /\ \A n \in Turns \ {m} : HasRow(n)' <=> HasRow(n)
        BY <3>3 DEF TypeOK, HasRow
      <4>2. \A n \in Turns : request'[TurnEvent(n)] = IF n = m THEN "done" ELSE request[TurnEvent(n)]
        BY <3>1 DEF TypeOK
      <4>3. UNCHANGED <<stored, posted, claim>>
        BY <2>7 DEF RunWorkflow
      <4>4. \A n \in Turns : HasRow(n) => HasRow(n)'
        BY <4>1
      <4>5. ASSUME NEW w \in Workers, claim[w] # NoTurn
            PROVE  row'[claim[w]].status # "none"
        <5>1. claim[w] \in Turns /\ HasRow(claim[w])
          BY <4>5 DEF TypeOK
        <5>2. \A n \in Turns : row[n].status # "none" => row'[n].status # "none"
          BY <4>4 DEF HasRow
        <5> QED BY <5>1, <5>2 DEF HasRow
      <4>6. ASSUME NEW n \in Turns
            PROVE  /\ row'[n].status # "none" => n \in stored'
                   /\ posted'[n] # {} => row'[n].status # "none"
        <5>1. CASE n = m
          BY <3>1, <4>1, <4>3, <5>1 DEF HasRow
        <5>2. CASE n # m
          <6>1. (row'[n].status # "none") <=> (row[n].status # "none")
            BY <4>1, <5>2 DEF HasRow
          <6> QED BY <4>3, <6>1 DEF HasRow
        <5> QED BY <5>1, <5>2
      <4>7. ASSUME NEW n \in Turns
            PROVE  /\ request'[TurnEvent(n)] = "absent" => n \notin stored'
                   /\ request'[TurnEvent(n)] = "workflow"
                        => n \in stored' /\ row'[n].status = "none"
        BY <4>1, <4>2, <4>3 DEF HasRow
      <4> QED BY <4>3, <4>5, <4>6, <4>7 DEF HasRow
    <3> QED BY <2>7, <3>2, <3>3 DEF RunWorkflow
  <2>8. ASSUME NEW e \in Events, Fail(e)  PROVE RowInv'
    BY <2>8 DEF Fail, TypeOK, HasRow
  <2>9. CASE RestartApi
    BY <2>9 DEF RestartApi, HasRow
  <2>10. ASSUME NEW w \in Workers, Start(w) \/ Die(w)  PROVE RowInv'
    BY <2>10 DEF Start, Die, TypeOK, HasRow
  <2>11. ASSUME NEW w \in Workers, Claim(w)  PROVE RowInv'
    BY <2>11 DEF Claim, Claimable, TypeOK, HasRow
  <2>12. ASSUME NEW w \in Workers, Check(w)  PROVE RowInv'
    <3>1. claim[w] \in Turns
      BY <2>12 DEF Check, TypeOK
    <3>2. CASE UNCHANGED <<row, claim>>
      BY <2>12, <3>2 DEF Check, HasRow
    <3>3. CASE Settle(w, "superseded") \/ Settle(w, "blocked_by_policy")
      <4>1. /\ \A m \in Turns : HasRow(m)' <=> HasRow(m)
            /\ \A v \in Workers : claim'[v] \in {claim[v], NoTurn}
        BY <3>1, <3>3, SettleKeepsRows DEF Statuses
      <4>2. UNCHANGED <<stored, posted, request>>
        BY <2>12 DEF Check
      <4> QED BY <4>1, <4>2, RowInvIsKept
    <3> QED BY <2>12, <3>2, <3>3 DEF Check
  <2>13. ASSUME NEW w \in Workers, Send(w)  PROVE RowInv'
    <3>1. claim[w] \in Turns /\ HasRow(claim[w])
      BY <2>13 DEF Send, TypeOK
    <3>2. /\ \A m \in Turns : HasRow(m)' <=> HasRow(m)
          /\ \A v \in Workers : claim'[v] \in {claim[v], NoTurn}
      BY <2>13, <3>1, SettleKeepsRows DEF Send, Statuses
    <3>3. \A m \in Turns : request'[TurnEvent(m)] = request[TurnEvent(m)]
      <4>1. \A m \in Turns : TurnEvent(m) # Echo(claim[w])
        BY <3>1
      <4>2. CASE request' = request
        BY <4>2
      <4>3. CASE request' = [request EXCEPT ![Echo(claim[w])] = "due"]
        BY <4>1, <4>3 DEF TypeOK
      <4> QED BY <2>13, <4>2, <4>3 DEF Send
    <3>4. \A m \in Turns \ {claim[w]} : posted'[m] = posted[m]
      BY <2>13, <3>1 DEF Send, TypeOK
    <3>5. stored' = stored
      BY <2>13 DEF Send
    <3>6. \A m \in Turns : posted'[m] # {} => HasRow(m)
      BY <3>1, <3>4
    <3> QED BY <3>2, <3>3, <3>5, <3>6, RowInvIsKept
  <2>14. ASSUME NEW w \in Workers, SendFails(w)  PROVE RowInv'
    <3>1. claim[w] \in Turns
      BY <2>14 DEF SendFails, TypeOK
    <3>2. /\ \A m \in Turns : HasRow(m)' <=> HasRow(m)
          /\ \A v \in Workers : claim'[v] \in {claim[v], NoTurn}
      BY <2>14, <3>1, SettleKeepsRows DEF SendFails, Statuses
    <3>3. UNCHANGED <<stored, posted, request>>
      BY <2>14 DEF SendFails
    <3> QED BY <3>2, <3>3, RowInvIsKept
  <2>15. CASE UNCHANGED vars
    BY <2>15 DEF HasRow
  <2> QED
    BY <2>1, <2>2, <2>3, <2>4, <2>5, <2>6, <2>7, <2>8, <2>9, <2>10, <2>11, <2>12, <2>13,
       <2>14, <2>15
       DEF Next, Handle, Work
<1> QED BY <1>1, <1>2, TypeCorrect, PTL DEF Spec

(***************************************************************************)
(* Turns written while automation was paused.                                *)
(***************************************************************************)
(* The gate sees the marks of the turn's own payload.                          *)
PausedInv ==
  \A m \in Turns :
    /\ payload[TurnEvent(m)].label => ~HasRow(m)
    /\ request[TurnEvent(m)] = "workflow" =>
         loaded[TurnEvent(m)].paused = payload[TurnEvent(m)].label

LEMMA PausedInvIsKept ==
  ASSUME PausedInv,
         \A m \in Turns : payload'[TurnEvent(m)] = payload[TurnEvent(m)],
         \A m \in Turns : HasRow(m)' => HasRow(m),
         \A m \in Turns : request'[TurnEvent(m)] = "workflow" =>
           request[TurnEvent(m)] = "workflow" /\ loaded'[TurnEvent(m)] = loaded[TurnEvent(m)]
  PROVE  PausedInv'
<1>1. ASSUME NEW m \in Turns  PROVE payload'[TurnEvent(m)].label => row'[m].status = "none"
  BY DEF PausedInv, HasRow
<1> QED BY <1>1 DEF PausedInv, HasRow

(* A message written while the conversation was paused gets nothing, whatever     *)
(* the order and the delay of the webhooks around it.                         *)
THEOREM PausedTurnsGetNothing == Spec => []PausedTurnGetsNothing
<1>1. RowInv /\ PausedInv => PausedTurnGetsNothing
  BY DEF RowInv, PausedInv, PausedTurnGetsNothing
<1>2. Init => PausedInv
  BY NothingAtFirst DEF PausedInv
<1>3. TypeOK /\ RowInv /\ PausedInv /\ [Next]_vars => PausedInv'
  <2> SUFFICES ASSUME TypeOK, RowInv, PausedInv, [Next]_vars  PROVE PausedInv'
    OBVIOUS
  <2> USE EventsAreDistinct, PausedInvIsKept DEF At, Emit
  <2>1. ASSUME NEW m \in Turns, CustomerWrites(m)  PROVE PausedInv'
    <3>1. ~HasRow(m)
      BY <2>1 DEF CustomerWrites, RowInv
    <3>2. /\ \A n \in Turns \ {m} : payload'[TurnEvent(n)] = payload[TurnEvent(n)]
          /\ \A n \in Turns \ {m} : request'[TurnEvent(n)] = request[TurnEvent(n)]
          /\ request'[TurnEvent(m)] = "due"
          /\ UNCHANGED <<row, loaded>>
      BY <2>1 DEF CustomerWrites, TypeOK
    <3> QED BY <3>1, <3>2 DEF PausedInv, HasRow
  <2>2. CASE OperatorActs
    <3>1. actions' \in 1..MaxActions /\ Action(actions') \in Events
      BY <2>2, SystemAssumption DEF OperatorActs, TypeOK
    <3>2. \A m \in Turns : /\ request'[TurnEvent(m)] = request[TurnEvent(m)]
                           /\ payload'[TurnEvent(m)] = payload[TurnEvent(m)]
      BY <2>2, <3>1 DEF OperatorActs, TypeOK
    <3>3. UNCHANGED <<row, loaded>>
      BY <2>2 DEF OperatorActs
    <3> QED BY <3>2, <3>3 DEF HasRow
  <2>3. ASSUME NEW m \in Turns, Redeliver(m)  PROVE PausedInv'
    BY <2>3 DEF Redeliver, TypeOK, HasRow
  <2>4. CASE WindowEnds
    BY <2>4 DEF WindowEnds, HasRow
  <2>5. ASSUME NEW e \in Events, Load(e)  PROVE PausedInv'
    BY <2>5 DEF Load, TypeOK, HasRow
  <2>6. ASSUME NEW e \in Events, CommitIngress(e)  PROVE PausedInv'
    <3>1. UNCHANGED <<row, payload>>
      BY <2>6 DEF CommitIngress
    <3>2. loaded'[e].paused = payload[e].label
      BY <2>6 DEF CommitIngress, View, TypeOK
    <3>3. \A m \in Turns : TurnEvent(m) # e =>
            /\ request'[TurnEvent(m)] = request[TurnEvent(m)]
            /\ loaded'[TurnEvent(m)] = loaded[TurnEvent(m)]
      BY <2>6 DEF CommitIngress, TypeOK
    <3> QED BY <3>1, <3>2, <3>3 DEF PausedInv, HasRow
  <2>7. ASSUME NEW m \in Turns, RunWorkflow(m)  PROVE PausedInv'
    <3>1. /\ UNCHANGED <<payload, loaded>>
          /\ request[TurnEvent(m)] = "workflow" /\ request'[TurnEvent(m)] = "done"
          /\ \A n \in Turns \ {m} : request'[TurnEvent(n)] = request[TurnEvent(n)]
      BY <2>7 DEF RunWorkflow, TypeOK
    <3>2. CASE row' = row
      BY <3>1, <3>2 DEF HasRow
    <3>3. CASE /\ ~Held(m)
               /\ \E kind \in Kinds : row' = [row EXCEPT ![m] = [kind |-> kind, status |-> "queued"]]
      <4>1. ~payload[TurnEvent(m)].label
        BY <3>1, <3>3 DEF Held, PausedInv
      <4>2. \A n \in Turns \ {m} : row'[n] = row[n]
        BY <3>3 DEF TypeOK
      <4> QED BY <3>1, <4>1, <4>2 DEF PausedInv, HasRow
    <3> QED BY <2>7, <3>2, <3>3 DEF RunWorkflow
  <2>8. ASSUME NEW e \in Events, Fail(e)  PROVE PausedInv'
    BY <2>8 DEF Fail, TypeOK, HasRow
  <2>9. CASE RestartApi
    BY <2>9 DEF RestartApi, HasRow
  <2>10. ASSUME NEW w \in Workers, Start(w) \/ Die(w)  PROVE PausedInv'
    BY <2>10 DEF Start, Die, HasRow
  <2>11. ASSUME NEW w \in Workers, Claim(w)  PROVE PausedInv'
    BY <2>11 DEF Claim, Claimable, TypeOK, HasRow
  <2>12. ASSUME NEW w \in Workers, Check(w)  PROVE PausedInv'
    <3>1. claim[w] \in Turns /\ UNCHANGED <<payload, request, loaded>>
      BY <2>12 DEF Check, TypeOK
    <3>2. CASE row' = row
      BY <3>1, <3>2 DEF HasRow
    <3>3. CASE Settle(w, "superseded") \/ Settle(w, "blocked_by_policy")
      BY <3>1, <3>3, SettleKeepsRows DEF Statuses
    <3> QED BY <2>12, <3>2, <3>3 DEF Check
  <2>13. ASSUME NEW w \in Workers, Send(w)  PROVE PausedInv'
    <3>1. claim[w] \in Turns /\ UNCHANGED loaded
      BY <2>13 DEF Send, TypeOK
    <3>2. \A m \in Turns : HasRow(m)' <=> HasRow(m)
      BY <2>13, <3>1, SettleKeepsRows DEF Send, Statuses
    <3>3. \A m \in Turns : /\ request'[TurnEvent(m)] = request[TurnEvent(m)]
                           /\ payload'[TurnEvent(m)] = payload[TurnEvent(m)]
      <4>1. \A m \in Turns : TurnEvent(m) # Echo(claim[w])
        BY <3>1
      <4>2. CASE UNCHANGED <<payload, request>>
        BY <4>2
      <4>3. CASE Emit(Echo(claim[w]), label, TRUE)
        BY <4>1, <4>3 DEF TypeOK
      <4> QED BY <2>13, <4>2, <4>3 DEF Send
    <3> QED BY <3>1, <3>2, <3>3
  <2>14. ASSUME NEW w \in Workers, SendFails(w)  PROVE PausedInv'
    <3>1. claim[w] \in Turns /\ UNCHANGED <<payload, request, loaded>>
      BY <2>14 DEF SendFails, TypeOK
    <3> QED BY <2>14, <3>1, SettleKeepsRows DEF SendFails, Statuses
  <2>15. CASE UNCHANGED vars
    BY <2>15 DEF HasRow
  <2> QED
    BY <2>1, <2>2, <2>3, <2>4, <2>5, <2>6, <2>7, <2>8, <2>9, <2>10, <2>11, <2>12, <2>13,
       <2>14, <2>15
       DEF Next, Handle, Work
<1> QED BY <1>1, <1>2, <1>3, TypeCorrect, RowsAreSound, PTL DEF Spec

(***************************************************************************)
(* Replies.                                                                 *)
(***************************************************************************)
IsReply(m) == row[m].kind = "public_message"

(* A row keeps its kind.                                                      *)
LEMMA KindsStay ==
  ASSUME TypeOK, RowInv, [Next]_vars, NEW m \in Turns, HasRow(m)
  PROVE  IsReply(m)' <=> IsReply(m)
<1>1. CASE row' = row
  BY <1>1 DEF IsReply
<1>2. ASSUME NEW n \in Turns, RunWorkflow(n)  PROVE IsReply(m)' <=> IsReply(m)
  BY <1>2 DEF RunWorkflow, RowInv, IsReply, TypeOK
<1>3. ASSUME NEW w \in Workers, Claim(w)  PROVE IsReply(m)' <=> IsReply(m)
  BY <1>3 DEF Claim, IsReply, TypeOK
<1>4. ASSUME NEW w \in Workers, Check(w) \/ Send(w) \/ SendFails(w)
      PROVE  IsReply(m)' <=> IsReply(m)
  <2>1. claim[w] \in Turns
    BY <1>4 DEF Check, Send, SendFails, TypeOK
  <2>2. row' = row \/ \E status \in Statuses \ {"none"} : Settle(w, status)
    BY <1>4 DEF Check, Send, SendFails, Statuses
  <2> QED BY <2>1, <2>2, SettleKeepsRows DEF IsReply
<1> QED
  BY <1>1, <1>2, <1>3, <1>4, EventsAreDistinct
     DEF Next, Handle, Work, CustomerWrites, OperatorActs, Redeliver, WindowEnds, Load,
         CommitIngress, Fail, RestartApi, Start, Die

(* The kind of a row is one that some mode since its turn was written allows; the  *)
(* mode the API runs in is one of them.                                        *)
ModeInv ==
  \A m \in Turns :
    /\ IF request[TurnEvent(m)] = "absent" THEN modes[m] = {} ELSE apiMode \in modes[m]
    /\ HasRow(m) => row[m].kind \in EffectsSince(m)
    /\ posted[m] \subseteq EffectsSince(m)

(* No step takes a mode from the history of a turn.                            *)
LEMMA ModesGrow ==
  ASSUME TypeOK, ModeInv, [Next]_vars, NEW m \in Turns
  PROVE  /\ modes[m] \subseteq modes'[m]
         /\ IF request'[TurnEvent(m)] = "absent" THEN modes'[m] = {} ELSE apiMode' \in modes'[m]
<1> USE EventsAreDistinct DEF At, Emit, TypeOK
<1>0. IF request[TurnEvent(m)] = "absent" THEN modes[m] = {} ELSE apiMode \in modes[m]
  BY DEF ModeInv
<1> DEFINE Goal == /\ modes[m] \subseteq modes'[m]
                   /\ IF request'[TurnEvent(m)] = "absent" THEN modes'[m] = {}
                        ELSE apiMode' \in modes'[m]
<1>1. ASSUME NEW n \in Turns, CustomerWrites(n) PROVE Goal
  <2>1. CASE n = m
    BY <1>0, <1>1, <2>1 DEF CustomerWrites
  <2>2. CASE n # m
    BY <1>0, <1>1, <2>2 DEF CustomerWrites
  <2> QED BY <2>1, <2>2
<1>2. CASE RestartApi
  <2>1. (request'[TurnEvent(m)] = "absent") <=> (request[TurnEvent(m)] = "absent")
    BY <1>2 DEF RestartApi
  <2>2. modes'[m] = IF modes[m] = {} THEN {} ELSE modes[m] \cup {apiMode'}
    BY <1>2 DEF RestartApi
  <2> QED BY <1>0, <2>1, <2>2
<1>3. CASE /\ UNCHANGED <<modes, apiMode>>
           /\ (request'[TurnEvent(m)] = "absent") <=> (request[TurnEvent(m)] = "absent")
  BY <1>0, <1>3
<1>4. CASE OperatorActs
  <2>1. PICK human \in BOOLEAN : Emit(Action(actions'), label', human)
    BY <1>4 DEF OperatorActs
  <2>2. actions' \in 1..MaxActions
    BY <1>4, SystemAssumption DEF OperatorActs
  <2> QED BY <1>3, <1>4, <2>1, <2>2 DEF OperatorActs
<1>5. ASSUME NEW w \in Workers, Send(w) PROVE Goal
  <2>1. claim[w] \in Turns
    BY <1>5 DEF Send
  <2> QED BY <1>3, <1>5, <2>1 DEF Send
<1>6. ASSUME NEW e \in Events, Handle(e) \/ Fail(e) PROVE Goal
  BY <1>3, <1>6 DEF Handle, Load, CommitIngress, RunWorkflow, Fail
<1>7. ASSUME NEW n \in Turns, Redeliver(n) PROVE Goal
  BY <1>3, <1>7 DEF Redeliver
<1>8. ASSUME NEW w \in Workers, Start(w) \/ Claim(w) \/ Check(w) \/ SendFails(w) \/ Die(w)
      PROVE  Goal
  BY <1>3, <1>8 DEF Start, Claim, Check, SendFails, Die
<1>9. CASE WindowEnds \/ UNCHANGED vars
  BY <1>3, <1>9 DEF WindowEnds
<1> QED
  BY <1>1, <1>2, <1>4, <1>5, <1>6, <1>7, <1>8, <1>9 DEF Next, Work

(* Whatever restarts the API in another mode, a message gets only what a mode       *)
(* since it was written allows, whatever mode the workers were started in and     *)
(* whenever they send.                                                        *)
THEOREM ModeIsRespected == Spec => []ModeBoundsEffects
<1>1. ModeInv => ModeBoundsEffects
  BY DEF ModeInv, ModeBoundsEffects
<1>2. Init => ModeInv
  BY NothingAtFirst, EventsAreDistinct DEF ModeInv, Init
<1>3. TypeOK /\ TypeOK' /\ RowInv /\ ModeInv /\ [Next]_vars => ModeInv'
  <2> SUFFICES ASSUME TypeOK, TypeOK', RowInv, ModeInv, [Next]_vars, NEW m \in Turns
               PROVE  /\ HasRow(m)' => row'[m].kind \in EffectsSince(m)'
                      /\ posted'[m] \subseteq EffectsSince(m)'
    BY ModesGrow DEF ModeInv
  <2>1. EffectsSince(m) \subseteq EffectsSince(m)'
    BY ModesGrow DEF EffectsSince
  <2>3. ASSUME HasRow(m)'  PROVE row'[m].kind \in EffectsSince(m)'
    <3>1. CASE HasRow(m)
      <4>1. (row'[m].kind = "public_message") <=> (row[m].kind = "public_message")
        BY <3>1, KindsStay DEF IsReply
      <4>2. row'[m].kind \in Kinds /\ row[m].kind \in Kinds
        BY DEF TypeOK
      <4>3. row'[m].kind = row[m].kind
        BY <4>1, <4>2 DEF Kinds
      <4> QED BY <2>1, <3>1, <4>3 DEF ModeInv
    <3>2. CASE ~HasRow(m)
      <4>1. PICK n \in Turns : RunWorkflow(n)
        <5>1. CASE row' = row
          BY <2>3, <3>2, <5>1 DEF HasRow
        <5>2. ASSUME NEW w \in Workers, Claim(w)  PROVE FALSE
          BY <2>3, <3>2, <5>2 DEF Claim, Claimable, HasRow, TypeOK
        <5>3. ASSUME NEW w \in Workers, Check(w) \/ Send(w) \/ SendFails(w)  PROVE row' = row
          <6>1. claim[w] \in Turns
            BY <5>3 DEF Check, Send, SendFails, TypeOK
          <6>2. row' = row \/ \E status \in Statuses \ {"none"} : Settle(w, status)
            BY <5>3 DEF Check, Send, SendFails, Statuses
          <6> QED BY <2>3, <3>2, <6>1, <6>2, SettleKeepsRows
        <5> QED
          BY <5>1, <5>2, <5>3, EventsAreDistinct
             DEF Next, Handle, Work, CustomerWrites, OperatorActs, Redeliver, WindowEnds,
                 Load, CommitIngress, Fail, RestartApi, Start, Die
      <4>2. PICK kind \in Kinds :
              /\ apiMode = "public_reply" \/ (apiMode = "assist" /\ kind = "private_note")
              /\ row' = [row EXCEPT ![n] = [kind |-> kind, status |-> "queued"]]
        BY <2>3, <3>2, <4>1 DEF RunWorkflow, HasRow
      <4>3. n = m
        BY <2>3, <3>2, <4>2 DEF HasRow, TypeOK
      <4>4. row'[m].kind = kind /\ kind \in EffectsOf(apiMode)
        BY <4>2, <4>3 DEF EffectsOf, TypeOK
      <4>5. apiMode \in modes[m]
        BY <4>1, <4>3 DEF RunWorkflow, ModeInv
      <4> QED BY <2>1, <4>4, <4>5 DEF EffectsSince
    <3> QED BY <3>1, <3>2
  <2>4. posted'[m] \subseteq EffectsSince(m)'
    <3>1. CASE posted' = posted
      BY <2>1, <3>1 DEF ModeInv
    <3>2. ASSUME NEW w \in Workers, Send(w)  PROVE posted'[m] \subseteq EffectsSince(m)'
      <4>1. claim[w] \in Turns /\ HasRow(claim[w])
        BY <3>2, SystemAssumption DEF Send, TypeOK, RowInv
      <4>2. posted' = [posted EXCEPT ![claim[w]] = @ \cup {row[claim[w]].kind}]
        BY <3>2 DEF Send
      <4>3. row[claim[w]].kind \in EffectsSince(claim[w])
        BY <2>1, <4>1 DEF ModeInv
      <4> QED BY <2>1, <4>1, <4>2, <4>3 DEF ModeInv, TypeOK
    <3> QED
      BY <3>1, <3>2
         DEF Next, Handle, Work, CustomerWrites, OperatorActs, Redeliver, WindowEnds, Load,
             CommitIngress, RunWorkflow, Fail, RestartApi, Start, Claim, Check, SendFails, Die
  <2> QED BY <2>3, <2>4
<1> QED BY <1>1, <1>2, <1>3, TypeCorrect, RowsAreSound, PTL DEF Spec

(* How a worker comes to send a row.                                          *)
LEMMA SendersChecked ==
  ASSUME TypeOK, [Next]_vars, NEW w \in Workers, pc'[w] = "send"
  PROVE  /\ claim'[w] = claim[w] /\ claim[w] \in Turns
         /\ \/ pc[w] = "send"
            \/ Check(w) /\ row' = row /\ pc[w] = "check"
                 /\ (IsReply(claim[w]) => ~Overtaken(claim[w]) /\ ~Blocked(w))
<1> USE DEF Goto
<1>1. CASE UNCHANGED <<pc, claim>>
  BY <1>1 DEF TypeOK
<1>2. ASSUME NEW v \in Workers, Start(v) \/ Die(v) \/ Claim(v) \/ Send(v) \/ SendFails(v)
      PROVE  pc[w] = "send" /\ claim'[w] = claim[w] /\ claim[w] \in Turns
  BY <1>2 DEF Start, Die, Claim, Send, SendFails, Settle, TypeOK
<1>3. ASSUME NEW v \in Workers, v # w, Check(v)
      PROVE  pc[w] = "send" /\ claim'[w] = claim[w] /\ claim[w] \in Turns
  BY <1>3 DEF Check, Settle, TypeOK
<1>4. CASE Check(w)
  BY <1>4 DEF Check, Settle, TypeOK, IsReply
<1> QED
  BY <1>1, <1>2, <1>3, <1>4
     DEF Next, Handle, Work, CustomerWrites, OperatorActs, Redeliver, WindowEnds, Load,
         CommitIngress, RunWorkflow, Fail, RestartApi

(* The history of the label is kept of every worker with a row; a worker that     *)
(* may send a reply has seen Chatwoot without the label.                       *)
LabelInv ==
  \A w \in Workers :
    /\ pc[w] \in {"check", "send"} /\ ~label => lifted[w]
    /\ pc[w] = "send" /\ IsReply(claim[w]) => lifted[w]

(* Nothing but the claim of its own worker forgets that the label was off.      *)
LEMMA LiftedStays ==
  ASSUME TypeOK, [Next]_vars, NEW w \in Workers
  PROVE  /\ ~Claim(w) => (lifted[w] => lifted'[w]) /\ (~label' => label' = label \/ lifted'[w])
         /\ Claim(w) => lifted'[w] = ~label /\ label' = label /\ pc'[w] = "check"
<1>1. CASE UNCHANGED <<label, lifted>> /\ ~Claim(w)
  BY <1>1
<1>2. CASE OperatorActs
  <2>1. ~Claim(w)
    BY <1>2 DEF OperatorActs, Claim, Goto, TypeOK
  <2>2. lifted'[w] = (lifted[w] \/ ~label')
    BY <1>2 DEF OperatorActs
  <2> QED BY <2>1, <2>2
<1>3. ASSUME NEW v \in Workers, Claim(v)
      PROVE  /\ label' = label
             /\ v = w => lifted'[w] = ~label /\ pc'[w] = "check"
             /\ v # w => lifted'[w] = lifted[w]
  BY <1>3 DEF Claim, Goto, TypeOK
<1>4. ASSUME NEW v \in Workers, Claim(v), Claim(w)  PROVE v = w
  <2>1. pc[w] = "idle" /\ pc'[w] = "check" /\ (v # w => pc'[w] = pc[w])
    BY <1>4 DEF Claim, Goto, TypeOK
  <2> QED BY <2>1
<1> QED
  BY <1>1, <1>2, <1>3, <1>4
     DEF Next, Handle, Work, CustomerWrites, Redeliver, WindowEnds, Load, CommitIngress,
         RunWorkflow, Fail, RestartApi, Start, Check, Send, SendFails, Die

LEMMA LabelIsRemembered == Spec => []LabelInv
<1>1. Init => LabelInv
  BY DEF Init, LabelInv
<1>2. TypeOK /\ TypeOK' /\ RowInv /\ LabelInv /\ [Next]_vars => LabelInv'
  <2> SUFFICES ASSUME TypeOK, TypeOK', RowInv, LabelInv, [Next]_vars, NEW w \in Workers
               PROVE  /\ pc'[w] \in {"check", "send"} /\ ~label' => lifted'[w]
                      /\ pc'[w] = "send" /\ IsReply(claim[w])' => lifted'[w]
    BY DEF LabelInv
  <2>1. pc'[w] \in {"check", "send"} => Claim(w) \/ pc[w] \in {"check", "send"}
    <3>1. CASE pc' = pc
      BY <3>1
    <3>2. ASSUME NEW v \in Workers, Start(v) \/ Die(v) \/ Claim(v) \/ Check(v) \/ Send(v)
                                      \/ SendFails(v)
          PROVE  pc'[w] \in {"check", "send"} => Claim(w) \/ pc[w] \in {"check", "send"}
      BY <3>2 DEF Start, Die, Claim, Check, Send, SendFails, Settle, Goto, TypeOK
    <3> QED
      BY <3>1, <3>2
         DEF Next, Handle, Work, CustomerWrites, OperatorActs, Redeliver, WindowEnds, Load,
             CommitIngress, RunWorkflow, Fail, RestartApi
  <2>2. pc'[w] \in {"check", "send"} /\ ~label' => lifted'[w]
    BY <2>1, LiftedStays DEF LabelInv, TypeOK
  <2>3. ASSUME pc'[w] = "send", IsReply(claim[w])'  PROVE lifted'[w]
    <3>1. /\ claim'[w] = claim[w] /\ claim[w] \in Turns
          /\ ~Claim(w)
      BY <2>3, SendersChecked DEF Claim, Goto, TypeOK
    <3>2. HasRow(claim[w])
      BY <3>1, SystemAssumption DEF RowInv
    <3>3. IsReply(claim[w])
      <4> DEFINE m == claim[w]
      <4>1. row'[m].kind = "public_message"
        BY <2>3, <3>1 DEF IsReply
      <4>2. (row'[m].kind = "public_message") <=> (row[m].kind = "public_message")
        BY <3>1, <3>2, KindsStay DEF IsReply
      <4> QED BY <4>1, <4>2 DEF IsReply
    <3>4. CASE pc[w] = "send"
      BY <3>1, <3>3, <3>4, LiftedStays DEF LabelInv
    <3>5. CASE pc[w] = "check" /\ ~Blocked(w)
      <4>1. ~label
        BY <3>5 DEF Blocked
      <4>2. lifted[w]
        BY <3>5, <4>1 DEF LabelInv
      <4> QED BY <3>1, <4>2, LiftedStays
    <3> QED BY <2>3, <3>3, <3>4, <3>5, SendersChecked
  <2> QED BY <2>2, <2>3
<1> QED BY <1>1, <1>2, TypeCorrect, RowsAreSound, PTL DEF Spec

(* Only the send of a worker posts, and it posts what it claimed.              *)
LEMMA PostsAreClaimed ==
  ASSUME TypeOK, [Next]_vars, NEW m \in Turns, PostsReply(m)
  PROVE  \E v \in Workers : pc[v] = "send" /\ claim[v] = m /\ IsReply(m)
<1>1. PICK v \in Workers : Send(v)
  BY DEF PostsReply, Next, Handle, Work, CustomerWrites, OperatorActs, Redeliver, WindowEnds,
         Load, CommitIngress, RunWorkflow, Fail, RestartApi, Start, Claim, Check, SendFails,
         Die
<1>2. claim[v] \in Turns /\ pc[v] = "send"
  BY <1>1 DEF Send, TypeOK
<1>3. posted' = [posted EXCEPT ![claim[v]] = @ \cup {row[claim[v]].kind}]
  BY <1>1 DEF Send
<1> QED BY <1>2, <1>3 DEF PostsReply, IsReply, TypeOK

(* No worker sends a reply that it claimed when the label was set and stayed set:  *)
(* however wrong the stored state became by old payloads.                      *)
THEOREM LabelStops == Spec => LabelStopsReplies
<1>1. TypeOK /\ LabelInv /\ [Next]_vars
        => [\A w \in Workers : pc[w] = "send" /\ PostsReply(claim[w]) => lifted[w]]_vars
  <2> SUFFICES ASSUME TypeOK, LabelInv, [Next]_vars, NEW w \in Workers,
                      pc[w] = "send", PostsReply(claim[w])
               PROVE  lifted[w]
    OBVIOUS
  <2>1. claim[w] \in Turns
    BY DEF TypeOK
  <2>2. IsReply(claim[w])
    BY <2>1, PostsAreClaimed
  <2> QED BY <2>2 DEF LabelInv
<1> QED BY <1>1, TypeCorrect, LabelIsRemembered, PTL DEF Spec, LabelStopsReplies

(***************************************************************************)
(* The order of replies.                                                    *)
(***************************************************************************)
OneWorker == \A v, w \in Workers : v = w

(* When a reply is about to be sent, no later turn has been answered: none was      *)
(* stored at the check, and the worker sends nothing else since.               *)
OrderInv ==
  OneWorker =>
    \A w \in Workers : pc[w] = "send" /\ IsReply(claim[w]) =>
      \A n \in Turns : n > claim[w] => "public_message" \notin posted[n]

LEMMA RepliesAreOrdered == Spec => []OrderInv
<1>1. Init => OrderInv
  BY DEF Init, OrderInv
<1>2. TypeOK /\ RowInv /\ OrderInv /\ [Next]_vars => OrderInv'
  <2> SUFFICES ASSUME TypeOK, RowInv, OrderInv, [Next]_vars, OneWorker,
                      NEW w \in Workers, pc'[w] = "send", IsReply(claim[w])',
                      NEW n \in Turns, n > claim'[w]
               PROVE  "public_message" \notin posted'[n]
    BY DEF OrderInv, OneWorker
  <2>1. /\ claim'[w] = claim[w] /\ claim[w] \in Turns
        /\ \/ pc[w] = "send"
           \/ /\ Check(w) /\ pc[w] = "check" /\ row' = row
              /\ IsReply(claim[w]) => ~Overtaken(claim[w])
    BY SendersChecked
  <2>2. IsReply(claim[w])
    <3>1. HasRow(claim[w])
      BY <2>1, SystemAssumption DEF RowInv
    <3>2. row'[claim[w]].kind = "public_message"
      BY <2>1 DEF IsReply
    <3> QED BY <2>1, <3>1, <3>2, KindsStay DEF IsReply
  <2>3. posted' = posted
    <3>1. \A v \in Workers : ~Send(v)
      BY SystemAssumption DEF OneWorker, Send, Settle, Goto, TypeOK
    <3> QED
      BY <3>1
         DEF Next, Handle, Work, CustomerWrites, OperatorActs, Redeliver, WindowEnds, Load,
             CommitIngress, RunWorkflow, Fail, RestartApi, Start, Claim, Check, SendFails,
             Die
  <2>4. CASE pc[w] = "send"
    BY <2>1, <2>2, <2>3, <2>4 DEF OrderInv
  <2>5. CASE ~Overtaken(claim[w])
    <3>1. n \notin stored
      BY <2>1, <2>5 DEF Overtaken
    <3>2. posted[n] = {}
      BY <3>1 DEF RowInv
    <3> QED BY <2>3, <3>2
  <2> QED BY <2>1, <2>2, <2>4, <2>5
<1> QED BY <1>1, <1>2, TypeCorrect, RowsAreSound, PTL DEF Spec

(* A single worker never sends the reply to an earlier turn after the reply to a    *)
(* later one, in whatever order requests end and rows are claimed.             *)
THEOREM OneWorkerKeepsOrder == Spec => RepliesKeepOrder
<1>1. TypeOK /\ OrderInv /\ [Next]_vars
        => [(\A v, w \in Workers : v = w) =>
              \A m, n \in Turns : PostsReply(m) /\ n > m => "public_message" \notin posted[n]]_vars
  BY PostsAreClaimed DEF OrderInv, OneWorker
<1> QED BY <1>1, TypeCorrect, RepliesAreOrdered, PTL DEF Spec, RepliesKeepOrder

(***************************************************************************)
(* One message for a turn.                                                   *)
(***************************************************************************)
(* The steps, as far as rows, claims and posts are concerned: the row of a turn   *)
(* is queued, claimed, marked, or sent; all the others leave rows alone.         *)
Queues(m) ==
  /\ request[TurnEvent(m)] = "workflow"
  /\ \E kind \in Kinds : row' = [row EXCEPT ![m] = [kind |-> kind, status |-> "queued"]]
  /\ UNCHANGED <<claim, posted>>

Marks(w) ==
  /\ pc[w] \in {"check", "send"}
  /\ \E status \in {"superseded", "blocked_by_policy", "queued"} : Settle(w, status)
  /\ UNCHANGED posted

LEMMA RowSteps ==
  ASSUME TypeOK, [Next]_vars
  PROVE  \/ /\ UNCHANGED <<row, posted>>
            /\ \A w \in Workers : claim'[w] \in {claim[w], NoTurn}
         \/ \E m \in Turns : Queues(m)
         \/ \E w \in Workers : Claim(w) \/ Marks(w) \/ Send(w)
<1> DEFINE Elsewhere == /\ UNCHANGED <<row, posted>>
                        /\ \A w \in Workers : claim'[w] \in {claim[w], NoTurn}
<1>1. ASSUME NEW e \in Events, Handle(e) PROVE Elsewhere \/ \E m \in Turns : Queues(m)
  <2>1. CASE Load(e) \/ CommitIngress(e)
    BY <2>1 DEF Load, CommitIngress
  <2>2. CASE e[1] = "turn" /\ RunWorkflow(e[2])
    BY <2>2, EventsAreDistinct DEF RunWorkflow, Queues
  <2> QED
    BY <1>1, <2>1, <2>2 DEF Handle
<1>2. ASSUME NEW w \in Workers, Start(w) \/ Die(w) PROVE Elsewhere
  BY <1>2 DEF Start, Die, TypeOK
<1>3. ASSUME NEW w \in Workers, Check(w) PROVE Elsewhere \/ Marks(w)
  BY <1>3 DEF Check, Marks
<1>4. ASSUME NEW w \in Workers, SendFails(w) PROVE Marks(w)
  BY <1>4 DEF SendFails, Marks
<1>5. CASE UNCHANGED <<row, posted, claim>>
  BY <1>5
<1> HIDE DEF Elsewhere
<1>6. \/ UNCHANGED <<row, posted, claim>>
      \/ \E e \in Events : Handle(e)
      \/ \E w \in Workers : Start(w) \/ Die(w) \/ Claim(w) \/ Check(w) \/ Send(w) \/ SendFails(w)
  BY DEF Next, Work, CustomerWrites, OperatorActs, Redeliver, WindowEnds, Fail, RestartApi
<1> QED
  BY <1>1, <1>2, <1>3, <1>4, <1>5, <1>6 DEF Elsewhere

(* A claimed row is executing for one worker only, and has not been posted; what   *)
(* was posted is a row that was sent.                                          *)
SoleInv ==
  /\ \A w \in Workers : claim[w] # NoTurn => row[claim[w]].status = "executing"
  /\ \A v, w \in Workers : v # w /\ claim[v] # NoTurn => claim[v] # claim[w]
  /\ \A m \in Turns : posted[m] # {} => row[m].status = "sent"

(* A settled row is the row of its worker, which lets go of it.                 *)
LEMMA SettleEffect ==
  ASSUME TypeOK, SoleInv, NEW w \in Workers, pc[w] \in {"check", "send"},
         NEW status, Settle(w, status)
  PROVE  /\ claim[w] \in Turns /\ row[claim[w]].status = "executing"
         /\ row'[claim[w]].status = status
         /\ \A m \in Turns : m # claim[w] => row'[m] = row[m]
         /\ claim'[w] = NoTurn
         /\ \A v \in Workers : v # w => claim'[v] = claim[v] /\ claim[v] # claim[w]
<1>1. claim[w] \in Turns /\ claim[w] # NoTurn
  BY SystemAssumption DEF TypeOK
<1>2. row[claim[w]].status = "executing" /\ \A v \in Workers : v # w => claim[v] # claim[w]
  BY <1>1 DEF SoleInv
<1> QED
  BY <1>1, <1>2 DEF Settle, TypeOK

LEMMA SoleStep ==
  ASSUME TypeOK, RowInv, SoleInv, [Next]_vars
  PROVE  SoleInv'
<1>0. \A w \in Workers : claim[w] \in Turns \cup {NoTurn}
  BY DEF TypeOK
<1>1. CASE /\ UNCHANGED <<row, posted>>
           /\ \A w \in Workers : claim'[w] \in {claim[w], NoTurn}
  BY <1>1 DEF SoleInv
<1>2. ASSUME NEW m \in Turns, Queues(m) PROVE SoleInv'
  <2>1. row[m].status = "none"
    BY <1>2 DEF Queues, RowInv, HasRow
  <2>2. UNCHANGED <<claim, posted>> /\ \A n \in Turns : n # m => row'[n] = row[n]
    BY <1>2 DEF Queues, TypeOK
  <2>3. posted[m] = {} /\ \A w \in Workers : claim[w] # NoTurn => claim[w] # m
    BY <2>1 DEF SoleInv
  <2>4. \A w \in Workers : claim'[w] # NoTurn => row'[claim'[w]].status = "executing"
    BY <1>0, <2>2, <2>3 DEF SoleInv
  <2>5. \A v, w \in Workers : v # w /\ claim'[v] # NoTurn => claim'[v] # claim'[w]
    BY <2>2 DEF SoleInv
  <2>6. \A n \in Turns : posted'[n] # {} => row'[n].status = "sent"
    BY <2>2, <2>3 DEF SoleInv
  <2> QED
    BY <2>4, <2>5, <2>6 DEF SoleInv
<1>3. ASSUME NEW w \in Workers, Claim(w) PROVE SoleInv'
  <2>1. PICK m \in Turns :
          /\ row[m].status = "queued"
          /\ claim' = [claim EXCEPT ![w] = m]
          /\ row' = [row EXCEPT ![m].status = "executing"]
    BY <1>3 DEF Claim, Claimable
  <2>2. /\ claim'[w] = m /\ \A v \in Workers : v # w => claim'[v] = claim[v]
        /\ row'[m].status = "executing" /\ \A n \in Turns : n # m => row'[n] = row[n]
        /\ posted' = posted
    BY <1>3, <2>1 DEF Claim, TypeOK
  <2>3. posted[m] = {} /\ \A v \in Workers : claim[v] # NoTurn => claim[v] # m
    BY <2>1 DEF SoleInv
  <2>4. \A v \in Workers : claim'[v] # NoTurn => row'[claim'[v]].status = "executing"
    BY <1>0, <2>2, <2>3 DEF SoleInv
  <2>5. ASSUME NEW u \in Workers, NEW v \in Workers, u # v, claim'[u] # NoTurn
        PROVE  claim'[u] # claim'[v]
    <3>1. CASE u = w
      BY <2>2, <2>3, <2>5, <3>1, SystemAssumption
    <3>2. CASE v = w
      BY <2>2, <2>3, <2>5, <3>2
    <3>3. CASE u # w /\ v # w
      BY <2>2, <2>5, <3>3 DEF SoleInv
    <3> QED
      BY <3>1, <3>2, <3>3
  <2>6. \A n \in Turns : posted'[n] # {} => row'[n].status = "sent"
    BY <2>2, <2>3 DEF SoleInv
  <2> QED
    BY <2>4, <2>5, <2>6 DEF SoleInv
<1>4. ASSUME NEW w \in Workers, NEW status, Settle(w, status), pc[w] \in {"check", "send"},
             \A m \in Turns : m # claim[w] => posted'[m] = posted[m],
             status = "sent" \/ UNCHANGED posted
      PROVE  SoleInv'
  <2>1. /\ claim[w] \in Turns /\ row[claim[w]].status = "executing"
        /\ row'[claim[w]].status = status
        /\ \A m \in Turns : m # claim[w] => row'[m] = row[m]
        /\ claim'[w] = NoTurn
        /\ \A v \in Workers : v # w => claim'[v] = claim[v] /\ claim[v] # claim[w]
    BY <1>4, SettleEffect
  <2>2. posted[claim[w]] = {}
    BY <2>1 DEF SoleInv
  <2>3. \A v \in Workers : claim'[v] # NoTurn => row'[claim'[v]].status = "executing"
    <3> SUFFICES ASSUME NEW v \in Workers, claim'[v] # NoTurn
                 PROVE  row'[claim'[v]].status = "executing"
      OBVIOUS
    <3>1. v # w /\ claim'[v] = claim[v] /\ claim[v] # claim[w]
      BY <2>1
    <3>2. claim[v] \in Turns /\ row[claim[v]].status = "executing"
      BY <1>0, <3>1 DEF SoleInv
    <3> QED
      BY <2>1, <3>1, <3>2
  <2>4. \A u, v \in Workers : u # v /\ claim'[u] # NoTurn => claim'[u] # claim'[v]
    BY <2>1 DEF SoleInv
  <2>5. \A n \in Turns : posted'[n] # {} => row'[n].status = "sent"
    BY <1>4, <2>1, <2>2 DEF SoleInv
  <2> QED
    BY <2>3, <2>4, <2>5 DEF SoleInv
<1>5. ASSUME NEW w \in Workers, Marks(w) PROVE SoleInv'
  BY <1>4, <1>5 DEF Marks
<1>6. ASSUME NEW w \in Workers, Send(w) PROVE SoleInv'
  <2>1. Settle(w, "sent") /\ pc[w] \in {"check", "send"}
    BY <1>6 DEF Send
  <2>2. \A m \in Turns : m # claim[w] => posted'[m] = posted[m]
    BY <1>6 DEF Send, TypeOK
  <2> QED
    BY <1>4, <2>1, <2>2
<1> QED
  BY <1>1, <1>2, <1>3, <1>5, <1>6, RowSteps

(* Delivery sees the statuses of the rows, and what was posted in number.       *)
Phases == [m \in Turns |-> RowPhase(row[m].status)]
Copies == [m \in Turns |-> Cardinality(posted[m])]

LEMMA PhaseOfOne ==
  ASSUME NEW n \in Turns, \A m \in Turns : m # n => row'[m] = row[m]
  PROVE  Phases' = [Phases EXCEPT ![n] = RowPhase(row'[n].status)]
BY DEF Phases

(* The row of a turn is closed, put back or confirmed.                          *)
LEMMA StepDelivers ==
  ASSUME TypeOK, RowInv, SoleInv, [Next]_vars
  PROVE  Outbox!CoarseNext \/ UNCHANGED Outbox!vars
<1>0. Outbox!vars = <<Phases, Copies>> /\ (Outbox!vars)' = <<Phases', Copies'>>
  BY DEF Outbox!vars, Phases, Copies
<1>1. CASE UNCHANGED <<row, posted>>
  BY <1>1 DEF Outbox!vars
<1>2. ASSUME NEW m \in Turns, Queues(m) PROVE Outbox!CoarseNext
  <2>1. row[m].status = "none" /\ Copies' = Copies
    BY <1>2 DEF Queues, RowInv, HasRow, Copies
  <2>2. row'[m].status = "queued" /\ \A n \in Turns : n # m => row'[n] = row[n]
    BY <1>2 DEF Queues, TypeOK
  <2>3. Phases[m] = "absent" /\ Phases' = [Phases EXCEPT ![m] = "open"]
    BY <2>1, <2>2, PhaseOfOne DEF Phases, RowPhase
  <2>4. Outbox!Submit(m)
    BY <2>1, <2>3 DEF Outbox!Submit, Phases, Copies
  <2> QED
    BY <2>4 DEF Outbox!CoarseNext, Outbox!Next
<1>3. ASSUME NEW w \in Workers, Claim(w) PROVE UNCHANGED Outbox!vars
  <2>1. PICK m \in Turns :
          row[m].status = "queued" /\ row' = [row EXCEPT ![m].status = "executing"]
    BY <1>3 DEF Claim, Claimable
  <2>2. /\ row'[m].status = "executing" /\ \A n \in Turns : n # m => row'[n] = row[n]
        /\ posted' = posted
    BY <1>3, <2>1 DEF Claim, TypeOK
  <2>3. Phases[m] = "open" /\ Phases' = [Phases EXCEPT ![m] = "open"]
    BY <2>1, <2>2, PhaseOfOne DEF Phases, RowPhase
  <2>4. Phases' = Phases /\ Copies' = Copies
    BY <2>2, <2>3 DEF Phases, Copies
  <2> QED
    BY <1>0, <2>4
<1>4. ASSUME NEW w \in Workers, Marks(w) PROVE Outbox!CoarseNext \/ UNCHANGED Outbox!vars
  <2> DEFINE m == claim[w]
  <2>1. PICK status \in {"superseded", "blocked_by_policy", "queued"} : Settle(w, status)
    BY <1>4 DEF Marks
  <2>2. /\ m \in Turns /\ row[m].status = "executing" /\ row'[m].status = status
        /\ \A n \in Turns : n # m => row'[n] = row[n]
        /\ posted' = posted
    BY <1>4, <2>1, SettleEffect DEF Marks
  <2>3. /\ Phases[m] = "open" /\ Phases' = [Phases EXCEPT ![m] = RowPhase(status)]
        /\ Copies' = Copies
    BY <2>2, PhaseOfOne DEF Phases, RowPhase, Copies
  <2>4. CASE status = "queued"
    <3>1. Phases' = Phases
      BY <2>2, <2>3, <2>4 DEF Phases, RowPhase
    <3> QED
      BY <1>0, <2>3, <3>1
  <2>5. CASE status \in {"superseded", "blocked_by_policy"}
    <3>1. Outbox!Close(m)
      BY <2>3, <2>5 DEF Outbox!Close, RowPhase, Phases, Copies
    <3> QED
      BY <2>2, <3>1 DEF Outbox!CoarseNext, Outbox!Next
  <2> QED
    BY <2>1, <2>4, <2>5
<1>5. ASSUME NEW w \in Workers, Send(w) PROVE Outbox!CoarseNext
  <2> DEFINE m == claim[w]
             kind == row[m].kind
  <2>1. Settle(w, "sent") /\ pc[w] \in {"check", "send"}
        /\ posted' = [posted EXCEPT ![m] = @ \cup {kind}]
    BY <1>5 DEF Send
  <2>2. /\ m \in Turns /\ row[m].status = "executing" /\ row'[m].status = "sent"
        /\ \A n \in Turns : n # m => row'[n] = row[n]
    BY <2>1, SettleEffect
  <2>3. Phases[m] = "open" /\ Phases' = [Phases EXCEPT ![m] = "confirmed"]
    BY <2>2, PhaseOfOne DEF Phases, RowPhase
  <2>4. Copies[m] = 0 /\ Copies' = [Copies EXCEPT ![m] = Copies[m] + 1]
    <3>1. posted[m] = {} /\ posted'[m] = {kind}
      BY <2>1, <2>2 DEF SoleInv, TypeOK
    <3>2. \A n \in Turns : n # m => posted'[n] = posted[n]
      BY <2>1 DEF TypeOK
    <3>3. Cardinality(posted[m]) = 0 /\ Cardinality(posted'[m]) = 1
      BY <3>1, FS_EmptySet, FS_Singleton
    <3> QED
      BY <2>2, <3>2, <3>3 DEF Copies
  <2>5. Outbox!Hand(m)
    BY <2>3, <2>4 DEF Outbox!Hand, Phases, Copies
  <2> QED
    BY <2>2, <2>5 DEF Outbox!CoarseNext
<1> QED
  BY <1>1, <1>2, <1>3, <1>4, <1>5, RowSteps

(* End to end a turn gets one message at the most, in any number of deliveries,     *)
(* restarts, deaths and workers, and none after its row is closed.              *)
THEOREM SystemDeliversOnce == Spec => DeliversOnce
<1>1. Init => SoleInv
  BY NothingAtFirst DEF SoleInv
<1>2. Init => Outbox!Init
  <2> SUFFICES ASSUME Init PROVE Outbox!Init
    OBVIOUS
  <2>1. \A m \in Turns : row[m].status = "none" /\ posted[m] = {}
    BY NothingAtFirst DEF HasRow
  <2>2. \A m \in Turns : RowPhase(row[m].status) = "absent" /\ Cardinality(posted[m]) = 0
    BY <2>1, FS_EmptySet DEF RowPhase
  <2> QED
    BY <2>2 DEF Outbox!Init
<1>3. TypeOK /\ RowInv /\ SoleInv /\ [Next]_vars => [Outbox!CoarseNext]_(Outbox!vars)
  BY StepDelivers
<1> QED
  BY <1>1, <1>2, <1>3, TypeCorrect, RowsAreSound, SoleStep, PTL
     DEF Spec, DeliversOnce, Outbox!CoarseSpec
=============================================================================
