-------------------------- MODULE DeliveryProofs --------------------------
(***************************************************************************)
(* Outbound implements Delivery: what the workflow that queues a row may     *)
(* rely on, for any number of workers, retries and crashes.                  *)
(***************************************************************************)
EXTENDS OutboundProofs

(* The phase of a row, by its status.                                         *)
PhaseOf(s) ==
  IF s = "none" THEN "absent"
  ELSE IF s = "sent" THEN "confirmed"
  ELSE IF s \in {"permanent_failure", "blocked_by_policy", "superseded"} THEN "closed"
  ELSE "open"

LEMMA PhaseByStatus ==
  /\ Phase = [m \in Messages |-> PhaseOf(status[m])]
  /\ Phase' = [m \in Messages |-> PhaseOf(status'[m])]
<1> DEFINE Shown(s) == CASE s = "none" -> "absent"
                         [] s = "sent" -> "confirmed"
                         [] s \in Terminal \ {"sent"} -> "closed"
                         [] OTHER -> "open"
<1>1. \A s : Shown(s) = PhaseOf(s)
  BY DEF PhaseOf, Terminal
<1>2. /\ Phase = [m \in Messages |-> Shown(status[m])]
      /\ Phase' = [m \in Messages |-> Shown(status'[m])]
  BY DEF Phase
<1> HIDE DEF Shown
<1> QED
  BY <1>1, <1>2

(* Rows whose status keeps its phase are not seen to change.                  *)
LEMMA SamePhase ==
  ASSUME \A m \in Messages : PhaseOf(status'[m]) = PhaseOf(status[m])
  PROVE  Phase' = Phase
BY PhaseByStatus

(* One row changes its phase.                                                *)
LEMMA OnePhase ==
  ASSUME NEW n \in Messages, \A m \in Messages : m # n => status'[m] = status[m]
  PROVE  Phase' = [Phase EXCEPT ![n] = PhaseOf(status'[n])]
BY PhaseByStatus

LEMMA InitDelivery == Init => Outbox!Init
BY PhaseByStatus DEF Init, Outbox!Init, PhaseOf

(* A result recorded for a claimed row closes it, confirms it, or leaves it      *)
(* open for a retry.                                                          *)
LEMMA MarkDelivers ==
  ASSUME TypeOK, ClaimInv, NEW w \in Workers, pc[w] \in Working,
         NEW result \in {"sent", "permanent_failure", "blocked_by_policy", "superseded",
                         "retryable_failure"},
         NEW wait, Mark(w, result, wait), result = "sent" => copies[claim[w]] > 0
  PROVE  Outbox!Next \/ UNCHANGED Outbox!vars
<1> DEFINE m == claim[w]
<1>1. /\ m \in Messages /\ status[m] = "executing" /\ status'[m] = result
      /\ copies' = copies
      /\ \A n \in Messages : n # m => status'[n] = status[n]
  BY MarkEffect DEF ClaimInv, ExclusiveClaim, calls
<1>2. /\ Phase[m] = "open"
      /\ Phase' = [Phase EXCEPT ![m] = PhaseOf(result)]
  BY <1>1, PhaseByStatus, OnePhase DEF PhaseOf
<1>3. CASE result = "sent"
  <2>1. Outbox!Confirm(m)
    BY <1>1, <1>2, <1>3 DEF Outbox!Confirm, PhaseOf
  <2> QED
    BY <1>1, <2>1 DEF Outbox!Next
<1>4. CASE result \in {"permanent_failure", "blocked_by_policy", "superseded"}
  <2>1. Outbox!Close(m)
    BY <1>1, <1>2, <1>4 DEF Outbox!Close, PhaseOf
  <2> QED
    BY <1>1, <2>1 DEF Outbox!Next
<1>5. CASE result = "retryable_failure"
  <2>1. Phase' = Phase
    BY <1>1, <1>5, SamePhase DEF PhaseOf
  <2> QED
    BY <1>1, <2>1 DEF Outbox!vars
<1> QED
  BY <1>3, <1>4, <1>5

(* Every step of a worker is a step of Delivery or a stutter.                   *)
LEMMA WorkerDelivers ==
  ASSUME TypeOK, ClaimInv, BudgetInv, LedgerInv, NEW w \in Workers, WorkerStep(w)
  PROVE  Outbox!Next \/ UNCHANGED Outbox!vars
<1>1. CASE Start(w) \/ LockNextRow(w) \/ Moves(w)
  <2>1. status' = status /\ copies' = copies
    BY <1>1 DEF Start, LockNextRow, Moves, rows, calls
  <2> QED
    BY <2>1, SamePhase DEF Outbox!vars
<1>2. CASE CommitClaim(w)
  <2>1. /\ claim[w] \in Messages /\ status[claim[w]] \in {"queued", "retryable_failure"}
        /\ status' = [status EXCEPT ![claim[w]] = "executing"] /\ copies' = copies
    BY <1>2, HoldsRow DEF CommitClaim, ClaimInv, calls
  <2>2. \A m \in Messages : PhaseOf(status'[m]) = PhaseOf(status[m])
    BY <2>1 DEF PhaseOf, TypeOK
  <2> QED
    BY <2>1, <2>2, SamePhase DEF Outbox!vars
<1>3. CASE CreateMessage(w)
  <2> DEFINE m == claim[w]
  <2>1. /\ m \in Messages /\ status[m] = "executing" /\ status' = status
        /\ copies'[m] \in {copies[m], copies[m] + 1}
        /\ \A n \in Messages : n # m => copies'[n] = copies[n]
    BY <1>3, CallEffect DEF rows
  <2>2. Phase' = Phase /\ Phase[m] = "open"
    BY <2>1, SamePhase, PhaseByStatus DEF PhaseOf
  <2>3. copies[m] < MaxAttempts
    <3>1. tries[m] = attempts[m] /\ attempts[m] < MaxAttempts /\ copies[m] <= tries[m]
      BY <1>3, <2>1 DEF CreateMessage, BudgetInv, WorkerBudget, BeforeCall, LedgerInv
    <3>2. copies[m] \in Nat /\ tries[m] \in Nat /\ MaxAttempts \in Nat
      BY <2>1, OutboundAssumption DEF TypeOK
    <3> QED
      BY <3>1, <3>2
  <2>4. copies' \in [Messages -> Nat]
    <3>1. PICK o \in PossibleOutcomes :
            copies' = [copies EXCEPT ![m] = IF o.created THEN copies[m] + 1 ELSE copies[m]]
      BY <1>3 DEF CreateMessage
    <3> QED
      BY <2>1, <3>1 DEF TypeOK
  <2>5. CASE copies'[m] = copies[m] + 1
    <3>1. copies' = [copies EXCEPT ![m] = copies[m] + 1]
      BY <2>1, <2>4, <2>5 DEF TypeOK
    <3> QED
      BY <2>1, <2>2, <2>3, <3>1 DEF Outbox!Deliver, Outbox!Next
  <2>6. CASE copies'[m] = copies[m]
    <3>1. copies' = copies
      BY <2>1, <2>4, <2>6 DEF TypeOK
    <3> QED
      BY <2>2, <3>1 DEF Outbox!vars
  <2> QED
    BY <2>1, <2>5, <2>6
<1>4. CASE Rejects(w)
  BY <1>4, MarkDelivers DEF Rejects, Working
<1>5. CASE MarkSendFailure(w)
  BY <1>5, MarkDelivers DEF MarkSendFailure, Working, AfterCall
<1>6. CASE MarkSent(w)
  <2>1. pc[w] \in {"succeeded", "mark_sent"} /\ Mark(w, "sent", 0)
    BY <1>6 DEF MarkSent
  <2>2. copies[claim[w]] > 0
    <3>1. claim[w] \in Messages /\ copies[claim[w]] = ambiguous[claim[w]] + 1
      BY <2>1, HoldsRow DEF LedgerInv, WorkerLedger, Working, AfterCall
    <3> QED
      BY <3>1 DEF TypeOK
  <2> QED
    BY <2>1, <2>2, MarkDelivers DEF Working, AfterCall
<1> QED
  BY <1>1, <1>2, <1>3, <1>4, <1>5, <1>6, WorkerKinds

(* So is every step of the system.                                            *)
LEMMA StepDelivers ==
  ASSUME TypeOK, ClaimInv, BudgetInv, LedgerInv, [Next]_vars
  PROVE  Outbox!Next \/ UNCHANGED Outbox!vars
<1>1. ASSUME NEW w \in Workers, WorkerStep(w) PROVE Outbox!Next \/ UNCHANGED Outbox!vars
  BY <1>1, WorkerDelivers
<1>2. ASSUME NEW m \in Messages, Enqueue(m) PROVE Outbox!Next \/ UNCHANGED Outbox!vars
  <2>1. /\ status[m] = "none" /\ status' = [status EXCEPT ![m] = "queued"]
        /\ copies' = copies
    BY <1>2 DEF Enqueue, calls
  <2>2. /\ status'[m] = "queued" /\ \A n \in Messages : n # m => status'[n] = status[n]
    BY <2>1 DEF TypeOK
  <2>3. Phase[m] = "absent" /\ Phase' = [Phase EXCEPT ![m] = "open"]
    BY <2>1, <2>2, PhaseByStatus, OnePhase DEF PhaseOf
  <2> QED
    BY <2>1, <2>3 DEF Outbox!Submit, Outbox!Next
<1>3. CASE status' = status /\ copies' = copies
  BY <1>3, SamePhase DEF Outbox!vars
<1>4. \/ status' = status /\ copies' = copies
      \/ \E w \in Workers : WorkerStep(w)
      \/ \E m \in Messages : Enqueue(m)
  BY AroundKinds DEF Next, Failure, Crash, SafetyReadError, Die, Elsewhere, vars, rows, calls
<1> QED
  BY <1>1, <1>2, <1>3, <1>4

(* The executor implements Delivery: a row is delivered only while it is open,    *)
(* at most MaxAttempts times, and confirmed only if it was delivered, however     *)
(* the workers interleave and die.                                             *)
THEOREM OutboundImplementsDelivery == Spec => ImplementsDelivery
<1>1. Init => ClaimInv /\ BudgetInv /\ LedgerInv
  <2>1. Init => ClaimInv
    BY DEF Init, ClaimInv, ExclusiveClaim, Working, BeforeCall, AfterCall
  <2>2. Init => BudgetInv
    BY OutboundAssumption
       DEF Init, BudgetInv, RowBudget, WorkerBudget, BeforeCall, AfterCall
  <2>3. Init => LedgerInv
    BY DEF Init, LedgerInv, LedgerMatchesChannel, RowLedger, WorkerLedger, BeforeCall
  <2> QED
    BY <2>1, <2>2, <2>3
<1>2. TypeOK /\ ClaimInv /\ BudgetInv /\ LedgerInv /\ [Next]_vars
        => [Outbox!Next]_(Outbox!vars)
  BY StepDelivers
<1> QED
  BY <1>1, <1>2, InitDelivery, TypeCorrect, ClaimStep, BudgetStep, LedgerStep, PTL
     DEF Spec, ImplementsDelivery, Outbox!Spec
=============================================================================
