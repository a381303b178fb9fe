------------------------------ MODULE Delivery ------------------------------
(***************************************************************************)
(* What the outbox promises to the workflow that queues a row: while the    *)
(* row is open it may be delivered, at most MaxAttempts times; it is        *)
(* confirmed only after a delivery, otherwise it is closed; and once        *)
(* confirmed or closed it is never delivered again.  Workers, claims,       *)
(* checks, retries and clocks are not visible here.                         *)
(***************************************************************************)
EXTENDS Naturals

CONSTANTS Messages,     (* the customer messages a row may answer            *)
          MaxAttempts   (* the delivery budget of a row                      *)

VARIABLES phase,        (* of each row, as the workflow may know it          *)
          copies        (* messages the channel holds for the row            *)

vars == <<phase, copies>>

Init ==
  /\ phase = [m \in Messages |-> "absent"]
  /\ copies = [m \in Messages |-> 0]

Submit(m) ==
  /\ phase[m] = "absent"
  /\ phase' = [phase EXCEPT ![m] = "open"]
  /\ UNCHANGED copies

Deliver(m) ==
  /\ phase[m] = "open"
  /\ copies[m] < MaxAttempts
  /\ copies' = [copies EXCEPT ![m] = @ + 1]
  /\ UNCHANGED phase

Confirm(m) ==
  /\ phase[m] = "open"
  /\ copies[m] > 0
  /\ phase' = [phase EXCEPT ![m] = "confirmed"]
  /\ UNCHANGED copies

Close(m) ==
  /\ phase[m] = "open"
  /\ phase' = [phase EXCEPT ![m] = "closed"]
  /\ UNCHANGED copies

Next ==
  \E m \in Messages : Submit(m) \/ Deliver(m) \/ Confirm(m) \/ Close(m)

(* Seen from further off, a delivery and its confirmation are one step.       *)
Hand(m) ==
  /\ phase[m] = "open"
  /\ copies[m] < MaxAttempts
  /\ copies' = [copies EXCEPT ![m] = @ + 1]
  /\ phase' = [phase EXCEPT ![m] = "confirmed"]

CoarseNext == Next \/ \E m \in Messages : Hand(m)

(* A row may stay unconfirmed, but it does not stay open.                    *)
Fairness == \A m \in Messages : WF_vars(Confirm(m) \/ Close(m))

Spec == Init /\ [][Next]_vars

FairSpec == Spec /\ Fairness

CoarseSpec == Init /\ [][CoarseNext]_vars
=============================================================================
