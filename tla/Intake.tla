------------------------------- MODULE Intake -------------------------------
(***************************************************************************)
(* What the webhook endpoint promises of the events of a conversation, as if *)
(* it handled one at a time: an event is handled once; a message is stored    *)
(* by the first of its deliveries to be handled, and the others change        *)
(* nothing but the window; a customer turn is answered once, and nothing else *)
(* is answered; the window of a human reply is set by that reply only.        *)
(* Requests, sessions, locks and what dies are not visible here.             *)
(***************************************************************************)
EXTENDS Naturals

CONSTANTS Deliveries,   (* the events that may come                          *)
          MessageIds,   (* the messages they may carry                       *)
          Carrying,     (* the deliveries that carry a message ...           *)
          Carried,      (* ... and which                                     *)
          Turns,        (* the deliveries that carry a customer's turn       *)
          Replies,      (* the deliveries that carry a human's public reply  *)
          WindowEnd,    (* when the window of such a reply ends              *)
          StateEvents,  (* the deliveries that tell of the conversation only *)
          None

VARIABLES outcome,      (* of each delivery, as raw_events tells it          *)
          source,       (* of each message: the delivery that stored it      *)
          runs,         (* of each message: how often it was answered        *)
          until         (* public replies are suppressed until then          *)

vars == <<outcome, source, runs, until>>

Init ==
  /\ outcome = [d \in Deliveries |-> None]
  /\ source  = [i \in MessageIds |-> None]
  /\ runs    = [i \in MessageIds |-> 0]
  /\ until   = 0

Handle(d, result) ==
  /\ outcome[d] = None
  /\ outcome' = [outcome EXCEPT ![d] = result]

(* A reply moves the window, unless another reply has moved it meanwhile; it    *)
(* never leaves it closed.                                                    *)
Suppress(d) ==
  IF d \in Replies THEN until' \in {until, WindowEnd[d]} \ {0} ELSE until' = until

Store(d) ==
  /\ d \in Carrying
  /\ source[Carried[d]] = None
  /\ source' = [source EXCEPT ![Carried[d]] = d]
  /\ Handle(d, IF d \in Turns THEN "received" ELSE "ignored")
  /\ Suppress(d)
  /\ UNCHANGED runs

(* A message that comes again counts as what was stored of it.                *)
Repeat(d) ==
  /\ d \in Carrying
  /\ source[Carried[d]] # None
  /\ Handle(d, "duplicate")
  /\ Suppress(source[Carried[d]])
  /\ UNCHANGED <<source, runs>>

Note(d) ==
  /\ d \notin Carrying
  /\ Handle(d, IF d \in StateEvents THEN "processed" ELSE "ignored")
  /\ UNCHANGED <<source, runs, until>>

Answer(i) ==
  /\ source[i] # None
  /\ outcome[source[i]] = "received"
  /\ outcome' = [outcome EXCEPT ![source[i]] = "processed"]
  /\ runs' = [runs EXCEPT ![i] = @ + 1]
  /\ UNCHANGED <<source, until>>

Next ==
  \/ \E d \in Deliveries : Store(d) \/ Repeat(d) \/ Note(d)
  \/ \E i \in MessageIds : Answer(i)

Spec == Init /\ [][Next]_vars
=============================================================================
