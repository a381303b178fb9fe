-------------------------------- MODULE Turn --------------------------------
(***************************************************************************)
(* What the workflow promises of one customer turn to the request that runs *)
(* it and to the outbox: an open turn is recorded or lost, once; a recorded  *)
(* one has at most one effect; no effect without a draft; neither model nor  *)
(* draft for a turn that is blocked; and no effect beyond what the mode and   *)
(* the turn allow.  Catalog, nodes, rules and transactions are not visible.  *)
(***************************************************************************)
VARIABLES mode,       (* the automation mode                                  *)
          blocked,    (* do the rules forbid to ask the model?                *)
          sensitive,  (* do the customer's words call for a human?            *)
          asked,      (* has the model been asked?                            *)
          drafted,    (* is there a proposal?                                 *)
          phase,      (* open, recorded or lost                               *)
          effect      (* what the turn sends to Chatwoot                      *)

given == <<mode, blocked, sensitive>>
vars  == <<given, asked, drafted, phase, effect>>

Allowed(e) ==
  CASE e = "none"           -> TRUE
    [] e = "private_note"   -> drafted /\ mode \in {"assist", "public_reply"}
    [] e = "public_message" -> drafted /\ mode = "public_reply" /\ ~sensitive

Init ==
  /\ mode \in {"observe", "assist", "public_reply"}
  /\ blocked \in BOOLEAN
  /\ sensitive \in BOOLEAN
  /\ asked = FALSE
  /\ drafted = FALSE
  /\ phase = "open"
  /\ effect = "none"

Consult ==
  /\ phase = "open"
  /\ ~blocked
  /\ asked' \in {asked, TRUE}
  /\ drafted' \in {drafted, TRUE}
  /\ UNCHANGED <<given, phase, effect>>

Record ==
  /\ phase = "open"
  /\ phase' = "recorded"
  /\ effect' \in {"none", "private_note", "public_message"}
  /\ Allowed(effect')
  /\ UNCHANGED <<given, asked, drafted>>

Lose ==
  /\ phase = "open"
  /\ phase' = "lost"
  /\ UNCHANGED <<given, asked, drafted, effect>>

Next == Consult \/ Record \/ Lose

Spec == Init /\ [][Next]_vars
=============================================================================
