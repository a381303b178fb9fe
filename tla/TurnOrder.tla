----------------------------- MODULE TurnOrder -----------------------------
(***************************************************************************)
(* Which of the customer turns of a conversation overtakes which: by         *)
(* created_at, and at the same second by the id of the message, which the    *)
(* database keeps as a text.  A queued public reply is sent only if no turn   *)
(* overtakes its own, so one turn of a conversation has to be left over.     *)
(*                                                                         *)
(* Outbound takes this order for granted: its turns are numbers.             *)
(***************************************************************************)
EXTENDS Naturals

CONSTANTS Times,   (* values of created_at                                   *)
          Ids      (* message ids: their rank as texts, and what int() says  *)

ASSUME TurnOrderAssumption ==
  /\ Times \subseteq Nat
  /\ Ids \subseteq [text : Nat, numeric : BOOLEAN, number : Nat]
  /\ \A i, j \in Ids : i.text = j.text => i = j

Turns == [at : Times, id : Ids]

VARIABLE stored   (* the customer's public messages in conversation_messages  *)

(* Mutant: ids are compared as the texts they are stored as.                  *)
MessageIdIsAfterAsText(candidate, source) == candidate.text > source.text

(* _message_id_is_after: ValueError of either int() leaves the texts.          *)
MessageIdIsAfter(candidate, source) ==
  IF candidate.numeric /\ source.numeric
    THEN candidate.number > source.number
    ELSE candidate.text > source.text

(* One stored turn as has_newer_customer_public_message tests it.             *)
Overtakes(n, m) ==
  \/ n.at > m.at
  \/ n.at = m.at /\ n.id # m.id /\ MessageIdIsAfter(n.id, m.id)

HasNewer(m) == \E n \in stored : Overtakes(n, m)

Init == stored = {}

(* Mutant: an insert does not look for the message id.                        *)
StoreAgain(m) == stored' = stored \cup {m}

(* insert_message: one row per message id.                                    *)
Store(m) ==
  /\ \A n \in stored : n.id # m.id
  /\ stored' = stored \cup {m}

Next == \E m \in Turns : Store(m)

Spec == Init /\ [][Next]_stored
-----------------------------------------------------------------------------
(* Chatwoot numbers its messages.                                             *)
Numbered ==
  /\ \A i \in Ids : i.numeric
  /\ \A i, j \in Ids : i.number = j.number => i = j

(* Only messages of the conversation, each once.                              *)
TypeOK ==
  /\ stored \subseteq Turns
  /\ \A m, n \in stored : m.id = n.id => m = n

(* Of the turns of a conversation exactly the last one is not overtaken, the    *)
(* later ones first and of a second the one with the greatest number: neither  *)
(* are two replies sent to one burst of messages nor are all superseded.       *)
LastTurnIsLeft ==
  Numbered /\ stored # {} =>
    \E m \in stored :
      /\ ~HasNewer(m)
      /\ \A n \in stored \ {m} :
           /\ HasNewer(n)
           /\ n.at < m.at \/ (n.at = m.at /\ n.id.number < m.id.number)
=============================================================================
