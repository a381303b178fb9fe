----------------------------- MODULE MCIngress -----------------------------
(* Small feeds for Ingress: what Chatwoot may deliver in one conversation.    *)
EXTENDS Ingress, TLC

CustomerTurn(i, at) ==
  [kind |-> "message", id |-> i, incoming |-> TRUE, private |-> FALSE, blank |-> FALSE,
   sender |-> "contact", author |-> "customer", at |-> at,
   status |-> "open", canReply |-> "yes", flags |-> {}]

HumanReply(i, at) ==
  [CustomerTurn(i, at) EXCEPT !.incoming = FALSE, !.sender = "user", !.author = "human"]

(* The API token is the token of a Chatwoot user (infra/chatwoot-dev/README). *)
OwnReply(i, at) == [HumanReply(i, at) EXCEPT !.author = "wootpilot"]

StateEvent(i, status, flags) ==
  [CustomerTurn(i, 0) EXCEPT !.kind = "conversation", !.status = status, !.flags = flags]

SymmetricRequests == Permutations(Requests)

(* A turn delivered under two ids, the second time without its conversation, a  *)
(* human reply, the resolution of the conversation, the event that snoozes it,  *)
(* a reply while it is snoozed, and an event of another kind.                  *)
RedeliveredTurn ==
  [d \in {"turn", "again", "reply", "resolve", "snooze", "snoozed", "contact"} |->
     CASE d = "turn"    -> CustomerTurn(1, 1)
       [] d = "again"   -> [CustomerTurn(1, 1) EXCEPT !.status = "unset",
                                                      !.canReply = "unset"]
       [] d = "reply"   -> HumanReply(2, 2)
       [] d = "resolve" -> StateEvent(1, "resolved", {"paused"})
       [] d = "snooze"  -> StateEvent(2, "snoozed", {})
       [] d = "snoozed" -> [HumanReply(3, 4) EXCEPT !.status = "snoozed"]
       [] d = "contact" -> [CustomerTurn(1, 1) EXCEPT !.kind = "other"]]

(* A turn delivered under two ids, and a human reply.                          *)
ShortFeed ==
  [d \in {"turn", "again", "reply"} |->
     IF d = "reply" THEN HumanReply(2, 2) ELSE CustomerTurn(1, 1)]

OnlyOwnReply ==
  [d \in {"turn", "own"} |-> IF d = "turn" THEN CustomerTurn(1, 1) ELSE OwnReply(2, 2)]
=============================================================================
