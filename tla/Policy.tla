------------------------------- MODULE Policy -------------------------------
(***************************************************************************)
(* The deterministic rules of WootPilot, as functions of what they read:    *)
(* the rules that block a turn before the model is asked, those that block  *)
(* a proposed public reply, and the catalog facts the price rule needs.     *)
(* The workflow applies them when it decides, the executor applies some of  *)
(* them again to the row it claimed.                                        *)
(***************************************************************************)
EXTENDS Naturals, FiniteSets

CONSTANT Prices   (* display texts of prices, as a text may quote them       *)

NoPrice == "no price"   (* a display text that is None or empty              *)

ASSUME PolicyAssumption == NoPrice \notin Prices

Modes   == {"observe", "assist", "public_reply"}
Kinds   == {"none", "public_message", "private_note"}
Holds   == {"not_replyable", "resolved", "paused", "human_active", "assigned"}
Signals == {"intent.human", "intent.agent", "intent.refund"}
Risks   == {"catalog.no_match", "catalog.load_failed", "intent.refund", "other"}

(* What the rules tell of a text: is there any, does it leak internal         *)
(* reasoning, does it look like it states a price, which prices occur in it.  *)
Bodies == {"absent", "empty", "blank", "text"}
Text ==
  {t \in [body : Bodies, leaks : BOOLEAN, priced : BOOLEAN, quotes : SUBSET Prices] :
     t.body # "text" => ~t.leaks /\ ~t.priced /\ t.quotes = {}}

Plain(body) == [body |-> body, leaks |-> FALSE, priced |-> FALSE, quotes |-> {}]

(* Python's truth of a string: a blank one counts.                            *)
Truthy(body) == body \in {"blank", "text"}

Product ==
  [text : Prices \cup {NoPrice}, canMention : BOOLEAN, quoteRequired : BOOLEAN,
   hidden : BOOLEAN, stale : BOOLEAN, available : {"yes", "no", "unknown"}]
-----------------------------------------------------------------------------
(***************************************************************************)
(* Connectors: the snapshot of a product in the store.                      *)
(***************************************************************************)
(* A product as the store describes it: `zero` is a price of "0", `shown` what  *)
(* Money.display makes of the amount.                                        *)
Listing ==
  [price : {"missing", "zero", "amount", "malformed"}, html : Prices \cup {NoPrice},
   shown : Prices, purchasable : BOOLEAN, inStock : BOOLEAN]

Available(l) == IF l.inStock THEN "yes" ELSE "no"

(* Mutant: a placeholder price counts as an amount.                           *)
StoreApiSnapshotOfZero(l) ==
  [text |-> l.html,
   canMention |-> l.price \in {"amount", "zero"} /\ l.purchasable /\ l.inStock,
   quoteRequired |-> FALSE, hidden |-> l.price \notin {"amount", "zero"}, stale |-> FALSE,
   available |-> Available(l)]

(* store_api_product_to_snapshot: a zero price is a placeholder.              *)
StoreApiSnapshot(l) ==
  [text |-> l.html,
   canMention |-> l.price = "amount" /\ l.purchasable /\ l.inStock,
   quoteRequired |-> l.price = "zero", hidden |-> l.price # "amount", stale |-> FALSE,
   available |-> Available(l)]

(* MockCatalog._snapshot: without a text of its own a product shows the amount, *)
(* and whether it can be bought is not asked.  The amounts of the committed   *)
(* fixture are numbers, so that zero is no amount.                            *)
MockSnapshot(l) ==
  LET amount == l.price = "amount"
  IN  [text |-> IF l.html = NoPrice /\ amount THEN l.shown ELSE l.html,
       canMention |-> amount /\ l.inStock,
       quoteRequired |-> FALSE, hidden |-> ~amount, stale |-> FALSE,
       available |-> Available(l)]
-----------------------------------------------------------------------------
(***************************************************************************)
(* Before the model is asked.                                               *)
(***************************************************************************)
PreModelRule ==
  {"conversation.not_replyable", "conversation.resolved", "conversation.wootpilot_paused",
   "conversation.human_active", "conversation.assigned_to_human",
   "intent.human_requested"}

HumanRequested(signals) == signals \cap {"intent.human", "intent.agent"} # {}

(* pre_model_policy of a customer turn: a human at work stops public replies   *)
(* only, the other reasons stop every mode.                                   *)
PreModelRules(mode, holds, signals) ==
  {r \in PreModelRule :
     \/ r = "conversation.not_replyable"     /\ "not_replyable" \in holds
     \/ r = "conversation.resolved"          /\ "resolved" \in holds
     \/ r = "conversation.wootpilot_paused"  /\ "paused" \in holds
     \/ r = "conversation.human_active"      /\ mode = "public_reply"
                                             /\ "human_active" \in holds
     \/ r = "conversation.assigned_to_human" /\ mode = "public_reply"
                                             /\ "assigned" \in holds
     \/ r = "intent.human_requested"         /\ HumanRequested(signals)}
-----------------------------------------------------------------------------
(***************************************************************************)
(* After the model has answered.                                            *)
(***************************************************************************)
Proposal ==
  [kind : Kinds, summary : Bodies \ {"absent"}, public : Text, private : Bodies,
   risks : SUBSET Risks]
NoProposal == [kind |-> "no proposal"]

PublicRule ==
  {"public.no_internal_reasoning", "public.risk_requires_review",
   "public.proposal_risk_requires_review", "public.price_requires_mentionable_snapshot"}
PostModelRule == PublicRule \cup {"model.no_proposal"}
Rules == PreModelRule \cup PostModelRule
           \cup {"model.proposal_failed", "mode.public_reply_not_enabled", "content.empty"}

(* The condition under which a product's price may be stated.                 *)
Mentionable(p) ==
  /\ p.canMention
  /\ p.text # NoPrice
  /\ ~p.hidden
  /\ ~p.quoteRequired
  /\ ~p.stale
  /\ p.available # "no"

MentionablePrices(products) == {p.text : p \in {q \in products : Mentionable(q)}}

(* _price_can_be_shown_to_model: a copy of that condition; the prices the      *)
(* prompt contains.                                                           *)
PromptPrices(products) ==
  {p.text : p \in {q \in products :
     /\ q.canMention /\ q.text # NoPrice
     /\ ~q.hidden /\ ~q.quoteRequired /\ ~q.stale
     /\ q.available # "no"}}

(* public_price_policy_rule: one price that may be stated lets the text pass,   *)
(* whatever else it states.                                                   *)
PriceRuleBlocks(text, products) ==
  text.priced /\ text.quotes \cap MentionablePrices(products) = {}

(* Mutant: the risks the model itself gives are not looked at.                 *)
PostModelRulesTrusting(mode, proposal, signals, products) ==
  {r \in PostModelRule :
     IF proposal = NoProposal THEN r = "model.no_proposal"
     ELSE /\ mode = "public_reply" /\ proposal.kind = "public_message"
          /\ \/ r = "public.no_internal_reasoning" /\ proposal.public.leaks
             \/ r = "public.risk_requires_review"  /\ signals # {}
             \/ r = "public.price_requires_mentionable_snapshot"
                  /\ PriceRuleBlocks(proposal.public, products)}

(* validate_proposal: only a public message in mode public_reply is examined.   *)
PostModelRules(mode, proposal, signals, products) ==
  {r \in PostModelRule :
     IF proposal = NoProposal THEN r = "model.no_proposal"
     ELSE /\ mode = "public_reply"
          /\ proposal.kind = "public_message"
          /\ \/ r = "public.no_internal_reasoning"        /\ proposal.public.leaks
             \/ r = "public.risk_requires_review"         /\ signals # {}
             \/ r = "public.proposal_risk_requires_review" /\ proposal.risks # {}
             \/ r = "public.price_requires_mentionable_snapshot"
                  /\ PriceRuleBlocks(proposal.public, products)}
-----------------------------------------------------------------------------
(***************************************************************************)
(* The executor, on a row it claimed.                                       *)
(***************************************************************************)
(* Row: kind, content and the safety context stored when it was queued.        *)
Row == [kind : {"public_message", "private_note"}, from : {"draft", "note", "summary",
        "review"}, content : {t \in Text : Truthy(t.body)}, products : SUBSET Product, rules : SUBSET Rules,
        risks : SUBSET (Risks \cup Signals)]

(* _public_message_static_blocked_reason, and the check of a note's content.    *)
StaticReasons(row, mode) ==
  {r \in Rules :
     \/ r = "content.empty" /\ row.content.body # "text"
     \/ /\ row.kind = "public_message"
        /\ \/ r = "mode.public_reply_not_enabled" /\ mode # "public_reply"
           \/ r = "public.no_internal_reasoning"  /\ row.content.leaks
           \/ r = "public.price_requires_mentionable_snapshot"
                /\ PriceRuleBlocks(row.content, row.products)}

(* _is_human_review_private_note: some marker starts with public. or intent.    *)
ReviewMarkers == PublicRule \cup {"intent.human_requested"} \cup Signals
HumanReviewNote(row) ==
  row.kind = "private_note" /\ (row.rules \cup row.risks) \cap ReviewMarkers # {}
=============================================================================
