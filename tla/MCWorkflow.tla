---------------------------- MODULE MCWorkflow ----------------------------
(* Small instances of Workflow: one or two products, and what a model says.   *)
EXTENDS Workflow

CONSTANTS p1, p2

NoneOrOneHold == {{}, {"paused"}, {"resolved", "not_replyable"}, {"human_active"},
                  {"assigned"}}
AnyWords      == {{}, {"intent.human"}, {"intent.refund"},
                  {"intent.agent", "intent.refund"}}
NoHold        == {{}}
NoWords       == {{}}

Item(price, html, purchasable, inStock) ==
  [price |-> price, html |-> html, shown |-> p1, purchasable |-> purchasable,
   inStock |-> inStock]

(* A product for sale, a placeholder, one out of stock, one not for sale, one    *)
(* without a text, one whose price cannot be read, and pairs of them.         *)
ForSale     == Item("amount", p1, TRUE, TRUE)
Placeholder == Item("zero", p2, TRUE, TRUE)
SoldOut     == Item("amount", p2, TRUE, FALSE)
NotForSale  == Item("amount", p2, FALSE, TRUE)
Untitled    == Item("amount", NoPrice, TRUE, TRUE)
Unpriced    == Item("missing", NoPrice, TRUE, TRUE)
Unreadable  == Item("malformed", p1, TRUE, TRUE)

AllShelves ==
  {{}, {ForSale}, {Placeholder}, {SoldOut, Unpriced}, {NotForSale}, {Untitled},
   {ForSale, Placeholder}, {ForSale, Unreadable}}
FewShelves == {{ForSale, Placeholder}, {Unreadable}}

Said(leaks, priced, quotes) ==
  [body |-> "text", leaks |-> leaks, priced |-> priced, quotes |-> quotes]

Texts ==
  {Plain("absent"), Plain("empty"), Plain("blank"), Said(FALSE, FALSE, {}),
   Said(TRUE, FALSE, {}), Said(FALSE, TRUE, {}), Said(FALSE, TRUE, {p1}),
   Said(FALSE, TRUE, {p2}), Said(FALSE, TRUE, {p1, p2})}

AnyAnswer ==
  {[kind |-> k, summary |-> s, public |-> t, private |-> n, risks |-> r] :
     k \in Kinds, s \in {"empty", "text"}, t \in Texts, n \in {"absent", "text"},
     r \in {{}, {"other"}}}

PublicAnswers ==
  {a \in AnyAnswer : a.kind = "public_message" /\ a.summary = "text"
                       /\ a.private = "absent" /\ a.risks = {}}
=============================================================================
