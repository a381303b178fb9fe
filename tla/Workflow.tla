------------------------------ MODULE Workflow ------------------------------
(***************************************************************************)
(* RunCustomerSupportWorkflow: one customer turn, from the state its request *)
(* committed to the rows its run leaves behind.                             *)
(*                                                                         *)
(* The run loads the catalog, goes through the nodes of the graph (triage,   *)
(* policy gate, proposal, validation), and writes the run, its decisions,    *)
(* its audit record and at most one outbound row in the transaction of the   *)
(* request, which commits after it.  Connector and provider may answer in    *)
(* any of the ways the code tells apart, and the request may die anywhere.   *)
(* Turns do not share anything here; Ingress and Outbound model what does.   *)
(* handle runs the workflow for customer turns only, so the branch of        *)
(* should_invoke for other messages does not occur.                          *)
(***************************************************************************)
EXTENDS Policy

CONSTANTS
  HoldSets,    (* the holds the stored state of the conversation may record  *)
  SignalSets,  (* the signals the words of the customer may raise            *)
  Shelves,     (* what the store may answer: sets of listings                *)
  Answers      (* proposals the model may make                               *)

ASSUME WorkflowAssumption ==
  /\ HoldSets \subseteq SUBSET Holds
  /\ SignalSets \subseteq SUBSET Signals
  /\ Shelves \subseteq SUBSET Listing
  /\ Answers \subseteq Proposal

Connectors == {"mock", "store_api"}
Providers  == {"fake", "openrouter", "no_key", "no_package"}

VARIABLES
  pc,         (* the step the run has reached                                *)
  mode,       (* settings.automation_mode                                    *)
  connector,  (* settings.catalog_connector_mode                             *)
  provider,   (* settings.model_provider, its key and its package            *)
  holds,      (* the conversation state the request passes to the run        *)
  words,      (* the signals in the text of the message                      *)
  context,    (* CatalogContext: products and risk signals                   *)
  signals,    (* TriageResult.risk_signals                                   *)
  proposal,   (* agent_proposal                                              *)
  policies,   (* the policy decisions made: stage |-> rules                  *)
  decision,   (* workflow_decision                                           *)
  session,    (* rows the open transaction has written                       *)
  committed,  (* rows of this turn in the database                           *)
  shelf,      (* history: what the store answered                            *)
  asked,      (* history: the methods the provider was called by             *)
  shown       (* history: the prices it was shown                            *)

settings == <<mode, connector, provider, holds, words>>
graph    == <<signals, proposal, policies, decision>>
history  == <<shelf, asked, shown>>
vars     == <<pc, settings, context, graph, session, committed, history>>

Methods  == {"json_schema", "function_calling"}

Locations == {"catalog", "triage", "gate", "propose", "json_schema",
              "function_calling", "validate", "record", "commit", "done", "raised",
              "dead"}
Ended     == {"done", "raised", "dead"}

NoContext  == [products |-> {}, risks |-> {}]
NoDecision == [status |-> "none"]
NoRow      == [kind |-> "no row"]

(* Rows one turn may leave: the catalog snapshot, the run with its status, its *)
(* policy decisions, the outbound row and the audit record.                  *)
NoRows == [snapshot |-> FALSE, status |-> "none", policies |-> {}, outbound |-> NoRow,
           audit |-> "none"]

Stage(s, rules) == [stage |-> s, rules |-> rules]
-----------------------------------------------------------------------------
Init ==
  /\ pc        = "catalog"
  /\ mode      \in Modes
  /\ connector \in Connectors
  /\ provider  \in Providers
  /\ holds     \in HoldSets
  /\ words     \in SignalSets
  /\ context   = NoContext
  /\ signals   = {}
  /\ proposal  = NoProposal
  /\ policies  = {}
  /\ decision  = NoDecision
  /\ session   = NoRows
  /\ committed = NoRows
  /\ shelf     = {}
  /\ asked     = {}
  /\ shown     = {}

(* The request ends by an error: its open transaction is rolled back.          *)
Escape(to) ==
  /\ pc' = to
  /\ session' = NoRows
  /\ UNCHANGED <<settings, context, graph, committed, history>>
-----------------------------------------------------------------------------
(***************************************************************************)
(* Catalog.                                                                 *)
(***************************************************************************)
Snapshot(l) == IF connector = "mock" THEN MockSnapshot(l) ELSE StoreApiSnapshot(l)

(* search, and the snapshot row; products that match nothing are a risk.       *)
Loaded(listings, risks) ==
  /\ shelf' = listings
  /\ context' = [products |-> {Snapshot(l) : l \in listings}, risks |-> risks]
  /\ session' = [session EXCEPT !.snapshot = TRUE]
  /\ pc' = "triage"
  /\ UNCHANGED <<settings, graph, committed, asked, shown>>

LoadCatalogContext ==
  /\ pc = "catalog"
  /\ \E listings \in Shelves :
       /\ \A l \in listings : l.price # "malformed"
       /\ Loaded(listings, IF listings = {} THEN {"catalog.no_match"} ELSE {})

(* CatalogContextError: transport, error status, or a body that is no list.    *)
CatalogUnavailable ==
  /\ pc = "catalog"
  /\ connector = "store_api"
  /\ Loaded({}, {"catalog.load_failed"})

(* A price that is no integer is met when the products are mapped, after the    *)
(* try of search: the ValueError is no CatalogContextError.                  *)
CatalogMalformed ==
  /\ pc = "catalog"
  /\ connector = "store_api"
  /\ \E listings \in Shelves : \E l \in listings : l.price = "malformed"
  /\ Escape("raised")
-----------------------------------------------------------------------------
(***************************************************************************)
(* The graph.                                                               *)
(***************************************************************************)
TriageMessage ==
  /\ pc = "triage"
  /\ signals' = words
  /\ pc' = "gate"
  /\ UNCHANGED <<settings, context, proposal, policies, decision, session, committed,
                 history>>

Decision(status, kind, from, content, rules, risks) ==
  [status |-> status, kind |-> kind, from |-> from, content |-> content,
   rules |-> rules, risks |-> risks]

Blocked(rules, risks) ==
  Decision("blocked_by_policy", "none", "draft", Plain("absent"), rules, risks)

Failed(rule) ==
  Decision("failed", "none", "draft", Plain("absent"), {rule}, {"other"})

(* Mutant: the holds of the conversation are left to the executor.             *)
PolicyGateLate ==
  LET rules == PreModelRules(mode, {}, signals)
  IN  /\ pc = "gate"
      /\ policies' = {Stage("pre_model", rules)}
      /\ IF rules # {}
           THEN decision' = Blocked(rules, signals) /\ pc' = "record"
           ELSE UNCHANGED decision /\ pc' = "propose"
      /\ UNCHANGED <<settings, context, signals, proposal, session, committed, history>>

PolicyGate ==
  LET rules == PreModelRules(mode, holds, signals)
  IN  /\ pc = "gate"
      /\ policies' = {Stage("pre_model", rules)}
      /\ IF rules # {}
           THEN decision' = Blocked(rules, signals) /\ pc' = "record"
           ELSE UNCHANGED decision /\ pc' = "propose"
      /\ UNCHANGED <<settings, context, signals, proposal, session, committed, history>>

Proposed(p) ==
  /\ proposal' = p
  /\ pc' = "validate"
  /\ UNCHANGED <<signals, policies, decision>>

ProviderFailed ==
  /\ decision' = Failed("model.proposal_failed")
  /\ pc' = "record"
  /\ UNCHANGED <<signals, proposal, policies>>

(* FakeProposalGenerator.propose                                              *)
FakeProposal ==
  [kind |-> "private_note", summary |-> "text", public |-> Plain("text"),
   private |-> "text", risks |-> context.risks]

(* The adapters that do not call a provider.                                  *)
GenerateProposal ==
  /\ pc = "propose"
  /\ \/ provider = "fake" /\ Proposed(FakeProposal)
     \/ provider \in {"no_key", "no_package"} /\ ProviderFailed
     \/ /\ provider = "openrouter"
        /\ pc' = "json_schema"
        /\ UNCHANGED graph
  /\ UNCHANGED <<settings, context, session, committed, history>>

Ask ==
  /\ asked' = asked \cup {pc}
  /\ shown' = shown \cup PromptPrices(context.products)
  /\ UNCHANGED shelf

(* One structured call answers with a proposal of the schema ...               *)
Answered ==
  /\ pc \in Methods
  /\ \E p \in Answers : Proposed(p)
  /\ Ask
  /\ UNCHANGED <<settings, context, session, committed>>

(* Mutant: after the second method the first one is tried again.              *)
CallFailedRetried ==
  /\ pc \in Methods
  /\ pc' = IF pc = "json_schema" THEN "function_calling" ELSE "json_schema"
  /\ UNCHANGED graph
  /\ Ask
  /\ UNCHANGED <<settings, context, session, committed>>

(* ... or fails as expected: the second method is tried, and the error of that  *)
(* one decides.  An error whose text is empty is taken for no error at all.   *)
CallFailed ==
  /\ pc \in Methods
  /\ \/ pc = "json_schema" /\ pc' = "function_calling" /\ UNCHANGED graph
     \/ pc = "function_calling" /\ ProviderFailed
     \/ pc = "function_calling" /\ Proposed(NoProposal)
  /\ Ask
  /\ UNCHANGED <<settings, context, session, committed>>

(* _final_workflow_decision of a proposal that passed the rules.               *)
NoteContent(p) ==
  CASE Truthy(p.private)                                 -> Plain(p.private)
    [] ~Truthy(p.private) /\ Truthy(p.public.body)       -> p.public
    [] ~Truthy(p.private) /\ ~Truthy(p.public.body)      -> Plain(p.summary)

NoteSource(p) ==
  IF Truthy(p.private) THEN "note" ELSE IF Truthy(p.public.body) THEN "draft"
                                                                  ELSE "summary"

FinalDecision(p) ==
  IF mode = "observe"
    THEN Decision("proposed", "none", "draft", Plain("absent"), {}, p.risks)
  ELSE IF mode = "assist" \/ p.kind # "public_message"
    THEN Decision("queued_action", "private_note", NoteSource(p), NoteContent(p), {}, p.risks)
  ELSE Decision("queued_action", "public_message", "draft", p.public, {}, p.risks)

(* Mutant: a refused draft is dropped.                                        *)
RefusedDecisionDropped(p, rules) ==
  Blocked(rules, IF p = NoProposal THEN {} ELSE p.risks)

(* public_reply_review_note and its decision; without a draft the turn is just  *)
(* blocked.                                                                  *)
RefusedDecision(p, rules) ==
  IF mode = "public_reply" /\ p.kind = "public_message"
    THEN Decision("queued_action", "private_note", "review", Plain("text"), rules,
                  signals \cup p.risks)
    ELSE Blocked(rules, IF p = NoProposal THEN {} ELSE p.risks)

ValidateOutboundAction ==
  LET rules == PostModelRules(mode, proposal, signals, context.products)
  IN  /\ pc = "validate"
      /\ policies' = policies \cup {Stage("post_model", rules)}
      /\ decision' = IF rules # {} THEN RefusedDecision(proposal, rules)
                                   ELSE FinalDecision(proposal)
      /\ pc' = "record"
      /\ UNCHANGED <<settings, context, signals, proposal, session, committed, history>>
-----------------------------------------------------------------------------
(***************************************************************************)
(* Recording.                                                               *)
(***************************************************************************)
(* Mutant: a decision without content is queued like any other.               *)
QueuesEmpty ==
  decision.status = "queued_action" /\ decision.kind # "none"

(* _queue_action, for a decision that queues some content.                    *)
Queues ==
  /\ decision.status = "queued_action"
  /\ Truthy(decision.content.body)
  /\ decision.kind # "none"
  /\ decision.kind = "public_message" => mode = "public_reply"

(* Mutant: the row is stored without the catalog its price was checked against. *)
OutboundRowBare ==
  [kind |-> decision.kind, from |-> decision.from, content |-> decision.content,
   products |-> {}, rules |-> decision.rules, risks |-> decision.risks]

OutboundRow ==
  [kind |-> decision.kind, from |-> decision.from, content |-> decision.content,
   products |-> context.products, rules |-> decision.rules, risks |-> decision.risks]

(* The stage of the decision the audit record points at: post_policy or         *)
(* pre_policy.                                                               *)
TerminalStage ==
  IF \E p \in policies : p.stage = "post_model" THEN "post_model" ELSE "pre_model"

(* Mutant: the outbound row is committed on its own, before the run.           *)
RecordResultEarly ==
  /\ pc = "record"
  /\ session' = [session EXCEPT !.status = decision.status, !.policies = policies,
                   !.audit = TerminalStage]
  /\ committed' = [committed EXCEPT !.outbound = IF Queues THEN OutboundRow ELSE NoRow]
  /\ pc' = "commit"
  /\ UNCHANGED <<settings, context, graph, history>>

(* _record_result                                                             *)
RecordResult ==
  /\ pc = "record"
  /\ session' = [session EXCEPT !.status = decision.status, !.policies = policies,
                   !.outbound = IF Queues THEN OutboundRow ELSE NoRow,
                   !.audit = TerminalStage]
  /\ pc' = "commit"
  /\ UNCHANGED <<settings, context, graph, committed, history>>

(* handle marks the raw event and commits the session.                        *)
Commit ==
  /\ pc = "commit"
  /\ committed' = session
  /\ session' = NoRows
  /\ pc' = "done"
  /\ UNCHANGED <<settings, context, graph, history>>

(* The process dies, or an error no part expects escapes: of a provider, of     *)
(* the checkpointer, of the database.                                        *)
Fail == pc \notin Ended /\ Escape("dead")

Step ==
  \/ LoadCatalogContext
  \/ CatalogUnavailable
  \/ CatalogMalformed
  \/ TriageMessage
  \/ PolicyGate
  \/ GenerateProposal
  \/ Answered
  \/ CallFailed
  \/ ValidateOutboundAction
  \/ RecordResult
  \/ Commit

Next == Step \/ Fail

Spec == Init /\ [][Next]_vars

(* Connector and provider calls end by an answer or a timeout of their client. *)
FairSpec == Spec /\ WF_vars(Step)
-----------------------------------------------------------------------------
(***************************************************************************)
(* Correctness.                                                             *)
(***************************************************************************)
Context == [products : SUBSET Product, risks : SUBSET Risks]

Decisions ==
  [status : {"blocked_by_policy", "failed", "proposed", "queued_action"},
   kind : Kinds, from : {"draft", "note", "summary", "review"}, content : Text,
   rules : SUBSET Rules, risks : SUBSET (Risks \cup Signals)] \cup {NoDecision}

Tables ==
  [snapshot : BOOLEAN,
   status : {"none", "blocked_by_policy", "failed", "proposed", "queued_action"},
   policies : SUBSET [stage : {"pre_model", "post_model"}, rules : SUBSET Rules],
   outbound : Row \cup {NoRow},
   audit : {"none", "pre_model", "post_model"}]

(* Every variable has its type; in particular an outbound row always has some   *)
(* content and is a note or a reply.                                         *)
TypeOK ==
  /\ pc \in Locations
  /\ mode \in Modes /\ connector \in Connectors /\ provider \in Providers
  /\ holds \in SUBSET Holds
  /\ words \in SUBSET Signals /\ signals \in SUBSET Signals
  /\ context \in Context
  /\ proposal \in Proposal \cup {NoProposal}
  /\ policies \in SUBSET [stage : {"pre_model", "post_model"}, rules : SUBSET Rules]
  /\ decision \in Decisions
  /\ session \in Tables /\ committed \in Tables
  /\ shelf \in SUBSET Listing
  /\ asked \in SUBSET Methods
  /\ shown \in SUBSET Prices

(* A reply the customer may see is queued only in mode public_reply, for a turn *)
(* without any sensitive signal, in a conversation without any hold the gate    *)
(* knows, with exactly the text the model proposed and both policies passed,   *)
(* and not if the model itself gave a risk.                                  *)
OnlyApprovedRepliesAreQueued ==
  committed.outbound # NoRow /\ committed.outbound.kind = "public_message" =>
    /\ mode = "public_reply"
    /\ holds = {} /\ words = {}
    /\ proposal # NoProposal /\ proposal.risks = {}
    /\ committed.outbound.content = proposal.public
    /\ committed.policies = {Stage("pre_model", {}), Stage("post_model", {})}

(* The checks the executor repeats on the row and its stored safety context     *)
(* agree with those the workflow made: as long as the mode stays, the executor  *)
(* refuses a queued row for nothing but blank content.                        *)
ExecutorAgrees ==
  committed.outbound # NoRow =>
    StaticReasons(committed.outbound, mode) \subseteq {"content.empty"}

(* A public draft that policy refuses is not lost and not copied: it leaves one *)
(* private note that is written from the review reasons, and that the executor  *)
(* recognises as a request for human review.                                 *)
RefusedDraftBecomesNote ==
  (\E p \in committed.policies : p.stage = "post_model" /\ p.rules \cap PublicRule # {})
    => /\ committed.outbound # NoRow
       /\ committed.outbound.from = "review"
       /\ HumanReviewNote(committed.outbound)

(* A price is shown to the model, or carries a public reply past the price       *)
(* rule, only if a product of the store backs it: with an amount that is no      *)
(* placeholder, in stock and, where the connector knows, for sale.            *)
Backed(price) ==
  \E l \in shelf :
    /\ l.price = "amount" /\ l.inStock
    /\ connector = "store_api" => l.purchasable
    /\ price \in {l.html, l.shown}

StatedPricesAreBacked ==
  /\ \A price \in shown : Backed(price)
  /\ LET row == committed.outbound
     IN  row # NoRow /\ row.kind = "public_message" /\ row.content.priced =>
           \E price \in row.content.quotes : Backed(price)

(* The rows of a turn are committed together or not at all: an outbound row      *)
(* never stands without the run, the decisions and the audit record that        *)
(* explain it, and the audit record points at the last decision made.  A run    *)
(* with status queued_action lacks its outbound row only if it has no text.     *)
TurnCommitsAsAWhole ==
  IF committed.status = "none" THEN committed = NoRows
  ELSE /\ committed.snapshot
       /\ committed.policies = policies
       /\ committed.audit \in {p.stage : p \in policies}
       /\ committed.audit = "pre_model" => \A p \in policies : p.stage = "pre_model"
       /\ committed.outbound # NoRow => committed.status = "queued_action"
       /\ committed.status = "queued_action" /\ committed.outbound = NoRow
            => ~Truthy(decision.content.body)

(* Every run comes to an end.                                                *)
TurnEnds == <>(pc \in Ended)

(* What ingress and outbox may rely on is said by Turn.                       *)
Promise == INSTANCE Turn WITH
  blocked   <- PreModelRules(mode, holds, words) # {},
  sensitive <- words # {},
  asked     <- asked # {},
  drafted   <- proposal # NoProposal,
  phase     <- IF committed.status # "none" THEN "recorded"
               ELSE IF pc \in {"raised", "dead"} THEN "lost" ELSE "open",
  effect    <- IF committed.outbound = NoRow THEN "none" ELSE committed.outbound.kind

ImplementsTurn == Promise!Spec

(* policy.py: exact prices may be mentioned only when the current catalog        *)
(* snapshot says the product price is visible, current and safe to quote.     *)
OnlySafePricesQuoted ==
  LET row == committed.outbound
  IN  row # NoRow /\ row.kind = "public_message" =>
        row.content.quotes \subseteq MentionablePrices(row.products)
=============================================================================
