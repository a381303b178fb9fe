--------------------------- MODULE WorkflowProofs ---------------------------
(***************************************************************************)
(* Proofs about Workflow, for every state of the conversation, whatever the   *)
(* store holds and whatever the model answers.                               *)
(***************************************************************************)
EXTENDS Workflow, TLAPS

USE DEF vars, settings, graph, history

LEMMA StepCases ==
  ASSUME NEW Goal,
         LoadCatalogContext => Goal, CatalogUnavailable => Goal, CatalogMalformed => Goal,
         TriageMessage => Goal, PolicyGate => Goal, GenerateProposal => Goal,
         Answered => Goal, CallFailed => Goal, ValidateOutboundAction => Goal,
         RecordResult => Goal, Commit => Goal, Fail => Goal, UNCHANGED vars => Goal,
         [Next]_vars
  PROVE  Goal
BY DEF Next, Step

(* The steps of the graph leave the settings of the turn alone.                *)
LEMMA SettingsStay == [Next]_vars => UNCHANGED <<mode, holds, words>>
BY DEF Next, Step, LoadCatalogContext, CatalogUnavailable, CatalogMalformed, Loaded, Escape,
       TriageMessage, PolicyGate, GenerateProposal, Answered, CallFailed,
       ValidateOutboundAction, RecordResult, Commit, Fail

(***************************************************************************)
(* What a run has in its session and in the database follows from its pc.    *)
(***************************************************************************)
(* The rows of a turn that has been decided.                                  *)
RowsOfTurn ==
  [snapshot |-> TRUE, status |-> decision.status, policies |-> policies,
   outbound |-> IF Queues THEN OutboundRow ELSE NoRow, audit |-> TerminalStage]

InGraph == {"triage", "gate", "propose", "json_schema", "function_calling", "validate",
            "record"}

SessionInv ==
  /\ pc \in InGraph => session = [NoRows EXCEPT !.snapshot = TRUE]
  /\ pc = "catalog" => session = NoRows
  /\ pc = "commit" => session = RowsOfTurn
  /\ committed = IF pc = "done" THEN RowsOfTurn ELSE NoRows

LEMMA SessionFollows == Spec => []SessionInv
<1> USE DEF SessionInv, InGraph, NoRows, RowsOfTurn
<1>1. Init => SessionInv
  BY DEF Init
<1>2. SessionInv /\ [Next]_vars => SessionInv'
  <2> SUFFICES ASSUME SessionInv, [Next]_vars  PROVE SessionInv'
    OBVIOUS
  <2>1. LoadCatalogContext => SessionInv'
    BY DEF LoadCatalogContext, Loaded
  <2>2. CatalogUnavailable => SessionInv'
    BY DEF CatalogUnavailable, Loaded
  <2>3. CatalogMalformed => SessionInv'
    BY DEF CatalogMalformed, Escape
  <2>4. TriageMessage => SessionInv'
    BY DEF TriageMessage
  <2>5. PolicyGate => SessionInv'
    BY DEF PolicyGate
  <2>6. GenerateProposal => SessionInv'
    BY DEF GenerateProposal, Proposed, ProviderFailed
  <2>7. Answered => SessionInv'
    BY DEF Answered, Proposed, Ask, Methods
  <2>8. CallFailed => SessionInv'
    BY DEF CallFailed, Proposed, ProviderFailed, Ask, Methods
  <2>9. ValidateOutboundAction => SessionInv'
    BY DEF ValidateOutboundAction
  <2>10. RecordResult => SessionInv'
    BY DEF RecordResult, Queues, OutboundRow, TerminalStage
  <2>11. Commit => SessionInv'
    BY DEF Commit, Queues, OutboundRow, TerminalStage
  <2>12. Fail => SessionInv'
    BY DEF Fail, Escape, Ended
  <2>13. UNCHANGED vars => SessionInv'
    BY DEF Queues, OutboundRow, TerminalStage
  <2> HIDE DEF SessionInv
  <2> QED BY <2>1, <2>2, <2>3, <2>4, <2>5, <2>6, <2>7, <2>8, <2>9, <2>10, <2>11, <2>12,
             <2>13, StepCases
<1> QED BY <1>1, <1>2, PTL DEF Spec

(***************************************************************************)
(* Types.                                                                   *)
(***************************************************************************)
LEMMA PlainIsText == \A body \in Bodies : Plain(body) \in Text
BY DEF Plain, Text

(* What the connectors make of a listing is a product the rules can read.       *)
LEMMA SnapshotIsProduct == \A l \in Listing : Snapshot(l) \in Product
BY DEF Snapshot, MockSnapshot, StoreApiSnapshot, Available, Listing, Product

LEMMA NoDecisionFits == NoDecision \in Decisions /\ NoRows \in Tables
BY DEF NoDecision, Decisions, NoRows, Tables

LEMMA FakeIsProposal == TypeOK => FakeProposal \in Proposal
<1> SUFFICES ASSUME TypeOK  PROVE FakeProposal \in Proposal
  OBVIOUS
<1>1. Plain("text") \in Text
  BY PlainIsText DEF Bodies
<1>2. context.risks \in SUBSET Risks
  BY DEF TypeOK, Context
<1> QED BY <1>1, <1>2 DEF FakeProposal, Proposal, Kinds, Bodies

LEMMA NoteIsText == \A p \in Proposal : NoteContent(p) \in Text
BY PlainIsText DEF NoteContent, Proposal, Text, Bodies

(* Every decision of the policy is one the tables can hold.                    *)
LEMMA DecisionsFit ==
  ASSUME TypeOK
  PROVE  /\ \A p \in Proposal : FinalDecision(p) \in Decisions \ {NoDecision}
         /\ \A p \in Proposal \cup {NoProposal}, rules \in SUBSET Rules :
              RefusedDecision(p, rules) \in Decisions \ {NoDecision}
         /\ \A rules \in SUBSET Rules : Blocked(rules, signals) \in Decisions \ {NoDecision}
         /\ Failed("model.proposal_failed") \in Decisions \ {NoDecision}
<1> DEFINE Made == Decisions \ {NoDecision}
<1>1. \A s \in {"blocked_by_policy", "failed", "proposed", "queued_action"}, k \in Kinds,
         f \in {"draft", "note", "summary", "review"}, c \in Text, r \in SUBSET Rules,
         x \in SUBSET (Risks \cup Signals) : Decision(s, k, f, c, r, x) \in Made
  BY DEF Decision, Decisions, NoDecision
<1>2. Plain("absent") \in Text /\ Plain("text") \in Text
  BY PlainIsText DEF Bodies
<1>3. signals \in SUBSET Signals /\ mode \in Modes
  BY DEF TypeOK
<1>4. \A p \in Proposal : p.risks \in SUBSET Risks /\ p.public \in Text
  BY DEF Proposal
<1>5. NoProposal.kind # "public_message"
  BY DEF NoProposal
<1>6. {"none", "private_note", "public_message"} = Kinds
  BY DEF Kinds
<1> HIDE DEF Made
<1>7. ASSUME NEW p \in Proposal  PROVE FinalDecision(p) \in Made
  <2>1. p.risks \in SUBSET (Risks \cup Signals) /\ p.public \in Text
    BY <1>4
  <2>2. NoteContent(p) \in Text /\ NoteSource(p) \in {"draft", "note", "summary", "review"}
    BY NoteIsText DEF NoteSource
  <2> QED BY <1>1, <1>2, <1>6, <2>1, <2>2 DEF FinalDecision
<1>8. ASSUME NEW rules \in SUBSET Rules, NEW risks \in SUBSET (Risks \cup Signals)
      PROVE  Blocked(rules, risks) \in Made
  BY <1>1, <1>2, <1>6 DEF Blocked
<1>9. ASSUME NEW p \in Proposal \cup {NoProposal}, NEW rules \in SUBSET Rules
      PROVE  RefusedDecision(p, rules) \in Made
  <2>1. CASE p = NoProposal
    BY <2>1, <1>5, <1>8 DEF RefusedDecision
  <2>2. CASE p \in Proposal
    <3>1. p.risks \in SUBSET (Risks \cup Signals)
          /\ signals \cup p.risks \in SUBSET (Risks \cup Signals)
      BY <2>2, <1>3, <1>4
    <3>2. Decision("queued_action", "private_note", "review", Plain("text"), rules,
                   signals \cup p.risks) \in Made
      BY <1>1, <1>2, <1>6, <3>1
    <3> QED BY <3>1, <3>2, <1>8 DEF RefusedDecision
  <2> QED BY <2>1, <2>2
<1>10. Failed("model.proposal_failed") \in Made
  <2>1. {"model.proposal_failed"} \in SUBSET Rules /\ {"other"} \in SUBSET (Risks \cup Signals)
    BY DEF Rules, Risks
  <2> QED BY <1>1, <1>2, <1>6, <2>1 DEF Failed
<1> QED BY <1>3, <1>7, <1>8, <1>9, <1>10 DEF Made

(* A row is queued with the content and the context of its decision.            *)
LEMMA RowFits == TypeOK => (IF Queues THEN OutboundRow ELSE NoRow) \in Row \cup {NoRow}
<1> SUFFICES ASSUME TypeOK, Queues  PROVE OutboundRow \in Row
  OBVIOUS
<1>1. decision \in Decisions /\ decision.status = "queued_action"
  BY DEF TypeOK, Queues
<1>2. /\ decision.kind \in Kinds /\ decision.from \in {"draft", "note", "summary", "review"}
      /\ decision.content \in Text /\ decision.rules \in SUBSET Rules
      /\ decision.risks \in SUBSET (Risks \cup Signals)
  BY <1>1 DEF Decisions, NoDecision
<1>3. context.products \in SUBSET Product
  BY DEF TypeOK, Context
<1> QED BY <1>2, <1>3 DEF OutboundRow, Queues, Row, Kinds

LEMMA RulesAreRules ==
  /\ \A m, h, s : PreModelRules(m, h, s) \in SUBSET Rules
  /\ \A m, p, s, x : PostModelRules(m, p, s, x) \in SUBSET Rules
BY DEF PreModelRules, PostModelRules, Rules, PostModelRule

(* THEOREM TypeCorrect: the variables of a run keep their types, so a row it     *)
(* queues is a note or a reply with some content and a context the executor    *)
(* can read.                                                                *)
THEOREM TypeCorrect == Spec => []TypeOK
<1>1. Init => TypeOK
  <2> SUFFICES ASSUME Init  PROVE TypeOK
    OBVIOUS
  <2>1. NoContext \in Context
    BY DEF NoContext, Context
  <2> QED BY <2>1, WorkflowAssumption, NoDecisionFits DEF Init, TypeOK, Locations
<1>2. TypeOK /\ [Next]_vars => TypeOK'
  <2> SUFFICES ASSUME TypeOK, [Next]_vars  PROVE TypeOK'
    OBVIOUS
  <2>0. ASSUME NEW listings \in Shelves, NEW risks \in SUBSET Risks,
               Loaded(listings, risks)
        PROVE  TypeOK'
    <3>1. listings \in SUBSET Listing
      BY WorkflowAssumption
    <3>2. context' \in Context
      BY <2>0, <3>1, SnapshotIsProduct DEF Loaded, Context
    <3>3. session' \in Tables
      BY <2>0 DEF Loaded, TypeOK, Tables
    <3> QED BY <2>0, <3>1, <3>2, <3>3 DEF Loaded, TypeOK, Locations
  <2>1. LoadCatalogContext => TypeOK'
    BY <2>0 DEF LoadCatalogContext, Risks
  <2>2. CatalogUnavailable => TypeOK'
    <3> SUFFICES ASSUME CatalogUnavailable  PROVE TypeOK'
      OBVIOUS
    <3>1. context' \in Context
      BY DEF CatalogUnavailable, Loaded, Context, Risks
    <3>2. session' \in Tables
      BY DEF CatalogUnavailable, Loaded, TypeOK, Tables
    <3> QED BY <3>1, <3>2 DEF CatalogUnavailable, Loaded, TypeOK, Locations
  <2>3. CatalogMalformed => TypeOK'
    BY NoDecisionFits DEF CatalogMalformed, Escape, TypeOK, Locations
  <2>4. TriageMessage => TypeOK'
    BY DEF TriageMessage, TypeOK, Locations
  <2>5. PolicyGate => TypeOK'
    <3> SUFFICES ASSUME PolicyGate  PROVE TypeOK'
      OBVIOUS
    <3> DEFINE rules == PreModelRules(mode, holds, signals)
    <3>1. rules \in SUBSET Rules
      BY RulesAreRules
    <3>2. policies' \in SUBSET [stage : {"pre_model", "post_model"}, rules : SUBSET Rules]
      BY <3>1 DEF PolicyGate, Stage
    <3>3. decision' \in Decisions
      BY <3>1, DecisionsFit DEF PolicyGate, TypeOK
    <3> QED BY <3>2, <3>3 DEF PolicyGate, TypeOK, Locations
  <2>6. GenerateProposal => TypeOK'
    <3> SUFFICES ASSUME GenerateProposal  PROVE TypeOK'
      OBVIOUS
    <3>1. proposal' \in Proposal \cup {NoProposal}
      BY FakeIsProposal DEF GenerateProposal, Proposed, ProviderFailed, TypeOK
    <3>2. decision' \in Decisions
      BY DecisionsFit DEF GenerateProposal, Proposed, ProviderFailed, TypeOK
    <3> QED BY <3>1, <3>2 DEF GenerateProposal, Proposed, ProviderFailed, TypeOK, Locations
  <2>7. ASSUME pc \in Methods, Ask
        PROVE  asked' \in SUBSET Methods /\ shown' \in SUBSET Prices /\ shelf' = shelf
    <3>1. PromptPrices(context.products) \in SUBSET Prices
      BY DEF TypeOK, Context, Product, PromptPrices
    <3> QED BY <2>7, <3>1 DEF Ask, TypeOK
  <2>8. Answered => TypeOK'
    <3> SUFFICES ASSUME Answered  PROVE TypeOK'
      OBVIOUS
    <3>1. proposal' \in Proposal
      BY WorkflowAssumption DEF Answered, Proposed
    <3> QED BY <3>1, <2>7 DEF Answered, Proposed, TypeOK, Locations
  <2>9. CallFailed => TypeOK'
    <3> SUFFICES ASSUME CallFailed  PROVE TypeOK'
      OBVIOUS
    <3>1. decision' \in Decisions
      BY DecisionsFit DEF CallFailed, Proposed, ProviderFailed, TypeOK
    <3> QED BY <3>1, <2>7 DEF CallFailed, Proposed, ProviderFailed, TypeOK, Locations
  <2>10. ValidateOutboundAction => TypeOK'
    <3> SUFFICES ASSUME ValidateOutboundAction  PROVE TypeOK'
      OBVIOUS
    <3> DEFINE rules == PostModelRules(mode, proposal, signals, context.products)
    <3>1. rules \in SUBSET Rules
      BY RulesAreRules
    <3>2. policies' \in SUBSET [stage : {"pre_model", "post_model"}, rules : SUBSET Rules]
      BY <3>1 DEF ValidateOutboundAction, Stage, TypeOK
    <3>3. rules = {} => proposal \in Proposal
      BY DEF PostModelRules, PostModelRule, TypeOK
    <3>4. decision' \in Decisions
      BY <3>1, <3>3, DecisionsFit DEF ValidateOutboundAction, TypeOK
    <3> QED BY <3>2, <3>4 DEF ValidateOutboundAction, TypeOK, Locations
  <2>11. RecordResult => TypeOK'
    <3> SUFFICES ASSUME RecordResult  PROVE TypeOK'
      OBVIOUS
    <3>1. (IF Queues THEN OutboundRow ELSE NoRow) \in Row \cup {NoRow}
      BY RowFits
    <3>2. decision.status \in {"none", "blocked_by_policy", "failed", "proposed",
                               "queued_action"}
      BY DEF TypeOK, Decisions, NoDecision
    <3>3. TerminalStage \in {"none", "pre_model", "post_model"}
      BY DEF TerminalStage
    <3>4. session' \in Tables
      BY <3>1, <3>2, <3>3 DEF RecordResult, TypeOK, Tables
    <3> QED BY <3>4 DEF RecordResult, TypeOK, Locations
  <2>12. Commit => TypeOK'
    BY NoDecisionFits DEF Commit, TypeOK, Locations
  <2>13. Fail => TypeOK'
    BY NoDecisionFits DEF Fail, Escape, TypeOK, Locations
  <2>14. UNCHANGED vars => TypeOK'
    BY DEF TypeOK
  <2> HIDE DEF TypeOK
  <2> QED BY <2>1, <2>2, <2>3, <2>4, <2>5, <2>6, <2>8, <2>9, <2>10, <2>11, <2>12, <2>13,
             <2>14, StepCases
<1> QED BY <1>1, <1>2, PTL DEF Spec

(***************************************************************************)
(* What the graph knows at each of its nodes.                                *)
(***************************************************************************)
BeforeGate  == {"catalog", "triage", "gate"}
AfterGate   == {"propose", "json_schema", "function_calling", "validate"}
AfterGraph  == {"record", "commit", "done"}
Passed      == Stage("pre_model", {})

(* A turn without a decision: before the gate nothing was decided, behind it    *)
(* the gate let the turn pass; a draft is there from validation on.           *)
Undecided ==
  /\ pc \in BeforeGate => policies = {} /\ asked = {}
  /\ pc \in AfterGate => policies = {Passed}
  /\ pc \in BeforeGate \cup AfterGate => decision = NoDecision
  /\ pc \in BeforeGate \cup (AfterGate \ {"validate"}) => proposal = NoProposal
  /\ pc \in (AfterGate \cup AfterGraph \cup {"gate"}) => signals = words
  /\ asked # {} \/ proposal # NoProposal \/ pc \in AfterGate
       => PreModelRules(mode, holds, words) = {}

(* A decided turn: every decision has a policy behind it, and a queued one the   *)
(* draft and the answers of the rules that allow its kind.                    *)
ReplyPassed ==
  /\ mode = "public_reply"
  /\ proposal # NoProposal
  /\ decision.content = proposal.public
  /\ PreModelRules(mode, holds, words) = {}
  /\ PostModelRules(mode, proposal, words, context.products) = {}
  /\ proposal.kind = "public_message"
  /\ policies = {Passed, Stage("post_model", {})}

NotePassed == mode \in {"assist", "public_reply"} /\ proposal # NoProposal

Reviewed(rules) ==
  /\ decision.kind = "private_note" /\ decision.status = "queued_action"
  /\ decision.from = "review" /\ decision.content = Plain("text")
  /\ decision.rules = rules

Decided ==
  pc \in AfterGraph =>
    /\ policies # {}
    /\ \A p \in policies : p.stage \in {"pre_model", "post_model"}
    /\ decision # NoDecision
    /\ decision.status = "queued_action" => decision.kind # "none"
    /\ decision.kind = "public_message" => ReplyPassed
    /\ decision.kind = "private_note" => NotePassed
    /\ \A p \in policies :
         p.stage = "post_model" /\ p.rules \cap PublicRule # {} => Reviewed(p.rules)

GraphInv == Undecided /\ Decided

(* The two refusals of the policy queue nothing.                               *)
QueuesNothing(d) == d # NoDecision /\ d.kind = "none" /\ d.status # "queued_action"

LEMMA RefusalsQueueNothing ==
  /\ \A rules, risks : QueuesNothing(Blocked(rules, risks))
  /\ QueuesNothing(Failed("model.proposal_failed"))
BY DEF QueuesNothing, Blocked, Failed, Decision, NoDecision

LEMMA GateDecides ==
  ASSUME TypeOK, GraphInv, PolicyGate
  PROVE  GraphInv'
<1> DEFINE rules == PreModelRules(mode, holds, signals)
<1>1. policies' = {Stage("pre_model", rules)} /\ signals = words
  BY DEF PolicyGate, GraphInv, Undecided
<1>2. CASE rules = {}
  BY <1>1, <1>2 DEF PolicyGate, GraphInv, Undecided, Decided, BeforeGate, AfterGate,
                   AfterGraph, Passed
<1>3. CASE rules # {}
  <2>1. decision' = Blocked(rules, signals) /\ pc' = "record"
    BY <1>3 DEF PolicyGate
  <2>2. Undecided'
    BY <2>1, <1>1 DEF PolicyGate, GraphInv, Undecided, BeforeGate, AfterGate, AfterGraph
  <2>3. \A p \in policies' : p.stage = "pre_model"
    BY <1>1 DEF Stage
  <2>4. QueuesNothing(decision')
    BY <2>1, RefusalsQueueNothing
  <2> QED BY <2>2, <2>3, <2>4, <1>1 DEF GraphInv, Decided, QueuesNothing
<1> QED BY <1>2, <1>3

LEMMA ValidationDecides ==
  ASSUME TypeOK, GraphInv, ValidateOutboundAction
  PROVE  GraphInv'
<1> DEFINE rules == PostModelRules(mode, proposal, signals, context.products)
<1>1. /\ policies = {Passed} /\ signals = words
      /\ PreModelRules(mode, holds, words) = {}
      /\ policies' = {Passed, Stage("post_model", rules)}
      /\ pc' = "record"
  BY DEF ValidateOutboundAction, GraphInv, Undecided, AfterGate
<1>2. UNCHANGED <<mode, holds, words, context, signals, proposal, asked>>
  BY DEF ValidateOutboundAction
<1>3. Undecided'
  BY <1>1, <1>2 DEF Undecided, BeforeGate, AfterGate, AfterGraph, GraphInv
<1>4. \A p \in policies' : \/ p.stage = "pre_model"
                           \/ p.stage = "post_model" /\ p.rules = rules
  BY <1>1 DEF Passed, Stage
<1>5. CASE rules = {}
  <2>1. decision' = FinalDecision(proposal)
    BY <1>5 DEF ValidateOutboundAction
  <2>2. proposal # NoProposal
    BY <1>5 DEF PostModelRules, PostModelRule
  <2>3. decision' # NoDecision
    BY <2>1 DEF FinalDecision, Decision, NoDecision
  <2>4. decision'.kind = "private_note" => NotePassed'
    BY <2>1, <2>2, <1>2 DEF FinalDecision, Decision, NotePassed, TypeOK, Modes
  <2>6. decision'.status = "queued_action" => decision'.kind # "none"
    BY <2>1 DEF FinalDecision, Decision
  <2>5. decision'.kind = "public_message" => ReplyPassed'
    <3> SUFFICES ASSUME decision'.kind = "public_message"  PROVE ReplyPassed'
      OBVIOUS
    <3>1. /\ mode = "public_reply" /\ proposal.kind = "public_message"
          /\ decision'.content = proposal.public
      BY <2>1 DEF FinalDecision, Decision, TypeOK, Modes
    <3> QED BY <3>1, <2>2, <1>1, <1>2, <1>5 DEF ReplyPassed, Passed
  <2> QED BY <1>1, <1>3, <1>4, <1>5, <2>3, <2>4, <2>5, <2>6 DEF GraphInv, Decided
<1>6. CASE rules # {}
  <2>1. decision' = RefusedDecision(proposal, rules)
    BY <1>6 DEF ValidateOutboundAction
  <2>2. CASE mode = "public_reply" /\ proposal.kind = "public_message"
    <3>1. proposal # NoProposal
      <4>1. NoProposal.kind = "no proposal"
        BY DEF NoProposal
      <4> QED BY <4>1, <2>2
    <3>2. decision' = Decision("queued_action", "private_note", "review", Plain("text"),
                               rules, signals \cup proposal.risks)
      BY <2>1, <2>2 DEF RefusedDecision
    <3>3. NotePassed' /\ decision' # NoDecision
      BY <3>1, <3>2, <2>2, <1>2 DEF NotePassed, Decision, NoDecision
    <3>4. \A r : r = rules => Reviewed(r)'
      BY <3>2 DEF Reviewed, Decision
    <3>5. decision'.kind = "private_note"
      BY <3>2 DEF Decision
    <3>6. \A p \in policies' : p.stage = "post_model" => Reviewed(p.rules)'
      BY <3>4, <1>4
    <3> HIDE DEF rules
    <3> QED BY <3>3, <3>5, <3>6, <1>1, <1>3, <1>4 DEF GraphInv, Decided
  <2>3. CASE ~(mode = "public_reply" /\ proposal.kind = "public_message")
    <3>1. rules \cap PublicRule = {}
      BY <2>3 DEF PostModelRules, PublicRule
    <3>2. QueuesNothing(decision')
      BY <2>1, <2>3, RefusalsQueueNothing DEF RefusedDecision
    <3> QED BY <3>1, <3>2, <1>1, <1>3, <1>4 DEF GraphInv, Decided, QueuesNothing
  <2> QED BY <2>2, <2>3
<1> QED BY <1>5, <1>6

LEMMA ProviderFailureDecides ==
  ASSUME GraphInv, pc \in AfterGate \ {"validate"}, ProviderFailed,
         UNCHANGED <<mode, holds, words, context>>
  PROVE  GraphInv'
<1>1. Undecided'
  BY DEF ProviderFailed, GraphInv, Undecided, BeforeGate, AfterGate, AfterGraph
<1>2. QueuesNothing(decision') /\ policies' = {Passed}
  BY RefusalsQueueNothing DEF ProviderFailed, GraphInv, Undecided, AfterGate
<1> QED BY <1>1, <1>2 DEF GraphInv, Decided, Passed, Stage, QueuesNothing

LEMMA ProposalWaitsForValidation ==
  ASSUME GraphInv, pc \in AfterGate \ {"validate"}, NEW p, Proposed(p),
         UNCHANGED <<mode, holds, words, context>>
  PROVE  GraphInv'
BY DEF Proposed, GraphInv, Undecided, Decided, BeforeGate, AfterGate, AfterGraph, Passed

LEMMA GraphFollows == Spec => []GraphInv
<1>1. Init => GraphInv
  BY DEF Init, GraphInv, Undecided, Decided, BeforeGate, AfterGate, AfterGraph
<1>2. TypeOK /\ GraphInv /\ [Next]_vars => GraphInv'
  <2> SUFFICES ASSUME TypeOK, GraphInv, [Next]_vars  PROVE GraphInv'
    OBVIOUS
  <2>1. LoadCatalogContext => GraphInv'
    BY DEF LoadCatalogContext, Loaded, GraphInv, Undecided, Decided, BeforeGate, AfterGate,
           AfterGraph
  <2>2. CatalogUnavailable => GraphInv'
    BY DEF CatalogUnavailable, Loaded, GraphInv, Undecided, Decided, BeforeGate, AfterGate,
           AfterGraph
  <2>3. CatalogMalformed => GraphInv'
    BY DEF CatalogMalformed, Escape, GraphInv, Undecided, Decided, BeforeGate, AfterGate,
           AfterGraph
  <2>4. TriageMessage => GraphInv'
    BY DEF TriageMessage, GraphInv, Undecided, Decided, BeforeGate, AfterGate, AfterGraph
  <2>5. PolicyGate => GraphInv'
    BY GateDecides
  <2>6. GenerateProposal => GraphInv'
    <3> SUFFICES ASSUME GenerateProposal  PROVE GraphInv'
      OBVIOUS
    <3>1. pc \in AfterGate \ {"validate"} /\ UNCHANGED <<mode, holds, words, context>>
      BY DEF GenerateProposal, AfterGate
    <3>2. CASE pc' = "json_schema" /\ UNCHANGED graph
      BY <3>1, <3>2 DEF GenerateProposal, GraphInv, Undecided, Decided, BeforeGate,
                        AfterGate, AfterGraph
    <3> QED BY <3>1, <3>2, ProviderFailureDecides, ProposalWaitsForValidation
            DEF GenerateProposal
  <2>7. Answered => GraphInv'
    <3> SUFFICES ASSUME Answered  PROVE GraphInv'
      OBVIOUS
    <3>1. pc \in AfterGate \ {"validate"} /\ UNCHANGED <<mode, holds, words, context>>
      BY DEF Answered, Methods, AfterGate
    <3>2. PICK p \in Answers : Proposed(p)
      BY DEF Answered
    <3> QED BY <3>1, <3>2, ProposalWaitsForValidation
  <2>8. CallFailed => GraphInv'
    <3> SUFFICES ASSUME CallFailed  PROVE GraphInv'
      OBVIOUS
    <3>1. pc \in AfterGate \ {"validate"} /\ UNCHANGED <<mode, holds, words, context>>
      BY DEF CallFailed, Methods, AfterGate
    <3>2. CASE pc' = "function_calling" /\ UNCHANGED graph
      BY <3>1, <3>2 DEF CallFailed, GraphInv, Undecided, Decided, BeforeGate,
                        AfterGate, AfterGraph
    <3> QED BY <3>1, <3>2, ProviderFailureDecides, ProposalWaitsForValidation
            DEF CallFailed
  <2>9. ValidateOutboundAction => GraphInv'
    BY ValidationDecides
  <2>10. ASSUME RecordResult \/ Commit \/ UNCHANGED vars  PROVE GraphInv'
    <3>1. UNCHANGED <<settings, context, graph, asked>>
      BY <2>10 DEF RecordResult, Commit
    <3>2. pc' \in AfterGraph <=> pc \in AfterGraph
      BY <2>10 DEF RecordResult, Commit, AfterGraph
    <3>3. pc' = pc \/ pc' \in AfterGraph
      BY <2>10 DEF RecordResult, Commit, AfterGraph
    <3>4. Undecided'
      BY <3>1, <3>2, <3>3 DEF GraphInv, Undecided, BeforeGate, AfterGate, AfterGraph
    <3>5. Decided'
      BY <3>1, <3>2 DEF GraphInv, Decided, ReplyPassed, NotePassed, Reviewed
    <3> QED BY <3>4, <3>5 DEF GraphInv
  <2>11. Fail => GraphInv'
    BY DEF Fail, Escape, GraphInv, Undecided, Decided, BeforeGate, AfterGate, AfterGraph
  <2> QED BY <2>1, <2>2, <2>3, <2>4, <2>5, <2>6, <2>7, <2>8, <2>9, <2>10, <2>11, StepCases
<1> QED BY <1>1, <1>2, TypeCorrect, PTL DEF Spec

(***************************************************************************)
(* Safety of the committed turn.                                             *)
(***************************************************************************)
(* What is in the database of a turn is what its decision says.                *)
LEMMA CommittedIsDecided ==
  ASSUME TypeOK, SessionInv, GraphInv, committed.outbound # NoRow
  PROVE  /\ pc = "done" /\ Queues /\ committed.outbound = OutboundRow
         /\ committed.policies = policies
         /\ committed.outbound.kind = decision.kind
         /\ committed.outbound.content = decision.content
         /\ committed.outbound.products = context.products
<1>1. pc = "done" /\ committed = RowsOfTurn
  BY DEF SessionInv, NoRows
<1>2. Queues /\ committed.outbound = OutboundRow /\ committed.policies = policies
  BY <1>1 DEF RowsOfTurn
<1> QED BY <1>1, <1>2 DEF OutboundRow

LEMMA ReplyIsPassed ==
  ASSUME TypeOK, SessionInv, GraphInv,
         committed.outbound # NoRow, committed.outbound.kind = "public_message"
  PROVE  ReplyPassed
BY CommittedIsDecided DEF GraphInv, Decided, AfterGraph

(* Without a rule against it there is no hold on the conversation in a mode that *)
(* replies, and without one against the draft no signal and no risk.          *)
LEMMA NoRuleNoHold ==
  ASSUME holds \in SUBSET Holds, PreModelRules("public_reply", holds, words) = {}
  PROVE  holds = {}
<1>1. \A h \in Holds : h \notin holds
  BY DEF PreModelRules, PreModelRule, Holds
<1> QED BY <1>1

LEMMA NoRuleNoRisk ==
  ASSUME NEW p, p # NoProposal, p.kind = "public_message", NEW s, NEW products,
         PostModelRules("public_reply", p, s, products) = {}
  PROVE  s = {} /\ p.risks = {} /\ ~p.public.leaks /\ ~PriceRuleBlocks(p.public, products)
<1>1. {"public.no_internal_reasoning", "public.risk_requires_review",
       "public.proposal_risk_requires_review",
       "public.price_requires_mentionable_snapshot"} \subseteq PostModelRule
  BY DEF PostModelRule, PublicRule
<1> QED BY <1>1 DEF PostModelRules

(* THEOREM OnlyApproved: whatever the model answers, a reply is queued only if   *)
(* every rule before and after the model passed it (nodes.py, policy.py).     *)
THEOREM OnlyApproved == Spec => []OnlyApprovedRepliesAreQueued
<1>1. TypeOK /\ SessionInv /\ GraphInv => OnlyApprovedRepliesAreQueued
  <2> SUFFICES ASSUME TypeOK, SessionInv, GraphInv,
                      committed.outbound # NoRow,
                      committed.outbound.kind = "public_message"
               PROVE  /\ mode = "public_reply" /\ holds = {} /\ words = {}
                      /\ proposal # NoProposal /\ proposal.risks = {}
                      /\ committed.outbound.content = proposal.public
                      /\ committed.policies = {Stage("pre_model", {}),
                                               Stage("post_model", {})}
    BY DEF OnlyApprovedRepliesAreQueued
  <2>1. ReplyPassed
    BY ReplyIsPassed
  <2>2. holds = {}
    BY <2>1, NoRuleNoHold DEF ReplyPassed, TypeOK
  <2>3. words = {} /\ proposal.risks = {}
    BY <2>1, NoRuleNoRisk DEF ReplyPassed
  <2> QED BY <2>1, <2>2, <2>3, CommittedIsDecided DEF ReplyPassed, Passed
<1> QED BY <1>1, TypeCorrect, SessionFollows, GraphFollows, PTL

(* THEOREM ExecutorConfirms: the checks of the executor on a row it claims       *)
(* (outbound.py) never contradict those of the workflow that queued it, in the *)
(* same mode, blank content apart.                                           *)
THEOREM ExecutorConfirms == Spec => []ExecutorAgrees
<1>1. TypeOK /\ SessionInv /\ GraphInv => ExecutorAgrees
  <2> SUFFICES ASSUME TypeOK, SessionInv, GraphInv, committed.outbound # NoRow,
                      NEW r \in StaticReasons(committed.outbound, mode),
                      r # "content.empty"
               PROVE  FALSE
    BY DEF ExecutorAgrees
  <2>1. committed.outbound.kind = "public_message"
    BY DEF StaticReasons
  <2>2. ReplyPassed
    BY <2>1, ReplyIsPassed
  <2>3. ~proposal.public.leaks /\ ~PriceRuleBlocks(proposal.public, context.products)
    BY <2>2, NoRuleNoRisk DEF ReplyPassed
  <2>4. /\ committed.outbound.content = proposal.public
        /\ committed.outbound.products = context.products
    BY <2>2, CommittedIsDecided DEF ReplyPassed
  <2> QED BY <2>1, <2>2, <2>3, <2>4 DEF StaticReasons, ReplyPassed
<1> QED BY <1>1, TypeCorrect, SessionFollows, GraphFollows, PTL

(* THEOREM RefusedDraftsAreReviewed: a public draft that a rule refuses always   *)
(* leaves a note the executor treats as a request for review.                 *)
THEOREM RefusedDraftsAreReviewed == Spec => []RefusedDraftBecomesNote
<1>1. TypeOK /\ SessionInv /\ GraphInv => RefusedDraftBecomesNote
  <2> SUFFICES ASSUME TypeOK, SessionInv, GraphInv, NEW p \in committed.policies,
                      p.stage = "post_model", p.rules \cap PublicRule # {}
               PROVE  /\ committed.outbound # NoRow
                      /\ committed.outbound.from = "review"
                      /\ HumanReviewNote(committed.outbound)
    BY DEF RefusedDraftBecomesNote
  <2>1. pc = "done" /\ committed = RowsOfTurn
    BY DEF SessionInv, NoRows
  <2>2. Reviewed(p.rules)
    BY <2>1 DEF GraphInv, Decided, AfterGraph, RowsOfTurn
  <2>3. Queues
    BY <2>2 DEF Reviewed, Queues, Truthy, Plain
  <2>4. committed.outbound = OutboundRow /\ OutboundRow.kind = "private_note"
        /\ OutboundRow.from = "review" /\ OutboundRow.rules = p.rules
    BY <2>1, <2>2, <2>3 DEF RowsOfTurn, OutboundRow, Reviewed
  <2>5. OutboundRow # NoRow
    <3>1. NoRow.kind = "no row"
      BY DEF NoRow
    <3> QED BY <3>1, <2>4
  <2> QED BY <2>4, <2>5 DEF HumanReviewNote, ReviewMarkers
<1> QED BY <1>1, TypeCorrect, SessionFollows, GraphFollows, PTL

(* THEOREM TurnsAreWhole: no run leaves a part of its rows behind, wherever it   *)
(* is interrupted (handle commits once, after _record_result).                *)
THEOREM TurnsAreWhole == Spec => []TurnCommitsAsAWhole
<1>1. TypeOK /\ SessionInv /\ GraphInv => TurnCommitsAsAWhole
  <2> SUFFICES ASSUME TypeOK, SessionInv, GraphInv  PROVE TurnCommitsAsAWhole
    OBVIOUS
  <2>1. CASE pc # "done"
    BY <2>1 DEF SessionInv, NoRows, TurnCommitsAsAWhole
  <2>2. CASE pc = "done"
    <3>1. /\ committed = RowsOfTurn /\ policies # {} /\ decision # NoDecision
          /\ \A p \in policies : p.stage \in {"pre_model", "post_model"}
      BY <2>2 DEF SessionInv, GraphInv, Decided, AfterGraph
    <3>2. decision.status # "none"
      BY <3>1 DEF TypeOK, Decisions
    <3>3. TerminalStage \in {p.stage : p \in policies}
          /\ (TerminalStage = "pre_model" => \A p \in policies : p.stage = "pre_model")
      BY <3>1 DEF TerminalStage
    <3>4. committed.outbound # NoRow => committed.status = "queued_action"
      BY <3>1 DEF RowsOfTurn, Queues
    <3>5. committed.status = "queued_action" /\ committed.outbound = NoRow
            => ~Truthy(decision.content.body)
      <4>1. decision.kind \in {"none", "private_note", "public_message"}
        BY <3>1 DEF TypeOK, Decisions, Kinds
      <4>2. /\ decision.status = "queued_action" => decision.kind # "none"
            /\ decision.kind = "public_message" => mode = "public_reply"
        BY <2>2 DEF GraphInv, Decided, AfterGraph, ReplyPassed
      <4>3. Queues => committed.outbound.kind = decision.kind
        BY <3>1 DEF RowsOfTurn, OutboundRow
      <4>4. committed.outbound = NoRow => ~Queues
        <5>1. NoRow.kind = "no row"
          BY DEF NoRow
        <5> QED BY <4>1, <4>3, <5>1
      <4>5. committed.status = decision.status
        BY <3>1 DEF RowsOfTurn
      <4> QED BY <4>1, <4>2, <4>4, <4>5 DEF Queues
    <3> QED BY <3>1, <3>2, <3>3, <3>4, <3>5 DEF RowsOfTurn, TurnCommitsAsAWhole
  <2> QED BY <2>1, <2>2
<1> QED BY <1>1, TypeCorrect, SessionFollows, GraphFollows, PTL

(***************************************************************************)
(* Prices.                                                                  *)
(***************************************************************************)
(* The catalog of a run is what the connector made of the shelf, and the model   *)
(* is shown nothing before it or beyond it.                                  *)
ShelfInv ==
  /\ context.products = {Snapshot(l) : l \in shelf}
  /\ shown \subseteq PromptPrices(context.products)
  /\ pc = "catalog" => shown = {}

LEMMA ShelfFollows == Spec => []ShelfInv
<1>1. Init => ShelfInv
  BY DEF Init, ShelfInv, NoContext
<1>2. ShelfInv /\ [Next]_vars => ShelfInv'
  <2> SUFFICES ASSUME ShelfInv, [Next]_vars  PROVE ShelfInv'
    OBVIOUS
  <2>0. UNCHANGED connector
    BY DEF Next, Step, LoadCatalogContext, CatalogUnavailable, CatalogMalformed, Loaded,
           Escape, TriageMessage, PolicyGate, GenerateProposal, Answered, CallFailed,
           ValidateOutboundAction, RecordResult, Commit, Fail
  <2>1. ASSUME pc = "catalog", NEW listings, NEW risks, Loaded(listings, risks)
        PROVE  ShelfInv'
    BY <2>0, <2>1 DEF Loaded, Snapshot, ShelfInv
  <2>2. LoadCatalogContext \/ CatalogUnavailable => ShelfInv'
    BY <2>1 DEF LoadCatalogContext, CatalogUnavailable
  <2>3. ASSUME UNCHANGED <<context, shelf>>, pc' # "catalog" \/ pc' = pc,
               shown' = shown \/ (pc # "catalog" /\ Ask)
        PROVE  ShelfInv'
    BY <2>0, <2>3 DEF ShelfInv, Snapshot, Ask
  <2>4. CatalogMalformed \/ TriageMessage \/ PolicyGate \/ GenerateProposal
          \/ ValidateOutboundAction \/ RecordResult \/ Commit \/ Fail \/ UNCHANGED vars
          => ShelfInv'
    BY <2>3 DEF CatalogMalformed, Escape, TriageMessage, PolicyGate, GenerateProposal,
                Proposed, ProviderFailed, ValidateOutboundAction, RecordResult, Commit, Fail
  <2>5. Answered \/ CallFailed => ShelfInv'
    BY <2>3 DEF Answered, CallFailed, Ask, Methods, Proposed, ProviderFailed
  <2> QED BY <2>2, <2>4, <2>5 DEF Next, Step
<1> QED BY <1>1, <1>2, PTL DEF Spec

(* Of no listing the rules would quote is the price a placeholder, ...          *)
LEMMA MentionableIsBacked ==
  ASSUME NEW l, Mentionable(Snapshot(l))
  PROVE  /\ l.price = "amount" /\ l.inStock
         /\ connector = "store_api" => l.purchasable
         /\ Snapshot(l).text \in {l.html, l.shown}
BY DEF Mentionable, Snapshot, MockSnapshot, StoreApiSnapshot, Available

(* ... and the prompt quotes no other.                                        *)
LEMMA PromptAgrees == \A products : PromptPrices(products) = MentionablePrices(products)
BY DEF PromptPrices, MentionablePrices, Mentionable

LEMMA PricesOfShelf ==
  ASSUME ShelfInv, NEW price \in MentionablePrices(context.products)
  PROVE  Backed(price)
<1>1. PICK p \in context.products : Mentionable(p) /\ price = p.text
  BY DEF MentionablePrices
<1>2. PICK l \in shelf : p = Snapshot(l)
  BY DEF ShelfInv
<1> QED BY <1>1, <1>2, MentionableIsBacked DEF Backed

(* THEOREM PricesAreBacked: with either connector, and whatever the store lists,  *)
(* the prompt and a queued reply rest on a price the store backs (policy.py,   *)
(* model.py, store_api.py, mock.py).                                         *)
THEOREM PricesAreBacked == Spec => []StatedPricesAreBacked
<1>1. TypeOK /\ SessionInv /\ GraphInv /\ ShelfInv => StatedPricesAreBacked
  <2> SUFFICES ASSUME TypeOK, SessionInv, GraphInv, ShelfInv  PROVE StatedPricesAreBacked
    OBVIOUS
  <2>1. \A price \in shown : Backed(price)
    BY PromptAgrees, PricesOfShelf DEF ShelfInv
  <2>2. ASSUME committed.outbound # NoRow, committed.outbound.kind = "public_message",
               committed.outbound.content.priced
        PROVE  \E price \in committed.outbound.content.quotes : Backed(price)
    <3>1. ReplyPassed /\ committed.outbound.content = proposal.public
      BY <2>2, ReplyIsPassed, CommittedIsDecided DEF ReplyPassed
    <3>2. ~PriceRuleBlocks(proposal.public, context.products)
      BY <3>1, NoRuleNoRisk DEF ReplyPassed
    <3> QED BY <2>2, <3>1, <3>2, PricesOfShelf DEF PriceRuleBlocks
  <2> QED BY <2>1, <2>2 DEF StatedPricesAreBacked
<1> QED BY <1>1, TypeCorrect, SessionFollows, GraphFollows, ShelfFollows, PTL

(***************************************************************************)
(* Workflow implements Turn.                                                 *)
(***************************************************************************)
BlockedTurn == PreModelRules(mode, holds, words) # {}

Phase == IF committed.status # "none" THEN "recorded"
         ELSE IF pc \in {"raised", "dead"} THEN "lost" ELSE "open"

Effect == IF committed.outbound = NoRow THEN "none" ELSE committed.outbound.kind

(* What Turn sees of a run.                                                   *)
Given   == <<mode, BlockedTurn, words # {}>>
Visible == <<Given, asked # {}, proposal # NoProposal, Phase, Effect>>

USE DEF Promise!vars, Promise!given

LEMMA OpenUntilCommitted ==
  ASSUME SessionInv  PROVE pc \notin Ended => Phase = "open" /\ Effect = "none"
BY DEF SessionInv, Ended, Phase, Effect, NoRows

(* Up to the commit a step consults the model or is not seen.                  *)
LEMMA QuietStep ==
  ASSUME SessionInv, [Next]_vars, UNCHANGED <<committed, asked, proposal>>,
         pc \notin Ended, pc' \notin {"raised", "dead"}
  PROVE  UNCHANGED Visible
<1>1. Phase = "open" /\ Effect = "none" /\ committed.status = "none"
  BY OpenUntilCommitted DEF SessionInv, Ended, NoRows
<1>2. Phase' = "open" /\ Effect' = "none"
  BY <1>1 DEF Phase, Effect
<1>3. UNCHANGED Given
  BY SettingsStay DEF Given, BlockedTurn
<1> QED BY <1>1, <1>2, <1>3 DEF Visible

LEMMA ConsultingStep ==
  ASSUME SessionInv, GraphInv, [Next]_vars, UNCHANGED committed,
         pc \in AfterGate \ {"validate"}, pc' \notin {"raised", "dead"},
         asked' = asked \/ asked' # {}
  PROVE  Promise!Consult
<1>1. Phase = "open" /\ Effect = "none" /\ committed.status = "none"
  BY OpenUntilCommitted DEF SessionInv, AfterGate, Ended, NoRows
<1>2. Phase' = "open" /\ Effect' = "none"
  BY <1>1 DEF Phase, Effect
<1>3. UNCHANGED Given
  BY SettingsStay DEF Given, BlockedTurn
<1>4. ~BlockedTurn /\ proposal = NoProposal
  BY DEF GraphInv, Undecided, BlockedTurn
<1>5. (asked' # {}) \in {asked # {}, TRUE}
      /\ (proposal' # NoProposal) \in {proposal # NoProposal, TRUE}
  BY <1>4
<1> QED BY <1>1, <1>2, <1>3, <1>4, <1>5
        DEF Promise!Consult, Given, BlockedTurn, Phase, Effect

LEMMA LosingStep ==
  ASSUME SessionInv, [Next]_vars, UNCHANGED <<committed, asked, proposal>>,
         pc \notin Ended, pc' \in {"raised", "dead"}
  PROVE  Promise!Lose
<1>1. Phase = "open" /\ Effect = "none" /\ committed.status = "none"
  BY OpenUntilCommitted DEF SessionInv, Ended, NoRows
<1>2. Phase' = "lost" /\ Effect' = "none"
  BY <1>1 DEF Phase, Effect
<1>3. UNCHANGED Given
  BY SettingsStay DEF Given, BlockedTurn
<1> QED BY <1>1, <1>2, <1>3 DEF Promise!Lose, Given, BlockedTurn, Phase, Effect

LEMMA CommittingStep ==
  ASSUME TypeOK, SessionInv, GraphInv, [Next]_vars, Commit
  PROVE  Promise!Record
<1>1. Phase = "open" /\ Effect = "none"
  BY OpenUntilCommitted DEF Commit, Ended
<1>2. committed' = RowsOfTurn /\ UNCHANGED <<mode, words, asked, proposal, decision>>
  BY DEF Commit, SessionInv
<1>3. decision # NoDecision
  BY DEF Commit, GraphInv, Decided, AfterGraph
<1>4. decision.status # "none"
  BY <1>3 DEF TypeOK, Decisions
<1>5. Phase' = "recorded"
  BY <1>2, <1>4 DEF Phase, RowsOfTurn
<1>6. UNCHANGED Given
  BY SettingsStay DEF Given, BlockedTurn
<1>7. Effect' \in {"none", "private_note", "public_message"} /\ Promise!Allowed(Effect')
  <2>1. CASE ~Queues
    BY <1>2, <2>1 DEF Effect, RowsOfTurn, Promise!Allowed
  <2>2. CASE Queues
    <3>1. Effect' = "none" \/ Effect' = decision.kind
      BY <1>2, <2>2 DEF Effect, RowsOfTurn, OutboundRow
    <3>2. decision.kind \in {"private_note", "public_message"}
      BY <1>3, <2>2 DEF Queues, TypeOK, Decisions, Kinds
    <3>3. decision.kind = "private_note" =>
            mode \in {"assist", "public_reply"} /\ proposal # NoProposal
      BY DEF Commit, GraphInv, Decided, AfterGraph, NotePassed
    <3>4. decision.kind = "public_message" => ReplyPassed
      BY DEF Commit, GraphInv, Decided, AfterGraph
    <3>5. ReplyPassed => mode = "public_reply" /\ proposal # NoProposal /\ words = {}
      BY NoRuleNoRisk DEF ReplyPassed
    <3> QED BY <3>1, <3>2, <3>3, <3>4, <3>5 DEF Promise!Allowed
  <2> QED BY <2>1, <2>2
<1> QED BY <1>1, <1>2, <1>5, <1>6, <1>7
        DEF Promise!Record, Given, BlockedTurn, Phase, Effect

(* THEOREM WorkflowImplementsTurn: whatever catalog, model and rules do, a run   *)
(* keeps what Turn promises: one effect at most, recorded with the turn or lost *)
(* with it, and within what mode and words allow.                            *)
THEOREM WorkflowImplementsTurn == Spec => ImplementsTurn
<1>1. Init => Promise!Init
  <2> SUFFICES ASSUME Init  PROVE Promise!Init
    OBVIOUS
  <2>1. committed.status = "none" /\ committed.outbound = NoRow
    BY DEF Init, NoRows
  <2> QED BY <2>1 DEF Init, Promise!Init, Modes
<1>2. TypeOK /\ SessionInv /\ GraphInv /\ [Next]_vars => [Promise!Next]_Visible
  <2> SUFFICES ASSUME TypeOK, SessionInv, GraphInv, [Next]_vars
               PROVE  Promise!Next \/ UNCHANGED Visible
    OBVIOUS
  <2>1. LoadCatalogContext \/ CatalogUnavailable => UNCHANGED Visible
    BY QuietStep DEF LoadCatalogContext, CatalogUnavailable, Loaded, Ended
  <2>2. TriageMessage \/ PolicyGate \/ ValidateOutboundAction \/ RecordResult
          => UNCHANGED Visible
    BY QuietStep DEF TriageMessage, PolicyGate, ValidateOutboundAction, RecordResult, Ended
  <2>3. CatalogMalformed => Promise!Next
    BY LosingStep DEF CatalogMalformed, Escape, Ended, Promise!Next
  <2>4. Fail => Promise!Next
    BY LosingStep DEF Fail, Escape, Promise!Next
  <2>5. GenerateProposal => Promise!Next
    BY ConsultingStep
       DEF GenerateProposal, Proposed, ProviderFailed, AfterGate, Promise!Next
  <2>6. Answered => Promise!Next
    BY ConsultingStep DEF Answered, Proposed, Ask, Methods, AfterGate, Promise!Next
  <2>7. CallFailed => Promise!Next
    BY ConsultingStep
       DEF CallFailed, Proposed, ProviderFailed, Ask, Methods, AfterGate, Promise!Next
  <2>8. Commit => Promise!Next
    BY CommittingStep DEF Promise!Next
  <2>9. UNCHANGED vars => UNCHANGED Visible
    BY DEF Visible, Given, BlockedTurn, Phase, Effect
  <2> QED BY <2>1, <2>2, <2>3, <2>4, <2>5, <2>6, <2>7, <2>8, <2>9, StepCases
<1>3. Visible = <<<<mode, PreModelRules(mode, holds, words) # {}, words # {}>>, asked # {},
                  proposal # NoProposal,
                  IF committed.status # "none" THEN "recorded"
                  ELSE IF pc \in {"raised", "dead"} THEN "lost" ELSE "open",
                  IF committed.outbound = NoRow THEN "none" ELSE committed.outbound.kind>>
  BY DEF Visible, Given, BlockedTurn, Phase, Effect
<1> QED BY <1>1, <1>2, <1>3, TypeCorrect, SessionFollows, GraphFollows, PTL
        DEF Spec, ImplementsTurn, Promise!Spec, Visible, Given, BlockedTurn, Phase, Effect
=============================================================================
