--------------------------- MODULE OutboundProofs ---------------------------
(***************************************************************************)
(* Proofs about Outbound, for every set of messages and workers and every   *)
(* value of the settings.                                                   *)
(***************************************************************************)
EXTENDS Outbound, FiniteSetTheorems, TLAPS

USE OutboundAssumption
-----------------------------------------------------------------------------
(***************************************************************************)
(* Types.                                                                   *)
(***************************************************************************)
(* The history of the holds has its type after every step.                   *)
LEMMA RememberType ==
  Remember => standing' \in [Workers -> SUBSET Hold]
<1> DEFINE F(w) == IF pc'[w] \notin Working THEN {}
                   ELSE InForce(claim[w], publicMode[w])' \cap Recalled(w)
<1>1. \A w \in Workers : F(w) \in SUBSET Hold
  BY DEF InForce, Hold
<1>2. Remember => standing' = [w \in Workers |-> F(w)]
  BY DEF Remember
<1> HIDE DEF F
<1> QED
  BY <1>1, <1>2

(* A worker that holds a row and goes on with it keeps the types.             *)
LEMMA GotoType ==
  ASSUME TypeOK, NEW w \in Workers, NEW to \in Working,
         pc[w] \in {"claiming"} \cup Working, Goto(w, to), UNCHANGED claim
  PROVE  /\ pc' \in [Workers -> Locations]
         /\ claim' \in [Workers -> Messages \cup {NoRow}]
         /\ \A v \in Workers : claim'[v] = NoRow <=> pc'[v] \in {"down", "idle"}
  BY DEF TypeOK, Goto, Locations, Working, BeforeCall, AfterCall

(* The result of a row has its type, and its worker is free again.            *)
LEMMA MarkType ==
  ASSUME TypeOK, NEW w \in Workers, NEW result \in Statuses, NEW wait \in Nat,
         attempts' \in [Messages -> Nat], Mark(w, result, wait)
  PROVE  TypeOK'
<1> USE DEF Mark, Goto, safety, calls
<1>1. /\ status' \in [Messages -> Statuses]
      /\ draft' \in [Messages -> Draft]
      /\ due' \in [Messages -> Nat]
      /\ outbox' \in Seq(Messages)
  BY DEF TypeOK
<1>2. /\ pc' \in [Workers -> Locations]
      /\ claim' \in [Workers -> Messages \cup {NoRow}]
      /\ \A v \in Workers : claim'[v] = NoRow <=> pc'[v] \in {"down", "idle"}
  BY DEF TypeOK, Locations
<1>3. /\ attemptCount' \in [Workers -> Nat]
      /\ publicMode' \in [Workers -> BOOLEAN]
      /\ sawPaused' \in [Workers -> BOOLEAN]
      /\ deaths' \in 0..MaxDeaths
  BY DEF TypeOK
<1>4. standing' \in [Workers -> SUBSET Hold]
  BY RememberType
<1> HIDE DEF Goto
<1> QED
  BY <1>1, <1>2, <1>3, <1>4 DEF TypeOK

(* A check that passes keeps the types.                                      *)
LEMMA PassType ==
  ASSUME TypeOK, NEW w \in Workers, pc[w] \in Working, NEW to \in Working, Pass(w, to)
  PROVE  TypeOK'
<1>1. /\ pc' \in [Workers -> Locations]
      /\ claim' \in [Workers -> Messages \cup {NoRow}]
      /\ \A v \in Workers : claim'[v] = NoRow <=> pc'[v] \in {"down", "idle"}
  BY GotoType DEF Pass
<1>2. standing' \in [Workers -> SUBSET Hold]
  BY RememberType DEF Pass
<1> QED
  BY <1>1, <1>2 DEF TypeOK, Pass, rows, safety, calls

(* The death of a worker keeps the types.                                    *)
LEMMA DieType ==
  ASSUME TypeOK, NEW w \in Workers, Die(w)
  PROVE  TypeOK'
<1>1. /\ pc' \in [Workers -> Locations]
      /\ claim' \in [Workers -> Messages \cup {NoRow}]
      /\ \A v \in Workers : claim'[v] = NoRow <=> pc'[v] \in {"down", "idle"}
  BY DEF TypeOK, Die, Goto, Locations
<1>2. standing' \in [Workers -> SUBSET Hold]
  BY RememberType DEF Die
<1> QED
  BY <1>1, <1>2 DEF TypeOK, Die, rows, safety, calls

(* The steps of the world around the executor keep the types.                *)
LEMMA AroundType ==
  ASSUME TypeOK, Environment \/ Tick
  PROVE  TypeOK'
<1> USE DEF rows, workers, safety, calls
<1>1. ASSUME NEW m \in Messages, CustomerTurn(m) PROVE TypeOK'
  BY <1>1, RememberType DEF CustomerTurn, TypeOK
<1>2. ASSUME NEW m \in Messages, Enqueue(m) PROVE TypeOK'
  <2>1. /\ status' \in [Messages -> Statuses]
        /\ draft' \in [Messages -> Draft]
    BY <1>2 DEF Enqueue, TypeOK, Statuses
  <2>2. due' \in [Messages -> Nat]
    BY <1>2 DEF Enqueue, TypeOK
  <2>3. outbox' \in Seq(Messages)
    BY <1>2 DEF Enqueue, TypeOK
  <2>4. standing' \in [Workers -> SUBSET Hold]
    BY <1>2, RememberType DEF Enqueue
  <2> QED
    BY <1>2, <2>1, <2>2, <2>3, <2>4 DEF Enqueue, TypeOK
<1>3. CASE StoredStateChange
  BY <1>3, RememberType DEF StoredStateChange, TypeOK
<1>4. CASE ChannelChange
  BY <1>4, RememberType DEF ChannelChange, TypeOK
<1>5. CASE Tick
  <2>1. due' \in [Messages -> Nat] /\ humanLeft' \in 0..HumanTtl
    BY <1>5 DEF Tick, TypeOK, Countdown
  <2> QED
    BY <1>5, <2>1, RememberType DEF Tick, TypeOK
<1> QED
  BY <1>1, <1>2, <1>3, <1>4, <1>5 DEF Environment

(* The steps of a worker keep the types.                                     *)
LEMMA WorkerType ==
  ASSUME TypeOK, NEW w \in Workers, WorkerStep(w)
  PROVE  TypeOK'
<1> USE DEF Working, BeforeCall, AfterCall
<1>1. CASE Start(w)
  <2>1. /\ pc' \in [Workers -> Locations]
        /\ \A v \in Workers : claim'[v] = NoRow <=> pc'[v] \in {"down", "idle"}
        /\ publicMode' \in [Workers -> BOOLEAN]
    BY <1>1 DEF Start, TypeOK, Goto, Locations
  <2> QED
    BY <1>1, <2>1, RememberType DEF Start, TypeOK, rows, safety, calls
<1>2. CASE LockNextRow(w)
  <2>1. /\ pc' \in [Workers -> Locations]
        /\ claim' \in [Workers -> Messages \cup {NoRow}]
        /\ \A v \in Workers : claim'[v] = NoRow <=> pc'[v] \in {"down", "idle"}
    BY <1>2 DEF LockNextRow, TypeOK, Goto, Locations, NoRow
  <2>2. attemptCount' \in [Workers -> Nat]
    BY <1>2 DEF LockNextRow, TypeOK
  <2> QED
    BY <1>2, <2>1, <2>2, RememberType DEF LockNextRow, TypeOK, rows, safety, calls
<1>3. CASE CommitClaim(w)
  <2>1. /\ status' \in [Messages -> Statuses]
        /\ due' \in [Messages -> Nat]
    BY <1>3 DEF CommitClaim, TypeOK, Statuses
  <2>2. /\ pc' \in [Workers -> Locations]
        /\ \A v \in Workers : claim'[v] = NoRow <=> pc'[v] \in {"down", "idle"}
    BY <1>3, GotoType DEF CommitClaim
  <2> QED
    BY <1>3, <2>1, <2>2, RememberType DEF CommitClaim, TypeOK, safety, calls
<1>4. CASE CheckPrivateNote(w)
  BY <1>4, MarkType, PassType DEF CheckPrivateNote, Statuses, Terminal, TypeOK
<1>5. CASE CheckSuperseded(w)
  BY <1>5, MarkType, PassType DEF CheckSuperseded, Statuses, Terminal, TypeOK
<1>6. CASE CheckStoredState(w)
  BY <1>6, MarkType, PassType DEF CheckStoredState, Statuses, Terminal, TypeOK
<1>7. CASE CheckChannelState(w)
  BY <1>7, MarkType, PassType DEF CheckChannelState, Statuses, Terminal, TypeOK
<1>8. CASE RecheckSuperseded(w)
  BY <1>8, MarkType, PassType DEF RecheckSuperseded, Statuses, Terminal, TypeOK
<1>9. CASE CreateMessage(w)
  <2>1. PICK o \in PossibleOutcomes :
          /\ tries' = [tries EXCEPT ![claim[w]] = @ + 1]
          /\ copies' = [copies EXCEPT ![claim[w]] = IF o.created THEN @ + 1 ELSE @]
          /\ ambiguous' = [ambiguous EXCEPT ![claim[w]] =
                              IF o.created /\ o.heard # "succeeded" THEN @ + 1 ELSE @]
          /\ Goto(w, o.heard)
    BY <1>9 DEF CreateMessage
  <2>2. /\ pc' \in [Workers -> Locations]
        /\ \A v \in Workers : claim'[v] = NoRow <=> pc'[v] \in {"down", "idle"}
    BY <1>9, <2>1, GotoType DEF CreateMessage, PossibleOutcomes, Outcome
  <2>3. /\ tries' \in [Messages -> Nat]
        /\ copies' \in [Messages -> Nat]
        /\ ambiguous' \in [Messages -> Nat]
    <3>1. claim[w] \in Messages
      BY <1>9 DEF CreateMessage, TypeOK
    <3>2. /\ tries[claim[w]] + 1 \in Nat
          /\ (IF o.created THEN copies[claim[w]] + 1 ELSE copies[claim[w]]) \in Nat
          /\ (IF o.created /\ o.heard # "succeeded"
                THEN ambiguous[claim[w]] + 1 ELSE ambiguous[claim[w]]) \in Nat
      <4>1. /\ tries[claim[w]] \in Nat
            /\ copies[claim[w]] \in Nat
            /\ ambiguous[claim[w]] \in Nat
        BY <3>1 DEF TypeOK
      <4> QED
        BY <4>1
    <3> QED
      BY <2>1, <3>1, <3>2 DEF TypeOK
  <2> QED
    BY <1>9, <2>2, <2>3, RememberType DEF CreateMessage, TypeOK, rows, safety
<1>10. CASE MarkSendFailure(w)
  <2>1. attempts' \in [Messages -> Nat]
    <3>1. attempts' = [attempts EXCEPT ![claim[w]] = attemptCount[w] + 1]
      BY <1>10 DEF MarkSendFailure
    <3>2. attempts \in [Messages -> Nat] /\ attemptCount[w] + 1 \in Nat
      BY DEF TypeOK
    <3> QED
      BY <3>1, <3>2
  <2> QED
    BY <1>10, <2>1, MarkType DEF MarkSendFailure, Statuses, Terminal
<1>11. CASE UpdateStatus(w)
  <2>1. /\ pc' \in [Workers -> Locations]
        /\ \A v \in Workers : claim'[v] = NoRow <=> pc'[v] \in {"down", "idle"}
    BY <1>11, GotoType DEF UpdateStatus
  <2>2. channel' \subseteq ChannelHolds
    BY <1>11 DEF UpdateStatus, TypeOK
  <2> QED
    BY <1>11, <2>1, <2>2, RememberType DEF UpdateStatus, TypeOK, rows, calls
<1>12. CASE ReadLabels(w)
  <2>1. /\ pc' \in [Workers -> Locations]
        /\ \A v \in Workers : claim'[v] = NoRow <=> pc'[v] \in {"down", "idle"}
    BY <1>12, GotoType DEF ReadLabels
  <2>2. sawPaused' \in [Workers -> BOOLEAN]
    <3>1. ("paused" \in channel) \in BOOLEAN
      OBVIOUS
    <3>2. sawPaused' = [sawPaused EXCEPT ![w] = "paused" \in channel] \/ sawPaused' = sawPaused
      BY <1>12 DEF ReadLabels
    <3> QED
      BY <3>1, <3>2, Zenon DEF TypeOK
  <2> QED
    BY <1>12, <2>1, <2>2, RememberType DEF ReadLabels, TypeOK, rows, safety, calls
<1>13. CASE ReplaceLabels(w)
  <2>1. /\ pc' \in [Workers -> Locations]
        /\ \A v \in Workers : claim'[v] = NoRow <=> pc'[v] \in {"down", "idle"}
    BY <1>13, GotoType DEF ReplaceLabels
  <2>2. channel' \subseteq ChannelHolds /\ sawPaused' \in [Workers -> BOOLEAN]
    BY <1>13 DEF ReplaceLabels, TypeOK
  <2> QED
    BY <1>13, <2>1, <2>2, RememberType DEF ReplaceLabels, TypeOK, rows, calls
<1>14. CASE MarkSent(w)
  BY <1>14, MarkType DEF MarkSent, Statuses, Terminal, TypeOK
<1> QED
  BY <1>1, <1>2, <1>3, <1>4, <1>5, <1>6, <1>7, <1>8, <1>9, <1>10, <1>11, <1>12, <1>13,
     <1>14 DEF WorkerStep

(* Every reachable state has the types of TypeOK: a worker holds a row exactly  *)
(* while it works on one.                                                     *)
THEOREM TypeCorrect == Spec => []TypeOK
<1>1. Init => TypeOK
  BY DEF Init, TypeOK, Statuses, Locations, NoDraft, Draft, Kinds, Contents, NoRow
<1>2. TypeOK /\ [Next]_vars => TypeOK'
  <2>1. TypeOK /\ UNCHANGED vars => TypeOK'
    BY DEF TypeOK, vars, rows, workers, safety, calls
  <2> QED
    BY <2>1, WorkerType, DieType, AroundType DEF Next, Failure, Crash, SafetyReadError
<1> QED
  BY <1>1, <1>2, PTL DEF Spec
-----------------------------------------------------------------------------
(***************************************************************************)
(* The steps, as far as the rows and the claims are concerned.               *)
(***************************************************************************)
(* A worker goes on with its row: a check passed, or an update after the call. *)
Moves(w) ==
  \E to \in Working :
    /\ Goto(w, to)
    /\ UNCHANGED <<rows, claim, attemptCount, calls>>
    /\ \/ pc[w] \in BeforeCall /\ to \in BeforeCall
       \/ pc[w] \in {"succeeded", "label_write"} /\ to \in {"label_write", "mark_sent"}

(* A check rejects the row.                                                  *)
Rejects(w) ==
  /\ pc[w] \in BeforeCall
  /\ \E result \in {"superseded", "blocked_by_policy"} : Mark(w, result, 0)
  /\ UNCHANGED attempts

(* What happens around the executor to rows that exist: time passes.          *)
Elsewhere == UNCHANGED <<status, draft, attempts, outbox, workers, calls>>

LEMMA WorkerKinds ==
  ASSUME NEW w \in Workers, WorkerStep(w)
  PROVE  \/ Start(w) \/ LockNextRow(w) \/ CommitClaim(w) \/ CreateMessage(w)
         \/ MarkSendFailure(w) \/ MarkSent(w) \/ Moves(w) \/ Rejects(w)
<1> USE DEF Moves, Rejects, BeforeCall, AfterCall, Working
<1>1. CASE CheckPrivateNote(w)
  BY <1>1 DEF CheckPrivateNote, Pass
<1>2. CASE CheckSuperseded(w)
  BY <1>2 DEF CheckSuperseded, Pass
<1>3. CASE CheckStoredState(w)
  BY <1>3 DEF CheckStoredState, Pass
<1>4. CASE CheckChannelState(w)
  BY <1>4 DEF CheckChannelState, Pass
<1>5. CASE RecheckSuperseded(w)
  BY <1>5 DEF RecheckSuperseded, Pass
<1>6. CASE UpdateStatus(w)
  BY <1>6 DEF UpdateStatus
<1>7. CASE ReadLabels(w)
  BY <1>7 DEF ReadLabels
<1>8. CASE ReplaceLabels(w)
  BY <1>8 DEF ReplaceLabels
<1> QED
  BY <1>1, <1>2, <1>3, <1>4, <1>5, <1>6, <1>7, <1>8 DEF WorkerStep

LEMMA AroundKinds ==
  ASSUME Environment \/ Tick
  PROVE  Elsewhere \/ \E m \in Messages : Enqueue(m)
BY DEF Environment, Tick, CustomerTurn, StoredStateChange, ChannelChange, Elsewhere, rows

(* A worker holds a row exactly while it is claiming it or working on it.      *)
LEMMA HoldsRow ==
  ASSUME TypeOK, NEW w \in Workers
  PROVE  /\ pc[w] \in {"claiming"} \cup Working => claim[w] \in Messages
         /\ claim[w] # NoRow => pc[w] \in {"claiming"} \cup Working
         /\ pc[w] \in {"down", "idle"} => claim[w] = NoRow
         /\ NoRow \notin Messages
BY DEF TypeOK, Locations, Working, BeforeCall, AfterCall, NoRow
-----------------------------------------------------------------------------
(***************************************************************************)
(* Exclusive claims.                                                        *)
(***************************************************************************)
(* Recording something about the row of one worker leaves the claims exclusive: *)
(* a worker that goes on holds a row nobody else has, one that is done has none. *)
LEMMA ClaimMoves ==
  ASSUME TypeOK, ClaimInv, NEW w \in Workers, pc[w] \in {"claiming"} \cup Working,
         NEW to \in {"claimed", "idle"}, NEW result,
         pc' = [pc EXCEPT ![w] = to],
         claim' = [claim EXCEPT ![w] = IF to = "idle" THEN NoRow ELSE claim[w]],
         status' = [status EXCEPT ![claim[w]] = result],
         to = "claimed" => result = "executing"
  PROVE  ClaimInv'
<1> DEFINE Held == {"claiming"} \cup Working
<1>1. /\ pc \in [Workers -> Locations]
      /\ claim \in [Workers -> Messages \cup {NoRow}]
      /\ status \in [Messages -> Statuses]
  BY DEF TypeOK
<1>2. \A v \in Workers : pc[v] \in Held => claim[v] \in Messages
  BY HoldsRow
<1>3. claim[w] # NoRow /\ claim[w] \in Messages
  BY <1>2, HoldsRow
<1>4. \A v \in Workers : v # w => claim[v] # claim[w]
  BY <1>3 DEF ClaimInv, ExclusiveClaim
<1>5. ASSUME NEW v \in Workers, v # w
      PROVE  /\ pc'[v] = pc[v] /\ claim'[v] = claim[v]
             /\ pc[v] \in Held => status'[claim[v]] = status[claim[v]]
  BY <1>1, <1>2, <1>4, <1>5
<1>6. pc'[w] = to /\ claim'[w] = (IF to = "idle" THEN NoRow ELSE claim[w])
      /\ status'[claim[w]] = result
  BY <1>1, <1>3
<1>7. "idle" \notin Held /\ "claimed" # "claiming" /\ "claimed" # "idle"
  BY DEF Working, BeforeCall, AfterCall
<1>8. ASSUME NEW u \in Workers, NEW v \in Workers, u # v, claim'[u] = claim'[v]
      PROVE  claim'[u] = NoRow
  BY <1>4, <1>5, <1>6, <1>8 DEF ClaimInv, ExclusiveClaim
<1>9. \A v \in Workers : pc'[v] \in Working => status'[claim'[v]] = "executing"
  BY <1>5, <1>6, <1>7 DEF ClaimInv, ExclusiveClaim
<1>10. \A v \in Workers :
         pc'[v] = "claiming" => status'[claim'[v]] \in {"queued", "retryable_failure"}
  BY <1>5, <1>6, <1>7 DEF ClaimInv
<1> QED BY <1>8, <1>9, <1>10 DEF ClaimInv, ExclusiveClaim

LEMMA ClaimStep ==
  ASSUME TypeOK, ClaimInv, [Next]_vars
  PROVE  ClaimInv'
<1> USE DEF ClaimInv, ExclusiveClaim
<1>1. ASSUME NEW w \in Workers, WorkerStep(w) PROVE ClaimInv'
  <2>1. CASE Start(w)
    BY <2>1 DEF Start, Goto, rows, TypeOK, Working, BeforeCall, AfterCall
  <2>2. CASE LockNextRow(w)
    <3>1. PICK m \in Messages :
            /\ NextClaimable(m)
            /\ claim' = [claim EXCEPT ![w] = m]
      BY <2>2 DEF LockNextRow
    <3>2. /\ status[m] \in {"queued", "retryable_failure"}
          /\ \A v \in Workers : pc[v] = "claiming" => claim[v] # m
      BY <3>1 DEF NextClaimable, Claimable, IsDue, Locked
    <3>3. \A v \in Workers : claim[v] # m
      BY <3>1, <3>2, HoldsRow
    <3>4. pc' = [pc EXCEPT ![w] = "claiming"] /\ status' = status
      BY <2>2 DEF LockNextRow, Goto, rows
    <3> QED
      BY <3>1, <3>2, <3>3, <3>4 DEF TypeOK, Working, BeforeCall, AfterCall
  <2>3. CASE CommitClaim(w)
    <3>1. /\ pc[w] = "claiming"
          /\ pc' = [pc EXCEPT ![w] = "claimed"]
          /\ claim' = claim
          /\ status' = [status EXCEPT ![claim[w]] = "executing"]
      BY <2>3 DEF CommitClaim, Goto
    <3>2. claim' = [claim EXCEPT ![w] = claim[w]]
      BY <3>1 DEF TypeOK
    <3> HIDE DEF ClaimInv
    <3> QED
      BY <3>1, <3>2, ClaimMoves
  <2>4. CASE CreateMessage(w)
    <3>1. PICK o \in PossibleOutcomes : Goto(w, o.heard)
      BY <2>4 DEF CreateMessage
    <3>2. o.heard \in AfterCall
      BY DEF PossibleOutcomes, Outcome, AfterCall
    <3> QED
      BY <2>4, <3>1, <3>2 DEF CreateMessage, Goto, rows, TypeOK, Working, BeforeCall, AfterCall
  <2>5. CASE Moves(w)
    BY <2>5 DEF Moves, Goto, rows, TypeOK, Working, BeforeCall, AfterCall
  <2>6. ASSUME NEW result \in Statuses, NEW wait \in Nat, pc[w] \in Working,
               Mark(w, result, wait)
        PROVE  ClaimInv'
    <3>1. /\ pc' = [pc EXCEPT ![w] = "idle"]
          /\ claim' = [claim EXCEPT ![w] = NoRow]
          /\ status' = [status EXCEPT ![claim[w]] = result]
      BY <2>6 DEF Mark, Goto
    <3> HIDE DEF ClaimInv
    <3> QED
      BY <2>6, <3>1, ClaimMoves
  <2>7. CASE MarkSendFailure(w) \/ MarkSent(w) \/ Rejects(w)
    BY <2>6, <2>7 DEF MarkSendFailure, MarkSent, Rejects, Statuses, Terminal, Working,
                      BeforeCall, AfterCall
  <2> QED
    BY <1>1, <2>1, <2>2, <2>3, <2>4, <2>5, <2>7, WorkerKinds
<1>2. ASSUME NEW w \in Workers, Die(w) PROVE ClaimInv'
  BY <1>2 DEF Die, Goto, rows, TypeOK, Working, BeforeCall, AfterCall
<1>3. ASSUME NEW m \in Messages, Enqueue(m) PROVE ClaimInv'
  <2>1. /\ status[m] = "none"
        /\ status' = [status EXCEPT ![m] = "queued"]
        /\ UNCHANGED <<pc, claim>>
    BY <1>3 DEF Enqueue, workers
  <2>2. \A w \in Workers : claim[w] # m
    BY <2>1, HoldsRow
  <2> QED
    BY <2>1, <2>2, HoldsRow DEF TypeOK
<1>4. CASE Elsewhere \/ UNCHANGED vars
  BY <1>4 DEF Elsewhere, vars, rows, workers
<1> QED
  BY <1>1, <1>2, <1>3, <1>4, AroundKinds DEF Next, Failure, Crash, SafetyReadError

(* Two workers never work on the same row, for any number of workers.          *)
THEOREM ClaimsAreExclusive == Spec => []ExclusiveClaim
<1>1. Init => ClaimInv
  BY DEF Init, ClaimInv, ExclusiveClaim, Working, BeforeCall, AfterCall
<1>2. ClaimInv => ExclusiveClaim
  BY DEF ClaimInv
<1> QED
  BY <1>1, <1>2, TypeCorrect, ClaimStep, PTL DEF Spec
-----------------------------------------------------------------------------
(***************************************************************************)
(* The attempt budget and the ledger.                                       *)
(***************************************************************************)
(* What recording a result does, the other rows and workers left alone.       *)
LEMMA MarkEffect ==
  ASSUME TypeOK, ClaimInv, NEW w \in Workers, pc[w] \in Working,
         NEW result, NEW wait, Mark(w, result, wait)
  PROVE  /\ claim[w] \in Messages
         /\ status'[claim[w]] = result
         /\ \A m \in Messages : m # claim[w] => status'[m] = status[m]
         /\ UNCHANGED <<draft, calls>>
         /\ pc'[w] = "idle" /\ claim'[w] = NoRow
         /\ \A v \in Workers : v # w =>
              /\ pc'[v] = pc[v] /\ claim'[v] = claim[v]
              /\ attemptCount'[v] = attemptCount[v]
              /\ claim[v] # claim[w]
<1>1. claim[w] \in Messages /\ claim[w] # NoRow
  BY HoldsRow
<1>2. \A v \in Workers : v # w => claim[v] # claim[w]
  BY <1>1 DEF ClaimInv, ExclusiveClaim
<1> QED
  BY <1>1, <1>2 DEF Mark, Goto, TypeOK

(* What a call does to the history of its row.                                *)
LEMMA CallEffect ==
  ASSUME TypeOK, ClaimInv, NEW w \in Workers, CreateMessage(w)
  PROVE  \E o \in PossibleOutcomes :
           /\ o.created \in BOOLEAN /\ o.heard \in AfterCall
           /\ o.heard \in {"succeeded", "failed_retryable", "failed_permanent"}
           /\ o.heard = "succeeded" => o.created
           /\ pc[w] = "send" /\ pc'[w] = o.heard
           /\ claim[w] \in Messages /\ status[claim[w]] = "executing"
           /\ UNCHANGED <<rows, claim, attemptCount>>
           /\ tries'[claim[w]] = tries[claim[w]] + 1
           /\ copies'[claim[w]] =
                IF o.created THEN copies[claim[w]] + 1 ELSE copies[claim[w]]
           /\ ambiguous'[claim[w]] =
                IF o.created /\ o.heard # "succeeded"
                  THEN ambiguous[claim[w]] + 1 ELSE ambiguous[claim[w]]
           /\ \A m \in Messages : m # claim[w] =>
                /\ tries'[m] = tries[m] /\ copies'[m] = copies[m]
                /\ ambiguous'[m] = ambiguous[m]
           /\ \A v \in Workers : v # w => pc'[v] = pc[v] /\ claim[v] # claim[w]
<1>1. /\ pc[w] = "send"
      /\ UNCHANGED <<rows, claim, attemptCount>>
  BY DEF CreateMessage
<1>2. PICK o \in PossibleOutcomes :
        /\ tries' = [tries EXCEPT ![claim[w]] = @ + 1]
        /\ copies' = [copies EXCEPT ![claim[w]] = IF o.created THEN @ + 1 ELSE @]
        /\ ambiguous' = [ambiguous EXCEPT ![claim[w]] =
                            IF o.created /\ o.heard # "succeeded" THEN @ + 1 ELSE @]
        /\ pc' = [pc EXCEPT ![w] = o.heard]
  BY DEF CreateMessage, Goto
<1>3. /\ o.created \in BOOLEAN /\ o.heard \in AfterCall
      /\ o.heard \in {"succeeded", "failed_retryable", "failed_permanent"}
      /\ o.heard = "succeeded" => o.created
  BY DEF PossibleOutcomes, Outcome, AfterCall
<1>4. /\ claim[w] \in Messages /\ status[claim[w]] = "executing"
      /\ \A v \in Workers : v # w => claim[v] # claim[w]
  BY <1>1, HoldsRow DEF ClaimInv, ExclusiveClaim, Working, BeforeCall
<1>5. /\ tries'[claim[w]] = tries[claim[w]] + 1
      /\ copies'[claim[w]] = IF o.created THEN copies[claim[w]] + 1 ELSE copies[claim[w]]
      /\ ambiguous'[claim[w]] =
           IF o.created /\ o.heard # "succeeded"
             THEN ambiguous[claim[w]] + 1 ELSE ambiguous[claim[w]]
  BY <1>2, <1>4 DEF TypeOK
<1>6. \A m \in Messages : m # claim[w] =>
        tries'[m] = tries[m] /\ copies'[m] = copies[m] /\ ambiguous'[m] = ambiguous[m]
  BY <1>2 DEF TypeOK
<1>7. pc'[w] = o.heard /\ \A v \in Workers : v # w => pc'[v] = pc[v]
  BY <1>2 DEF TypeOK
<1> QED
  BY <1>1, <1>3, <1>4, <1>5, <1>6, <1>7

LEMMA BudgetStep ==
  ASSUME TypeOK, TypeOK', ClaimInv, BudgetInv, [Next]_vars
  PROVE  BudgetInv'
<1> USE DEF BudgetInv, RowBudget, WorkerBudget
<1>1. ASSUME NEW w \in Workers, WorkerStep(w) PROVE BudgetInv'
  <2>1. CASE Start(w)
    BY <2>1 DEF Start, Goto, rows, calls, TypeOK, BeforeCall, AfterCall
  <2>2. CASE LockNextRow(w)
    <3>1. PICK m \in Messages :
            /\ claim' = [claim EXCEPT ![w] = m]
            /\ attemptCount' = [attemptCount EXCEPT ![w] = attempts[m]]
      BY <2>2 DEF LockNextRow
    <3>2. pc' = [pc EXCEPT ![w] = "claiming"] /\ UNCHANGED <<rows, calls>>
      BY <2>2 DEF LockNextRow, Goto
    <3>3. \A m1 \in Messages : RowBudget(m1)'
      BY <3>2 DEF rows, calls
    <3>4. ASSUME NEW v \in Workers PROVE WorkerBudget(v)'
      BY <3>1, <3>2 DEF TypeOK, rows, calls, BeforeCall, AfterCall
    <3> QED
      BY <3>3, <3>4
  <2>3. CASE CommitClaim(w)
    <3>1. /\ pc[w] = "claiming"
          /\ pc' = [pc EXCEPT ![w] = "claimed"]
          /\ status' = [status EXCEPT ![claim[w]] = "executing"]
          /\ UNCHANGED <<attempts, claim, attemptCount, tries>>
      BY <2>3 DEF CommitClaim, Goto, calls
    <3>2. /\ claim[w] \in Messages
          /\ status[claim[w]] \in {"queued", "retryable_failure"}
      BY <3>1, HoldsRow DEF ClaimInv
    <3>3. ASSUME NEW m \in Messages PROVE RowBudget(m)'
      BY <3>1, <3>2 DEF TypeOK
    <3>4. ASSUME NEW v \in Workers PROVE WorkerBudget(v)'
      <4>1. CASE v = w
        <5>1. pc'[w] = "claimed"
          BY <3>1 DEF TypeOK
        <5>2. tries[claim[w]] = attempts[claim[w]] /\ attempts[claim[w]] < MaxAttempts
          BY <3>2
        <5>3. attemptCount[w] = attempts[claim[w]]
          BY <3>2, HoldsRow
        <5> QED
          BY <4>1, <5>1, <5>2, <5>3, <3>1 DEF AfterCall
      <4>2. CASE v # w
        BY <4>2, <3>1 DEF TypeOK
      <4> QED
        BY <4>1, <4>2
    <3> QED
      BY <3>3, <3>4
  <2>4. CASE CreateMessage(w)
    <3>1. /\ pc[w] \in BeforeCall /\ pc'[w] \in AfterCall
          /\ claim[w] \in Messages /\ status[claim[w]] = "executing"
          /\ UNCHANGED <<status, attempts, claim, attemptCount>>
          /\ tries'[claim[w]] = tries[claim[w]] + 1
          /\ \A m \in Messages : m # claim[w] => tries'[m] = tries[m]
          /\ \A v \in Workers : v # w => pc'[v] = pc[v] /\ claim[v] # claim[w]
      BY <2>4, CallEffect DEF BeforeCall, rows
    <3>2. /\ tries[claim[w]] = attempts[claim[w]]
          /\ attempts[claim[w]] \in Nat
          /\ attempts[claim[w]] < MaxAttempts
      BY <3>1 DEF TypeOK
    <3>3. ASSUME NEW m \in Messages PROVE RowBudget(m)'
      <4>1. CASE m = claim[w]
        BY <4>1, <3>1, <3>2
      <4>2. CASE m # claim[w]
        BY <4>2, <3>1
      <4> QED
        BY <4>1, <4>2
    <3>4. ASSUME NEW v \in Workers PROVE WorkerBudget(v)'
      <4>1. CASE v = w
        BY <4>1, <3>1, <3>2 DEF BeforeCall, AfterCall
      <4>2. CASE v # w
        BY <4>2, <3>1, HoldsRow DEF Working
      <4> QED
        BY <4>1, <4>2
    <3> QED
      BY <3>3, <3>4
  <2>5. CASE Moves(w)
    BY <2>5 DEF Moves, Goto, rows, calls, TypeOK, BeforeCall, AfterCall
  <2>6. ASSUME NEW result \in Terminal \cup {"retryable_failure"}, NEW wait,
               pc[w] \in Working, Mark(w, result, wait),
               tries[claim[w]] <= MaxAttempts,
               \A m \in Messages : m # claim[w] => attempts'[m] = attempts[m],
               result = "retryable_failure" =>
                 /\ attempts'[claim[w]] = tries[claim[w]]
                 /\ attempts'[claim[w]] < MaxAttempts
        PROVE  BudgetInv'
    <3>1. /\ status'[claim[w]] = result
          /\ \A m \in Messages : m # claim[w] => status'[m] = status[m]
          /\ claim[w] \in Messages /\ tries' = tries
          /\ pc'[w] = "idle" /\ claim'[w] = NoRow
          /\ \A v \in Workers : v # w =>
               /\ pc'[v] = pc[v] /\ claim'[v] = claim[v]
               /\ attemptCount'[v] = attemptCount[v] /\ claim[v] # claim[w]
      BY <2>6, MarkEffect DEF calls
    <3>2. ASSUME NEW m \in Messages PROVE RowBudget(m)'
      <4>1. CASE m = claim[w]
        BY <4>1, <3>1, <2>6 DEF Terminal
      <4>2. CASE m # claim[w]
        BY <4>2, <3>1, <2>6
      <4> QED
        BY <4>1, <4>2
    <3>3. ASSUME NEW v \in Workers PROVE WorkerBudget(v)'
      <4>1. CASE v = w
        BY <4>1, <3>1 DEF BeforeCall, AfterCall
      <4>2. CASE v # w
        <5>1. pc[v] \in BeforeCall \cup AfterCall \/ claim[v] # NoRow =>
                claim[v] \in Messages
          BY HoldsRow DEF Working
        <5>2. claim[v] \in Messages => attempts'[claim[v]] = attempts[claim[v]]
          BY <4>2, <3>1, <2>6
        <5> QED
          BY <4>2, <3>1, <5>1, <5>2
      <4> QED
        BY <4>1, <4>2
    <3> QED
      BY <3>2, <3>3
  <2>7. CASE Rejects(w)
    <3>1. PICK result \in {"superseded", "blocked_by_policy"} : Mark(w, result, 0)
      BY <2>7 DEF Rejects
    <3>2. pc[w] \in Working /\ attempts' = attempts /\ tries[claim[w]] <= MaxAttempts
      BY <2>7, HoldsRow DEF Rejects, Working
    <3> QED
      BY <2>6, <3>1, <3>2 DEF Terminal
  <2>8. CASE MarkSent(w)
    <3>1. pc[w] \in Working /\ Mark(w, "sent", 0) /\ attempts' = attempts
      BY <2>8 DEF MarkSent, Working, AfterCall
    <3>2. tries[claim[w]] <= MaxAttempts
      BY <3>1, HoldsRow
    <3> QED
      BY <2>6, <3>1, <3>2 DEF Terminal
  <2>9. CASE MarkSendFailure(w)
    <3>1. PICK result \in {"retryable_failure", "permanent_failure"}, wait \in Nat :
            /\ Mark(w, result, wait)
            /\ result = "retryable_failure" => attemptCount[w] + 1 < MaxAttempts
      BY <2>9 DEF MarkSendFailure
    <3>2. /\ pc[w] \in AfterCall /\ pc[w] \in Working
          /\ attempts' = [attempts EXCEPT ![claim[w]] = attemptCount[w] + 1]
      BY <2>9 DEF MarkSendFailure, AfterCall, Working
    <3>3. claim[w] \in Messages /\ claim[w] # NoRow
      BY <3>2, HoldsRow
    <3>4. attemptCount[w] + 1 = tries[claim[w]] /\ tries[claim[w]] <= MaxAttempts
      BY <3>2, <3>3
    <3>5. /\ attempts'[claim[w]] = attemptCount[w] + 1
          /\ \A m \in Messages : m # claim[w] => attempts'[m] = attempts[m]
      BY <3>2, <3>3 DEF TypeOK
    <3> QED
      BY <2>6, <3>1, <3>2, <3>4, <3>5 DEF Terminal
  <2> QED
    BY <1>1, <2>1, <2>2, <2>3, <2>4, <2>5, <2>7, <2>8, <2>9, WorkerKinds
<1>2. ASSUME NEW w \in Workers, Die(w) PROVE BudgetInv'
  BY <1>2 DEF Die, Goto, rows, calls, TypeOK, BeforeCall, AfterCall
<1>3. ASSUME NEW m \in Messages, Enqueue(m) PROVE BudgetInv'
  BY <1>3 DEF Enqueue, workers, calls, TypeOK
<1>4. CASE Elsewhere \/ UNCHANGED vars
  BY <1>4 DEF Elsewhere, vars, rows, workers, calls
<1> QED
  BY <1>1, <1>2, <1>3, <1>4, AroundKinds DEF Next, Failure, Crash, SafetyReadError

(* No row is sent more than outbound_max_attempts times, whatever crashes.      *)
THEOREM AttemptsAreBounded == Spec => []AttemptBudget
<1>1. Init => ClaimInv /\ BudgetInv
  BY DEF Init, ClaimInv, ExclusiveClaim, BudgetInv, RowBudget, WorkerBudget, Working,
         BeforeCall, AfterCall
<1>2. BudgetInv => AttemptBudget
  BY DEF BudgetInv, RowBudget, AttemptBudget
<1> QED
  BY <1>1, <1>2, TypeCorrect, ClaimStep, BudgetStep, PTL DEF Spec

LEMMA LedgerStep ==
  ASSUME TypeOK, ClaimInv, LedgerInv, [Next]_vars
  PROVE  LedgerInv'
<1> USE DEF RowLedger, WorkerLedger
<1>0. /\ \A m \in Messages : RowLedger(m) /\ copies[m] <= tries[m]
      /\ \A v \in Workers : WorkerLedger(v)
      /\ ((\A m \in Messages : RowLedger(m)' /\ copies'[m] <= tries'[m])
           /\ (\A v \in Workers : WorkerLedger(v)')) => LedgerInv'
  BY Zenon DEF LedgerInv, LedgerMatchesChannel
<1>1. ASSUME NEW w \in Workers, WorkerStep(w) PROVE LedgerInv'
  <2>1. CASE Start(w) \/ LockNextRow(w)
    <3>1. /\ pc'[w] \in {"idle", "claiming"}
          /\ \A v \in Workers : v # w => pc'[v] = pc[v] /\ claim'[v] = claim[v]
          /\ UNCHANGED <<status, calls>>
      BY <2>1 DEF Start, LockNextRow, Goto, rows, TypeOK
    <3> QED
      BY <1>0, <3>1 DEF calls, BeforeCall
  <2>2. CASE CommitClaim(w)
    <3>1. /\ pc[w] = "claiming"
          /\ pc' = [pc EXCEPT ![w] = "claimed"]
          /\ status' = [status EXCEPT ![claim[w]] = "executing"]
          /\ UNCHANGED <<claim, calls>>
      BY <2>2 DEF CommitClaim, Goto
    <3>2. /\ claim[w] \in Messages
          /\ copies[claim[w]] = ambiguous[claim[w]]
      BY <1>0, <3>1, HoldsRow DEF ClaimInv
    <3>3. ASSUME NEW m \in Messages PROVE RowLedger(m)' /\ copies'[m] <= tries'[m]
      BY <1>0, <3>1 DEF TypeOK, calls
    <3>4. ASSUME NEW v \in Workers PROVE WorkerLedger(v)'
      BY <1>0, <3>1, <3>2 DEF TypeOK, calls, BeforeCall
    <3> QED
      BY <1>0, <3>3, <3>4
  <2>3. CASE CreateMessage(w)
    <3>1. PICK o \in PossibleOutcomes :
            /\ o.created \in BOOLEAN
            /\ o.heard \in {"succeeded", "failed_retryable", "failed_permanent"}
            /\ o.heard = "succeeded" => o.created
            /\ pc[w] \in BeforeCall /\ pc'[w] = o.heard
            /\ claim[w] \in Messages /\ status[claim[w]] = "executing"
            /\ UNCHANGED <<status, claim>>
            /\ tries'[claim[w]] = tries[claim[w]] + 1
            /\ copies'[claim[w]] =
                 IF o.created THEN copies[claim[w]] + 1 ELSE copies[claim[w]]
            /\ ambiguous'[claim[w]] =
                 IF o.created /\ o.heard # "succeeded"
                   THEN ambiguous[claim[w]] + 1 ELSE ambiguous[claim[w]]
            /\ \A m \in Messages : m # claim[w] =>
                 /\ tries'[m] = tries[m] /\ copies'[m] = copies[m]
                 /\ ambiguous'[m] = ambiguous[m]
            /\ \A v \in Workers : v # w => pc'[v] = pc[v] /\ claim[v] # claim[w]
      BY <2>3, CallEffect DEF BeforeCall, rows
    <3>2. /\ copies[claim[w]] = ambiguous[claim[w]]
          /\ copies[claim[w]] <= tries[claim[w]]
      BY <1>0, <3>1
    <3>5. /\ copies[claim[w]] \in Nat /\ tries[claim[w]] \in Nat
          /\ ambiguous[claim[w]] \in Nat
      BY <3>1 DEF TypeOK
    <3>3. ASSUME NEW m \in Messages PROVE RowLedger(m)' /\ copies'[m] <= tries'[m]
      <4>1. CASE m = claim[w]
        BY <4>1, <3>1, <3>2, <3>5
      <4>2. CASE m # claim[w]
        BY <1>0, <4>2, <3>1
      <4> QED
        BY <4>1, <4>2
    <3>4. ASSUME NEW v \in Workers PROVE WorkerLedger(v)'
      <4>1. CASE v = w
        BY <4>1, <3>1, <3>2, <3>5 DEF BeforeCall
      <4>2. CASE v # w
        <5>1. pc[v] \in Working => claim[v] \in Messages
          BY HoldsRow
        <5>2. WorkerLedger(v) /\ pc'[v] = pc[v] /\ claim'[v] = claim[v]
          BY <1>0, <4>2, <3>1
        <5>3. claim[v] \in Messages =>
                copies'[claim[v]] = copies[claim[v]] /\ ambiguous'[claim[v]] = ambiguous[claim[v]]
          BY <4>2, <3>1
        <5> QED
          BY <5>1, <5>2, <5>3 DEF Working, BeforeCall, AfterCall
      <4> QED
        BY <4>1, <4>2
    <3> QED
      BY <1>0, <3>3, <3>4
  <2>4. CASE Moves(w)
    <3>1. PICK to \in Working :
            /\ pc' = [pc EXCEPT ![w] = to]
            /\ UNCHANGED <<status, claim, calls>>
            /\ \/ pc[w] \in BeforeCall /\ to \in BeforeCall
               \/ pc[w] \in {"succeeded", "label_write"} /\ to \in {"label_write", "mark_sent"}
      BY <2>4 DEF Moves, Goto, rows
    <3>2. ASSUME NEW v \in Workers PROVE WorkerLedger(v)'
      BY <1>0, <3>1 DEF calls, TypeOK, BeforeCall
    <3> QED
      BY <1>0, <3>1, <3>2 DEF calls
  <2>5. ASSUME NEW result, NEW wait, pc[w] \in Working, Mark(w, result, wait),
               result # "executing",
               copies[claim[w]] = IF result = "sent" THEN ambiguous[claim[w]] + 1
                                                     ELSE ambiguous[claim[w]]
        PROVE  LedgerInv'
    <3>1. /\ status'[claim[w]] = result
          /\ \A m \in Messages : m # claim[w] => status'[m] = status[m]
          /\ claim[w] \in Messages
          /\ tries' = tries /\ copies' = copies /\ ambiguous' = ambiguous
          /\ pc'[w] = "idle" /\ claim'[w] = NoRow
          /\ \A v \in Workers : v # w =>
               pc'[v] = pc[v] /\ claim'[v] = claim[v] /\ claim[v] # claim[w]
      <4>1. pc[w] \in Working /\ Mark(w, result, wait)
        BY <2>5
      <4> HIDE DEF RowLedger, WorkerLedger
      <4> QED
        BY <4>1, MarkEffect DEF calls
    <3>2. ASSUME NEW m \in Messages PROVE RowLedger(m)' /\ copies'[m] <= tries'[m]
      BY <1>0, <3>1, <2>5
    <3>3. ASSUME NEW v \in Workers PROVE WorkerLedger(v)'
      BY <1>0, <3>1 DEF BeforeCall
    <3> QED
      BY <1>0, <3>2, <3>3
  <2>6. CASE Rejects(w)
    <3>1. PICK result \in {"superseded", "blocked_by_policy"} : Mark(w, result, 0)
      BY <2>6 DEF Rejects
    <3> QED
      BY <1>0, <2>5, <2>6, <3>1 DEF Rejects, Working
  <2>7. CASE MarkSent(w)
    <3>1. /\ pc[w] \in {"succeeded", "mark_sent"} /\ pc[w] \in Working
          /\ Mark(w, "sent", 0)
      BY <2>7 DEF MarkSent, Working, AfterCall
    <3> QED
      BY <1>0, <2>5, <3>1
  <2>8. CASE MarkSendFailure(w)
    <3>1. PICK result \in {"retryable_failure", "permanent_failure"}, wait \in Nat :
            Mark(w, result, wait)
      BY <2>8 DEF MarkSendFailure
    <3>2. pc[w] \in {"failed_retryable", "failed_permanent"} /\ pc[w] \in Working
      BY <2>8 DEF MarkSendFailure, AfterCall, Working
    <3> QED
      BY <1>0, <2>5, <3>1, <3>2
  <2> QED
    BY <1>1, <2>1, <2>2, <2>3, <2>4, <2>6, <2>7, <2>8, WorkerKinds
<1>2. ASSUME NEW w \in Workers, Die(w) PROVE LedgerInv'
  BY <1>0, <1>2 DEF Die, Goto, rows, calls, TypeOK, BeforeCall
<1>3. ASSUME NEW m \in Messages, Enqueue(m) PROVE LedgerInv'
  BY <1>0, <1>3 DEF Enqueue, workers, calls, TypeOK
<1>4. CASE Elsewhere \/ UNCHANGED vars
  BY <1>0, <1>4 DEF Elsewhere, vars, rows, workers, calls
<1> QED
  BY <1>1, <1>2, <1>3, <1>4, AroundKinds DEF Next, Failure, Crash, SafetyReadError

(* The status of every row tells how many messages the customer got, up to the *)
(* calls whose answer was lost: crashes and updates after the send never lead  *)
(* to a second message.                                                       *)
THEOREM LedgerIsTruthful == Spec => []LedgerMatchesChannel
<1>1. Init => ClaimInv /\ LedgerInv
  BY DEF Init, ClaimInv, ExclusiveClaim, LedgerInv, LedgerMatchesChannel, RowLedger,
         WorkerLedger, Working, BeforeCall, AfterCall
<1>2. LedgerInv => LedgerMatchesChannel
  BY DEF LedgerInv
<1> QED
  BY <1>1, <1>2, TypeCorrect, ClaimStep, LedgerStep, PTL DEF Spec
-----------------------------------------------------------------------------
(***************************************************************************)
(* Stranded rows.                                                           *)
(***************************************************************************)
StrandedRows == {m \in Messages : Stranded(m)}

StrandedInv == IsFiniteSet(StrandedRows) /\ Cardinality(StrandedRows) <= deaths

(* A set within a bounded one is bounded, and one more element raises the bound *)
(* by one.                                                                    *)
LEMMA Bounded ==
  ASSUME NEW S, NEW n \in Nat, IsFiniteSet(S), Cardinality(S) <= n,
         NEW x, NEW T, T \subseteq S \cup {x}
  PROVE  /\ IsFiniteSet(T) /\ Cardinality(T) <= n + 1
         /\ T \subseteq S => Cardinality(T) <= n
<1>0. Cardinality(S) \in Nat
  BY FS_CardinalityType
<1>1. IsFiniteSet(S \cup {x}) /\ Cardinality(S \cup {x}) <= n + 1
  <2>1. /\ IsFiniteSet(S \cup {x})
        /\ \/ Cardinality(S \cup {x}) = Cardinality(S)
           \/ Cardinality(S \cup {x}) = Cardinality(S) + 1
    BY FS_AddElement
  <2> QED
    BY <1>0, <2>1
<1>2. IsFiniteSet(T) /\ Cardinality(T) <= Cardinality(S \cup {x})
  BY <1>1, FS_Subset
<1>3. ASSUME T \subseteq S PROVE Cardinality(T) <= n
  <2>1. Cardinality(T) <= Cardinality(S)
    BY <1>3, FS_Subset
  <2> QED
    BY <1>2, <2>1, FS_CardinalityType
<1> QED
  BY <1>1, <1>2, <1>3, FS_CardinalityType

(* A worker that lives strands no row: it commits `executing` on a row it       *)
(* holds, and lets go of a row only by recording another status.              *)
LEMMA WorkerStrandsNone ==
  ASSUME TypeOK, ClaimInv, NEW w \in Workers, WorkerStep(w)
  PROVE  StrandedRows' \subseteq StrandedRows /\ deaths' = deaths
<1>1. ASSUME NEW m \in Messages, Stranded(m)' PROVE Stranded(m)
  <2> USE <1>1 DEF Stranded
  <2>1. CASE Start(w) \/ Moves(w) \/ CreateMessage(w)
    <3>1. UNCHANGED <<status, claim>>
      BY <2>1 DEF Start, Moves, CreateMessage, rows
    <3> QED
      BY <3>1
  <2>2. CASE LockNextRow(w)
    <3>1. claim[w] = NoRow /\ m # NoRow /\ status' = status
      BY <2>2, HoldsRow DEF LockNextRow, rows
    <3>2. \A v \in Workers : v # w => claim'[v] = claim[v]
      BY <2>2 DEF LockNextRow, TypeOK
    <3> QED
      BY <3>1, <3>2
  <2>3. CASE CommitClaim(w)
    <3>1. claim' = claim /\ status' = [status EXCEPT ![claim[w]] = "executing"]
      BY <2>3 DEF CommitClaim
    <3> QED
      BY <3>1 DEF TypeOK
  <2>4. ASSUME NEW result, result # "executing", NEW wait, pc[w] \in Working,
               Mark(w, result, wait)
        PROVE  Stranded(m)
    BY <2>4, MarkEffect
  <2>5. CASE MarkSendFailure(w) \/ MarkSent(w) \/ Rejects(w)
    BY <2>4, <2>5 DEF MarkSendFailure, MarkSent, Rejects, Working, AfterCall
  <2> QED
    BY <2>1, <2>2, <2>3, <2>5, WorkerKinds
<1>2. deaths' = deaths
  BY DEF WorkerStep, Start, LockNextRow, CommitClaim, CheckPrivateNote, CheckSuperseded,
         CheckStoredState, CheckChannelState, RecheckSuperseded, CreateMessage,
         MarkSendFailure, UpdateStatus, ReadLabels, ReplaceLabels, MarkSent, Pass, Mark
<1> QED
  BY <1>1, <1>2 DEF StrandedRows

(* A death strands at most the row of the worker.                              *)
LEMMA DeathStrandsOne ==
  ASSUME TypeOK, NEW w \in Workers, Die(w)
  PROVE  StrandedRows' \subseteq StrandedRows \cup {claim[w]} /\ deaths' = deaths + 1
<1>1. ASSUME NEW m \in Messages, Stranded(m)', m # claim[w] PROVE Stranded(m)
  <2>1. status' = status /\ \A v \in Workers : v # w => claim'[v] = claim[v]
    BY DEF Die, rows, TypeOK
  <2> QED
    BY <1>1, <2>1 DEF Stranded
<1> QED
  BY <1>1 DEF StrandedRows, Die

(* What happens around the executor strands nothing: a row that is queued is    *)
(* not executing.                                                             *)
LEMMA OthersStrandNone ==
  ASSUME TypeOK, Environment \/ Tick \/ UNCHANGED vars
  PROVE  StrandedRows' \subseteq StrandedRows /\ deaths' = deaths
<1>1. CASE Elsewhere \/ UNCHANGED vars
  BY <1>1 DEF Elsewhere, vars, rows, workers, StrandedRows, Stranded
<1>2. ASSUME NEW n \in Messages, Enqueue(n)
      PROVE  StrandedRows' \subseteq StrandedRows /\ deaths' = deaths
  <2>1. status' = [status EXCEPT ![n] = "queued"] /\ UNCHANGED workers
    BY <1>2 DEF Enqueue
  <2>2. \A m \in Messages : status'[m] = "executing" => status[m] = "executing"
    BY <2>1 DEF TypeOK
  <2> QED
    BY <2>1, <2>2 DEF StrandedRows, Stranded, workers
<1> QED
  BY <1>1, <1>2, AroundKinds

LEMMA StrandedStep ==
  ASSUME TypeOK, ClaimInv, StrandedInv, [Next]_vars
  PROVE  StrandedInv'
<1>1. deaths \in Nat
  BY DEF TypeOK
<1>2. CASE StrandedRows' \subseteq StrandedRows /\ deaths' = deaths
  <2>1. IsFiniteSet(StrandedRows') /\ Cardinality(StrandedRows') <= deaths
    BY <1>1, <1>2, Bounded DEF StrandedInv
  <2> QED
    BY <1>2, <2>1 DEF StrandedInv
<1>3. ASSUME NEW w \in Workers, Die(w) PROVE StrandedInv'
  <2>1. StrandedRows' \subseteq StrandedRows \cup {claim[w]} /\ deaths' = deaths + 1
    BY <1>3, DeathStrandsOne
  <2>2. IsFiniteSet(StrandedRows') /\ Cardinality(StrandedRows') <= deaths + 1
    BY <1>1, <2>1, Bounded DEF StrandedInv
  <2> QED
    BY <2>1, <2>2 DEF StrandedInv
<1> QED
  BY <1>2, <1>3, WorkerStrandsNone, OthersStrandNone
     DEF Next, Failure, Crash, SafetyReadError

(* Rows stuck in `executing` are never more than the processes that died, for     *)
(* any number of workers and rows: no check, answer or error of the code leaves   *)
(* a claimed row behind while its worker goes on.                                *)
THEOREM OnlyDeathsStrandRows == Spec => []StrandedOnlyByDeath
<1>1. Init => ClaimInv /\ StrandedInv
  <2> SUFFICES ASSUME Init PROVE ClaimInv /\ StrandedInv
    OBVIOUS
  <2>1. ClaimInv
    BY DEF Init, ClaimInv, ExclusiveClaim, Working, BeforeCall, AfterCall
  <2>2. StrandedRows = {} /\ deaths = 0
    BY DEF Init, StrandedRows, Stranded
  <2> QED
    BY <2>1, <2>2, FS_EmptySet DEF StrandedInv
<1>2. StrandedInv => StrandedOnlyByDeath
  BY DEF StrandedInv, StrandedRows, StrandedOnlyByDeath
<1> QED
  BY <1>1, <1>2, TypeCorrect, ClaimStep, StrandedStep, PTL DEF Spec
-----------------------------------------------------------------------------
(***************************************************************************)
(* Settled rows.                                                            *)
(***************************************************************************)
(* No step, of any worker, touches a row that is sent, blocked, superseded or  *)
(* given up.                                                                 *)
THEOREM SettledRowsAreFinal == Spec => SettledIsFinal
<1> DEFINE Final(m) == status[m] \in Terminal =>
                         /\ status'[m] = status[m]
                         /\ attempts'[m] = attempts[m]
                         /\ tries'[m] = tries[m]
<1>1. Init => ClaimInv
  BY DEF Init, ClaimInv, ExclusiveClaim, Working, BeforeCall, AfterCall
<1>2. ASSUME TypeOK, ClaimInv, Next, NEW m \in Messages PROVE Final(m)
  <2>1. ASSUME NEW w \in Workers, WorkerStep(w) PROVE Final(m)
    <3>1. CASE Start(w) \/ LockNextRow(w) \/ Moves(w)
      BY <3>1 DEF Start, LockNextRow, Moves, rows, calls
    <3>2. CASE CommitClaim(w)
      <4>1. /\ status[claim[w]] \notin Terminal
            /\ status' = [status EXCEPT ![claim[w]] = "executing"]
            /\ UNCHANGED <<attempts, tries>>
        BY <1>2, <3>2 DEF CommitClaim, ClaimInv, calls, Terminal
      <4> QED
        BY <1>2, <4>1 DEF TypeOK
    <3>3. CASE CreateMessage(w)
      BY <1>2, <3>3, CallEffect DEF rows, Terminal
    <3>4. CASE Rejects(w) \/ MarkSent(w) \/ MarkSendFailure(w)
      <4>1. /\ pc[w] \in Working
            /\ \E result \in Statuses, wait \in Nat : Mark(w, result, wait)
            /\ \/ attempts' = attempts
               \/ attempts' = [attempts EXCEPT ![claim[w]] = attemptCount[w] + 1]
        BY <3>4 DEF Rejects, MarkSent, MarkSendFailure, Working, BeforeCall, AfterCall,
                    Statuses, Terminal
      <4>2. status[claim[w]] = "executing"
        BY <1>2, <4>1 DEF ClaimInv, ExclusiveClaim
      <4>3. CASE m # claim[w]
        <5>1. status'[m] = status[m] /\ tries' = tries
          BY <1>2, <4>1, <4>3, MarkEffect DEF calls
        <5>2. attempts'[m] = attempts[m]
          BY <1>2, <4>1, <4>3 DEF TypeOK
        <5> QED
          BY <5>1, <5>2
      <4> QED
        BY <4>2, <4>3 DEF Terminal
    <3> QED
      BY <2>1, <3>1, <3>2, <3>3, <3>4, WorkerKinds
  <2>2. ASSUME NEW w \in Workers, Die(w) PROVE Final(m)
    BY <2>2 DEF Die, rows, calls
  <2>3. ASSUME NEW n \in Messages, Enqueue(n) PROVE Final(m)
    BY <1>2, <2>3 DEF Enqueue, calls, Terminal, TypeOK
  <2>4. CASE Elsewhere
    BY <2>4 DEF Elsewhere, calls
  <2> QED
    BY <1>2, <2>1, <2>2, <2>3, <2>4, AroundKinds
       DEF Next, Failure, Crash, SafetyReadError
<1>3. TypeOK /\ ClaimInv /\ [Next]_vars => [\A m \in Messages : Final(m)]_vars
  BY <1>2
<1> QED
  BY <1>1, <1>3, TypeCorrect, ClaimStep, PTL DEF Spec, SettledIsFinal
-----------------------------------------------------------------------------
(***************************************************************************)
(* Holds that stand since the claim.                                        *)
(***************************************************************************)
(* The history only forgets while a worker goes on with its row.             *)
LEMMA RememberEffect ==
  ASSUME Remember, NEW w \in Workers
  PROVE  /\ pc'[w] \in Working => standing'[w] \subseteq InForce(claim[w], publicMode[w])'
         /\ pc'[w] \in Working /\ pc[w] \in Working => \A h \in standing'[w] :
              h \in standing[w] \/ (pc[w] = "channel_read" /\ h[1] = "turn")
<1>1. CASE pc'[w] \notin Working
  BY <1>1
<1>2. CASE pc'[w] \in Working
  <2>1. standing'[w] = InForce(claim[w], publicMode[w])' \cap Recalled(w)
    BY <1>2 DEF Remember
  <2>2. standing'[w] \subseteq InForce(claim[w], publicMode[w])'
    BY <2>1
  <2>3. ASSUME pc[w] \in Working, NEW h \in standing'[w]
        PROVE  h \in standing[w] \/ (pc[w] = "channel_read" /\ h[1] = "turn")
    <3>1. h \in Recalled(w)
      BY <2>1, <2>3
    <3> QED
      BY <2>3, <3>1 DEF Recalled, TurnHolds
  <2> QED
    BY <2>2, <2>3
<1> QED
  BY <1>1, <1>2

LEMMA StepRemembers == Next => Remember
BY DEF Next, WorkerStep, Failure, Environment, Start, LockNextRow, CommitClaim,
       CheckPrivateNote, CheckSuperseded, CheckStoredState, CheckChannelState,
       RecheckSuperseded, CreateMessage, MarkSendFailure, UpdateStatus, ReadLabels,
       ReplaceLabels, MarkSent, Crash, SafetyReadError, Die, Mark, Pass, CustomerTurn,
       Enqueue, StoredStateChange, ChannelChange, Tick

(* The row a worker works on keeps its draft.                                *)
LEMMA DraftKept ==
  ASSUME TypeOK, ClaimInv, Next, NEW w \in Workers, pc[w] \in Working
  PROVE  draft'[claim[w]] = draft[claim[w]]
<1>1. CASE \E m \in Messages : Enqueue(m)
  <2>1. PICK m \in Messages :
          status[m] = "none" /\ \E d \in Drafts : draft' = [draft EXCEPT ![m] = d]
    BY <1>1 DEF Enqueue
  <2>2. claim[w] # m
    BY <2>1 DEF ClaimInv, ExclusiveClaim
  <2> QED
    BY <2>1, <2>2, HoldsRow DEF TypeOK
<1>2. CASE ~\E m \in Messages : Enqueue(m)
  <2>1. draft' = draft
    <3>1. ASSUME NEW v \in Workers, WorkerStep(v) PROVE draft' = draft
      BY <3>1, WorkerKinds DEF Start, LockNextRow, CommitClaim, CreateMessage,
         MarkSendFailure, MarkSent, Moves, Rejects, Mark, rows
    <3> QED
      BY <1>2, <3>1, AroundKinds
         DEF Next, Failure, Crash, SafetyReadError, Die, Elsewhere, rows
  <2> QED
    BY <2>1
<1> QED
  BY <1>1, <1>2

(* A worker that stays where it is, or moves past its call, forgets nothing     *)
(* that a check has established.                                             *)
LEMMA StandingKept ==
  ASSUME TypeOK, ClaimInv, Next, NEW w \in Workers, WorkerStanding(w),
         pc[w] \in Working, claim'[w] = claim[w],
         pc'[w] = pc[w] \/ pc'[w] \in AfterCall \cup {"stored_check"}
  PROVE  WorkerStanding(w)'
<1>1. pc'[w] \in Working
  BY DEF Working, BeforeCall
<1>2. \A h \in standing'[w] :
        h \in standing[w] \/ (pc[w] = "channel_read" /\ h[1] = "turn")
  BY <1>1, RememberEffect, StepRemembers
<1>3. IsPublic(claim[w])' <=> IsPublic(claim[w])
  BY DraftKept DEF IsPublic
<1>4. \A h \in standing'[w] : h[1] = "turn" => IsPublic(claim[w])'
  BY <1>1, RememberEffect, StepRemembers DEF InForce
<1> QED
  BY <1>1, <1>2, <1>3, <1>4 DEF WorkerStanding, AfterCall

LEMMA StandingStep ==
  ASSUME TypeOK, ClaimInv, StandingInv, [Next]_vars
  PROVE  StandingInv'
<1>1. CASE UNCHANGED vars
  BY <1>1 DEF StandingInv, WorkerStanding, IsPublic, vars, rows, workers
<1>2. ASSUME Next, NEW v \in Workers PROVE WorkerStanding(v)'
  <2>1. WorkerStanding(v) /\ Remember
    BY <1>2, StepRemembers DEF StandingInv
  <2>2. CASE pc'[v] \notin Working
    BY <2>2 DEF WorkerStanding
  <2>3. CASE pc'[v] = pc[v] /\ claim'[v] = claim[v] /\ pc[v] \in Working
    BY <1>2, <2>1, <2>3, StandingKept
  <2>4. ASSUME WorkerStep(v) PROVE WorkerStanding(v)'
    <3>1. CASE Start(v) \/ LockNextRow(v) \/ MarkSendFailure(v) \/ MarkSent(v) \/ Rejects(v)
      <4>1. pc'[v] \in {"idle", "claiming"}
        BY <3>1 DEF Start, LockNextRow, MarkSendFailure, MarkSent, Rejects, Mark, Goto, TypeOK
      <4> QED
        BY <4>1, <2>2 DEF Working, BeforeCall, AfterCall
    <3>2. CASE CommitClaim(v)
      <4>1. pc'[v] = "claimed" /\ claim' = claim
        BY <3>2 DEF CommitClaim, Goto, TypeOK
      <4>2. standing'[v] \subseteq InForce(claim[v], publicMode[v])'
        BY <2>1, <4>1, RememberEffect DEF Working, BeforeCall
      <4> QED
        BY <4>1, <4>2 DEF WorkerStanding, InForce
    <3>3. CASE CreateMessage(v)
      <4>1. pc[v] \in Working /\ pc'[v] \in AfterCall /\ claim' = claim
        BY <3>3, CallEffect DEF Working, BeforeCall
      <4> QED
        BY <1>2, <2>1, <4>1, StandingKept
    <3>4. CASE UpdateStatus(v) \/ ReadLabels(v) \/ ReplaceLabels(v)
      <4>1. pc[v] \in Working /\ pc'[v] \in AfterCall /\ claim' = claim
        BY <3>4 DEF UpdateStatus, ReadLabels, ReplaceLabels, Goto, TypeOK, Working, AfterCall
      <4> QED
        BY <1>2, <2>1, <4>1, StandingKept
    <3>5. ASSUME NEW to \in BeforeCall, pc[v] \in Working, Pass(v, to)
          PROVE  /\ pc'[v] = to /\ claim'[v] = claim[v]
                 /\ standing'[v] \subseteq InForce(claim[v], publicMode[v])
                 /\ \A h \in standing'[v] :
                      h \in standing[v] \/ (pc[v] = "channel_read" /\ h[1] = "turn")
                 /\ IsPublic(claim[v])' <=> IsPublic(claim[v])
      <4>1. pc'[v] = to /\ to \in Working /\ claim' = claim
        BY <3>5 DEF Pass, Goto, TypeOK, Working
      <4>2. InForce(claim[v], publicMode[v])' = InForce(claim[v], publicMode[v])
        BY <3>5 DEF Pass, InForce, StaticallyBlocked, IsPublic, HasNewer, StoredBlockers,
                    ChannelBlockers, rows, safety
      <4> QED
        BY <1>2, <2>1, <3>5, <4>1, <4>2, RememberEffect, DraftKept DEF IsPublic
    <3>6. CASE CheckPrivateNote(v) /\ ~Rejects(v)
      <4>1. /\ Pass(v, "send") /\ pc[v] = "claimed"
            /\ ~IsPublic(claim[v]) /\ ~StaticallyBlocked(claim[v], publicMode[v])
        BY <3>6 DEF CheckPrivateNote, Rejects, BeforeCall
      <4>2. standing'[v] = {}
        BY <3>5, <4>1 DEF InForce, Working, BeforeCall
      <4> QED
        BY <4>2 DEF WorkerStanding
    <3>7. CASE CheckSuperseded(v) /\ ~Rejects(v)
      <4>1. Pass(v, "stored_check") /\ pc[v] \in Working
        BY <3>7 DEF CheckSuperseded, Rejects, BeforeCall, Working
      <4> QED
        BY <1>2, <2>1, <3>5, <4>1, StandingKept DEF BeforeCall
    <3>8. CASE CheckStoredState(v) /\ ~Rejects(v)
      <4>1. /\ Pass(v, "channel_read") /\ pc[v] \in Working
            /\ ~StaticallyBlocked(claim[v], publicMode[v]) /\ StoredBlockers = {}
        BY <3>8 DEF CheckStoredState, Rejects, BeforeCall, Working
      <4> QED
        BY <2>1, <3>5, <4>1 DEF WorkerStanding, InForce, BeforeCall
    <3>9. CASE CheckChannelState(v) /\ ~Rejects(v)
      <4>1. /\ Pass(v, "recheck") /\ pc[v] = "channel_read" /\ pc[v] \in Working
            /\ ChannelBlockers = {}
        BY <3>9 DEF CheckChannelState, Rejects, BeforeCall, Working
      <4> QED
        BY <2>1, <3>5, <4>1 DEF WorkerStanding, InForce, BeforeCall
    <3>10. CASE RecheckSuperseded(v) /\ ~Rejects(v)
      <4>1. /\ Pass(v, "send") /\ pc[v] = "recheck" /\ pc[v] \in Working
            /\ ~HasNewer(claim[v])
        BY <3>10 DEF RecheckSuperseded, Rejects, BeforeCall, Working
      <4> QED
        BY <2>1, <3>5, <4>1 DEF WorkerStanding, InForce, BeforeCall
    <3> QED
      BY <2>4, <3>1, <3>2, <3>3, <3>4, <3>6, <3>7, <3>8, <3>9, <3>10 DEF WorkerStep
  <2>5. ASSUME NEW w \in Workers, w # v, WorkerStep(w) \/ Die(w)
        PROVE  pc'[v] = pc[v] /\ claim'[v] = claim[v]
    <3>1. CASE Start(w) \/ LockNextRow(w) \/ CommitClaim(w) \/ Moves(w) \/ Die(w)
      BY <3>1, <2>5 DEF Start, LockNextRow, CommitClaim, Moves, Die, Goto, TypeOK
    <3>2. CASE CreateMessage(w) \/ MarkSendFailure(w) \/ MarkSent(w) \/ Rejects(w)
      BY <3>2, <2>5 DEF CreateMessage, MarkSendFailure, MarkSent, Rejects, Mark, Goto, TypeOK
    <3> QED
      BY <2>5, <3>1, <3>2, WorkerKinds
  <2>6. CASE \E m \in Messages : Enqueue(m)
    BY <2>6, <2>2, <2>3 DEF Enqueue, workers
  <2>7. CASE Elsewhere
    BY <2>7, <2>2, <2>3 DEF Elsewhere, workers
  <2>8. CASE Die(v)
    BY <2>8, <2>2 DEF Die, Goto, TypeOK, Working, BeforeCall, AfterCall
  <2> QED
    BY <1>2, <2>2, <2>3, <2>4, <2>5, <2>6, <2>7, <2>8, AroundKinds
       DEF Next, Failure, Crash, SafetyReadError
<1> QED
  BY <1>1, <1>2 DEF StandingInv

(* A worker never calls create_message for a row that something has forbidden  *)
(* to send ever since the row was claimed.                                   *)
THEOREM StandingHoldsAreRespected == Spec => []RespectsStandingHolds
<1>1. Init => ClaimInv /\ StandingInv
  BY DEF Init, ClaimInv, ExclusiveClaim, StandingInv, WorkerStanding, Working, BeforeCall,
         AfterCall
<1>2. TypeOK /\ StandingInv => RespectsStandingHolds
  <2> SUFFICES ASSUME TypeOK, StandingInv, NEW w \in Workers, pc[w] = "send",
                      NEW h \in standing[w]
               PROVE  FALSE
    BY DEF RespectsStandingHolds, TypeOK
  <2>1. h[1] \in {"static", "turn", "stored", "channel"}
    BY DEF TypeOK, Hold
  <2> QED
    BY <2>1 DEF StandingInv, WorkerStanding, Working, BeforeCall
<1> QED
  BY <1>1, <1>2, TypeCorrect, ClaimStep, StandingStep, PTL DEF Spec
-----------------------------------------------------------------------------
(***************************************************************************)
(* Replies that are overtaken while they are queued.                        *)
(***************************************************************************)
(* An overtaken reply has not been called for, and whoever claims it has yet   *)
(* to look for newer turns.                                                  *)
Overtaken(m) ==
  /\ IsPublic(m) /\ HasNewer(m)
  /\ status[m] # "none" /\ tries[m] = 0
  /\ \A w \in Workers : claim[w] = m => pc[w] \in {"claiming", "claimed"}

(* Stored turns stay stored, queued drafts stay as they are.                  *)
LEMMA TurnsAndDraftsKept ==
  ASSUME TypeOK, [Next]_vars, NEW m \in Messages, status[m] # "none"
  PROVE  msgs \subseteq msgs' /\ draft'[m] = draft[m]
<1>1. ASSUME NEW w \in Workers, WorkerStep(w) PROVE msgs' = msgs /\ draft' = draft
  BY <1>1 DEF WorkerStep, Start, LockNextRow, CommitClaim, CheckPrivateNote, CheckSuperseded,
     CheckStoredState, CheckChannelState, RecheckSuperseded, CreateMessage, MarkSendFailure,
     UpdateStatus, ReadLabels, ReplaceLabels, MarkSent, Mark, Pass, rows, safety
<1>2. ASSUME NEW n \in Messages, Enqueue(n) PROVE msgs' = msgs /\ draft'[m] = draft[m]
  BY <1>2 DEF Enqueue, safety, TypeOK
<1>3. CASE Elsewhere \/ UNCHANGED vars
  <2>1. draft' = draft
    BY <1>3 DEF Elsewhere, vars, rows
  <2>2. msgs \subseteq msgs' \/ \E w \in Workers : WorkerStep(w)
    BY DEF Next, Failure, Crash, SafetyReadError, Die, Environment, CustomerTurn, Enqueue,
           StoredStateChange, ChannelChange, Tick, safety, vars
  <2> QED
    BY <1>1, <2>1, <2>2
<1>4. ASSUME NEW w \in Workers, Die(w) PROVE msgs' = msgs /\ draft' = draft
  BY <1>4 DEF Die, rows, safety
<1> QED
  BY <1>1, <1>2, <1>3, <1>4, AroundKinds DEF Next, Failure, Crash, SafetyReadError

(* The first check of a claimed reply that is overtaken supersedes it.         *)
LEMMA OvertakenSuperseded ==
  ASSUME NEW w \in Workers, WorkerStep(w), pc[w] = "claimed",
         IsPublic(claim[w]), HasNewer(claim[w])
  PROVE  Mark(w, "superseded", 0)
BY DEF WorkerStep, Start, LockNextRow, CommitClaim, CheckPrivateNote, CheckSuperseded,
       CheckStoredState, CheckChannelState, RecheckSuperseded, CreateMessage,
       MarkSendFailure, UpdateStatus, ReadLabels, ReplaceLabels, MarkSent

LEMMA OvertakenStep ==
  ASSUME TypeOK, ClaimInv, [Next]_vars, NEW m \in Messages, Overtaken(m)
  PROVE  Overtaken(m)'
<1>0. IsPublic(m)' /\ HasNewer(m)'
  BY TurnsAndDraftsKept DEF Overtaken, IsPublic, HasNewer
<1>a. m # NoRow
  BY DEF NoRow
<1>1. ASSUME NEW w \in Workers, WorkerStep(w) PROVE Overtaken(m)'
  <2>1. CASE claim[w] = m
    <3>1. pc[w] \in {"claiming", "claimed"}
      BY <2>1 DEF Overtaken
    <3>2. CASE pc[w] = "claiming"
      <4>1. /\ status'[m] # "none" /\ UNCHANGED <<claim, tries>>
            /\ pc' = [pc EXCEPT ![w] = "claimed"]
        <5>1. CommitClaim(w)
          BY <1>1, <3>2, WorkerKinds
             DEF Start, LockNextRow, CreateMessage, MarkSendFailure, MarkSent, Moves, Rejects,
                 BeforeCall
        <5> QED
          BY <2>1, <5>1 DEF CommitClaim, Goto, calls, TypeOK
      <4> QED
        BY <1>0, <4>1 DEF Overtaken, TypeOK
    <3>3. CASE pc[w] = "claimed"
      <4>1. Mark(w, "superseded", 0) /\ pc[w] \in Working
        BY <1>1, <2>1, <3>3, OvertakenSuperseded DEF Overtaken, Working, BeforeCall
      <4> QED
        BY <1>0, <1>a, <2>1, <4>1, MarkEffect DEF Overtaken, calls
    <3> QED
      BY <3>1, <3>2, <3>3
  <2>2. CASE claim[w] # m
    <3> DEFINE Apart == /\ status'[m] = status[m] /\ tries'[m] = tries[m]
                        /\ claim'[w] = m => pc'[w] = "claiming"
                        /\ \A v \in Workers : v # w => pc'[v] = pc[v] /\ claim'[v] = claim[v]
    <3>1. CASE Start(w) \/ LockNextRow(w)
      <4>1. Apart
        BY <2>2, <3>1 DEF Start, LockNextRow, Goto, rows, calls, TypeOK
      <4> QED
        BY <1>0, <4>1 DEF Overtaken
    <3>2. CASE CommitClaim(w) \/ Moves(w)
      <4>1. Apart
        BY <2>2, <3>2 DEF CommitClaim, Moves, Goto, rows, calls, TypeOK
      <4> QED
        BY <1>0, <4>1 DEF Overtaken
    <3>3. CASE MarkSendFailure(w) \/ MarkSent(w) \/ Rejects(w)
      <4>1. PICK result, wait : Mark(w, result, wait) /\ pc[w] \in Working
        BY <3>3 DEF MarkSendFailure, MarkSent, Rejects, Working, BeforeCall, AfterCall
      <4>2. Apart
        BY <1>a, <2>2, <4>1, MarkEffect DEF calls
      <4> QED
        BY <1>0, <4>2 DEF Overtaken
    <3>4. CASE CreateMessage(w)
      <4>1. Apart
        BY <2>2, <3>4, CallEffect DEF rows
      <4> QED
        BY <1>0, <4>1 DEF Overtaken
    <3> QED
      BY <1>1, <3>1, <3>2, <3>3, <3>4, WorkerKinds
  <2> QED
    BY <2>1, <2>2
<1>2. ASSUME NEW w \in Workers, Die(w) PROVE Overtaken(m)'
  BY <1>0, <1>a, <1>2 DEF Die, Goto, rows, calls, Overtaken, TypeOK
<1>3. ASSUME NEW n \in Messages, Enqueue(n) PROVE Overtaken(m)'
  BY <1>0, <1>3 DEF Enqueue, workers, calls, Overtaken, TypeOK
<1>4. CASE Elsewhere \/ UNCHANGED vars
  BY <1>0, <1>4 DEF Elsewhere, vars, rows, workers, calls, Overtaken
<1> QED
  BY <1>1, <1>2, <1>3, <1>4, AroundKinds DEF Next, Failure, Crash, SafetyReadError

(* A public reply that is still queued when a newer customer turn is stored is   *)
(* never sent, by any worker, at any later time.                               *)
THEOREM OvertakenRepliesAreNeverSent == Spec => QueuedReplySuperseded
<1>1. Init => ClaimInv /\ BudgetInv
  BY DEF Init, ClaimInv, ExclusiveClaim, BudgetInv, RowBudget, WorkerBudget, Working,
         BeforeCall, AfterCall
<1>2. ASSUME NEW m \in Messages
      PROVE  Spec => [](status[m] = "queued" /\ draft[m].kind = "public_message"
                          /\ (\E n \in msgs : n > m)
                        => [](tries[m] = 0))
  <2>1. TypeOK /\ ClaimInv /\ BudgetInv /\ status[m] = "queued"
          /\ draft[m].kind = "public_message" /\ (\E n \in msgs : n > m)
          => Overtaken(m)
    <3> SUFFICES ASSUME TypeOK, ClaimInv, BudgetInv, status[m] = "queued",
                        draft[m].kind = "public_message", \E n \in msgs : n > m
                 PROVE  Overtaken(m)
      OBVIOUS
    <3>1. tries[m] = 0
      BY DEF BudgetInv, RowBudget
    <3>2. ASSUME NEW w \in Workers, claim[w] = m PROVE pc[w] = "claiming"
      BY <3>2, HoldsRow DEF ClaimInv, ExclusiveClaim, NoRow
    <3> QED
      BY <3>1, <3>2 DEF Overtaken, IsPublic, HasNewer
  <2>2. TypeOK /\ ClaimInv /\ Overtaken(m) /\ [Next]_vars => Overtaken(m)'
    BY OvertakenStep
  <2>3. Overtaken(m) => tries[m] = 0
    BY DEF Overtaken
  <2> QED
    BY <1>1, <2>1, <2>2, <2>3, TypeCorrect, ClaimStep, BudgetStep, PTL DEF Spec
<1> QED
  BY <1>2 DEF QueuedReplySuperseded
=============================================================================
