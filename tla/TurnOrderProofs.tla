-------------------------- MODULE TurnOrderProofs --------------------------
(***************************************************************************)
(* Proofs about TurnOrder, for every set of numbered message ids.           *)
(***************************************************************************)
EXTENDS TurnOrder, TLAPS

(* The rank of a turn, as Outbound has it.                                    *)
Before(m, n) == m.at < n.at \/ (m.at = n.at /\ m.id.number < n.id.number)

(* Among numbered ids, overtaking is coming later.                            *)
LEMMA OvertakingIsRank ==
  ASSUME Numbered, NEW m \in Turns, NEW n \in Turns, m.id # n.id
  PROVE  Overtakes(n, m) <=> Before(m, n)
BY TurnOrderAssumption DEF Numbered, Turns, Overtakes, MessageIdIsAfter, Before

LEMMA NoneOvertakesItself == ASSUME NEW m \in Turns PROVE ~Overtakes(m, m)
<1>1. m.at \in Nat
  BY TurnOrderAssumption DEF Turns
<1> QED BY <1>1 DEF Overtakes

(* Of two turns one is overtaken by the other, and not both: what Outbound        *)
(* assumes when it takes turns for numbers.                                   *)
THEOREM TurnsAreRanked ==
  ASSUME Numbered, NEW m \in Turns, NEW n \in Turns, m.id # n.id
  PROVE  /\ Overtakes(m, n) \/ Overtakes(n, m)
         /\ ~(Overtakes(m, n) /\ Overtakes(n, m))
<1>1. m.at \in Nat /\ n.at \in Nat /\ m.id.number \in Nat /\ n.id.number \in Nat
  BY TurnOrderAssumption DEF Turns
<1>2. m.id.number # n.id.number
  BY DEF Numbered, Turns
<1>3. Before(m, n) \/ Before(n, m)
  BY <1>1, <1>2 DEF Before
<1>4. ~(Before(m, n) /\ Before(n, m))
  BY <1>1 DEF Before
<1> QED BY <1>3, <1>4, OvertakingIsRank

(* And the order is transitive, so that it has no cycles.                      *)
THEOREM RanksAreTransitive ==
  ASSUME Numbered, NEW l \in Turns, NEW m \in Turns, NEW n \in Turns,
         l.id # m.id, m.id # n.id, Overtakes(l, m), Overtakes(m, n)
  PROVE  Overtakes(l, n)
<1>1. /\ l.at \in Nat /\ m.at \in Nat /\ n.at \in Nat
      /\ l.id.number \in Nat /\ m.id.number \in Nat /\ n.id.number \in Nat
  BY TurnOrderAssumption DEF Turns
<1>2. Before(n, m) /\ Before(m, l)
  BY OvertakingIsRank
<1>3. Before(n, l)
  BY <1>1, <1>2 DEF Before
<1>4. CASE l.id # n.id
  BY <1>3, <1>4, OvertakingIsRank
<1>5. CASE l.id = n.id
  BY <1>1, <1>3, <1>5 DEF Before, Overtakes
<1> QED BY <1>4, <1>5

(* Every variable has its type, and no message is stored twice.               *)
THEOREM TypeCorrect == Spec => []TypeOK
<1>1. Init => TypeOK
  BY DEF Init, TypeOK
<1>2. TypeOK /\ [Next]_stored => TypeOK'
  BY DEF TypeOK, Next, Store
<1> QED BY <1>1, <1>2, PTL DEF Spec

(* What LastTurnIsLeft says of the turn that is left.                          *)
IsLeft(m) ==
  /\ m \in stored
  /\ ~HasNewer(m)
  /\ \A n \in stored \ {m} : HasNewer(n) /\ Before(n, m)

(* It is enough that every other turn comes before it.                        *)
LEMMA LatestIsLeft ==
  ASSUME Numbered, TypeOK, NEW m \in stored, \A n \in stored \ {m} : Before(n, m)
  PROVE  IsLeft(m)
<1>1. stored \subseteq Turns /\ \A n \in stored \ {m} : n.id # m.id
  BY DEF TypeOK
<1>2. ASSUME NEW n \in stored  PROVE ~Overtakes(n, m)
  <2>1. CASE n = m
    BY <1>1, <2>1, NoneOvertakesItself
  <2>2. CASE n # m
    <3>1. Overtakes(m, n)
      BY <1>1, <2>2, OvertakingIsRank
    <3> QED BY <1>1, <2>2, <3>1, TurnsAreRanked
  <2> QED BY <2>1, <2>2
<1>3. ASSUME NEW n \in stored \ {m}  PROVE Overtakes(m, n)
  BY <1>1, OvertakingIsRank
<1> QED BY <1>2, <1>3 DEF IsLeft, HasNewer

(* In a burst of messages exactly one reply is not superseded, the one to the    *)
(* last of them: never none and never two, however many arrive in one second. *)
THEOREM LastTurnStays == Spec => []LastTurnIsLeft
<1> DEFINE Inv == Numbered /\ stored # {} => \E m \in stored : IsLeft(m)
<1>1. Inv => LastTurnIsLeft
  BY DEF LastTurnIsLeft, IsLeft, Before
<1>2. Init => Inv
  BY DEF Init
<1>3. ASSUME TypeOK, TypeOK', Inv, [Next]_stored  PROVE Inv'
  <2>1. CASE UNCHANGED stored
    BY <1>3, <2>1 DEF IsLeft, HasNewer
  <2>2. ASSUME NEW m \in Turns, Store(m), Numbered  PROVE \E l \in stored' : IsLeft(l)'
    <3>1. /\ stored' = stored \cup {m}
          /\ \A n \in stored : n.id # m.id
          /\ stored \subseteq Turns
      BY <1>3, <2>2 DEF Store, TypeOK
    <3>2. ASSUME NEW l \in stored', \A n \in stored' \ {l} : Before(n, l)  PROVE IsLeft(l)'
      <4>1. stored' \subseteq Turns /\ \A n \in stored' \ {l} : n.id # l.id
        BY <1>3 DEF TypeOK
      <4>2. \A n \in stored' : ~Overtakes(n, l)
        <5>1. ASSUME NEW n \in stored', n # l  PROVE ~Overtakes(n, l)
          BY <2>2, <3>2, <4>1, <5>1, OvertakingIsRank, TurnsAreRanked
        <5>2. ~Overtakes(l, l)
          BY <4>1, NoneOvertakesItself
        <5> QED BY <5>1, <5>2
      <4>3. \A n \in stored' \ {l} : Overtakes(l, n)
        BY <2>2, <3>2, <4>1, OvertakingIsRank
      <4> QED BY <3>2, <4>2, <4>3 DEF IsLeft, HasNewer
    <3>3. CASE stored = {}
      BY <3>1, <3>2, <3>3
    <3>4. CASE stored # {}
      <4>1. PICK l \in stored : \A n \in stored \ {l} : Before(n, l)
        BY <1>3, <2>2, <3>4 DEF IsLeft
      <4>2. l.id # m.id /\ l \in Turns
        BY <3>1
      <4>3. Before(l, m) \/ Before(m, l)
        BY <2>2, <4>2, OvertakingIsRank, TurnsAreRanked
      <4>4. CASE Before(m, l)
        BY <3>1, <3>2, <4>1, <4>4
      <4>5. CASE Before(l, m)
        <5>1. ASSUME NEW n \in stored, n # l  PROVE Before(n, m)
          <6>1. Before(n, l)
            BY <4>1, <5>1
          <6>2. /\ n.at \in Nat /\ l.at \in Nat /\ m.at \in Nat
                /\ n.id.number \in Nat /\ l.id.number \in Nat /\ m.id.number \in Nat
            BY <2>2, <3>1, TurnOrderAssumption DEF Turns
          <6> QED BY <4>5, <6>1, <6>2 DEF Before
        <5> QED BY <3>1, <3>2, <4>5, <5>1
      <4> QED BY <4>3, <4>4, <4>5
    <3> QED BY <3>3, <3>4
  <2>3. Numbered' <=> Numbered
    BY DEF Numbered
  <2> QED BY <1>3, <2>1, <2>2, <2>3 DEF Next
<1> QED BY <1>1, <1>2, <1>3, TypeCorrect, PTL DEF Spec
=============================================================================
