---------------------------- MODULE MCTurnOrder ----------------------------
(* Small instances of TurnOrder: ids on both sides of a power of ten.         *)
EXTENDS TurnOrder

(* As texts, 10 comes before 8, and 8 before 9.                               *)
NumberedIds ==
  {[text |-> 3, numeric |-> TRUE, number |-> 8], [text |-> 4, numeric |-> TRUE, number |-> 9],
   [text |-> 1, numeric |-> TRUE, number |-> 10], [text |-> 2, numeric |-> TRUE, number |-> 11]}
=============================================================================
