------------------------------ MODULE MCWakeup ------------------------------
(* Small instances of Wakeup.                                                *)
EXTENDS Wakeup
=============================================================================
