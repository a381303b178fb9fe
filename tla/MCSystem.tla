------------------------------ MODULE MCSystem ------------------------------
(* Small instances of System.                                                *)
EXTENDS System
=============================================================================
