---------------------------- MODULE MCRelocation ----------------------------
(* Instances of Relocation.                                                *)
EXTENDS Relocation
=============================================================================
