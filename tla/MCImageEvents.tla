-------------------------- MODULE MCImageEvents --------------------------
(* Instances of ImageEvents for TLC; all constants have their values in the *)
(* configurations.                                                          *)
EXTENDS ImageEvents
=============================================================================
