------------------------------ MODULE MCEpLoad ------------------------------
(* Loads of all definition lists of MCDefinitions, for TLC. *)
EXTENDS EpLoad, MCDefinitions

MCEnum == -9 .. -1
MCNode == -9 .. 9
=============================================================================
