------------------------------- MODULE MCEpApi -------------------------------
(* Processes that pass their definitions with every call, for TLC. *)
EXTENDS EpApi, TLC

CONSTANTS person, order, old, new, odd

\* The options of a field of odd have an improper tail.
MCDefines == old :> {person} @@ new :> {person, order} @@ odd :> {order}
=============================================================================
