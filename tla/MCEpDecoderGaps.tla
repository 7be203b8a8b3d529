-------------------------- MODULE MCEpDecoderGaps --------------------------
(* Binaries that decode() and its tests disagree about. *)
EXTENDS EpDecodeReference, MCSchema

\* Defined here, TLC evaluates it once.
MCMessages == CodecMessages

Sub == {<<8, 1>>, <<8, 2>>}
Alone(S) == {<<[name |-> "c", bin |-> w]>> : w \in S}

\* One message alternative of a oneof after the other.
OneofSwitch == Alone({Len1(3, v) \o Len1(4, w) : v, w \in Sub})
OneofSwitchSpec == todo \in OneofSwitch /\ Spec
=============================================================================
