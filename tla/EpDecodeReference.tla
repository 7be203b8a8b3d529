------------------------- MODULE EpDecodeReference -------------------------
(* What decode() promises: the recursive reading of the binary. *)
EXTENDS EpDecoder, EpReference

\* Every call on every binary ends with the tuple, or the error, that the
\* recursive reading of that binary gives; nothing of an earlier call, even
\* one that failed half way down, shows in it.  "Decoding is strict ... A
\* malformed binary raises instead of returning a partially decoded message"
\* (README.md:327-330).
DecodesAsReference ==
    /\ status = "done" => result = Reference(stack[1].node, wire)
    /\ status = "error" => Reference(stack[1].node, wire) = Bad
=============================================================================
