------------------------------ MODULE MCEpCache ------------------------------
(* Instances of the entry points for TLC. *)
EXTENDS EpCacheRefinement, TLC

CONSTANTS t1, t2, t3, c1, c2, c3, c4, shallow, deep, person, order

\* Two schemas.  The first is recursive: its messages go deeper than its walk.
\* The second is deeper and wider, and the one with the message that callers
\* ask for.
MCDefines == shallow :> {} @@ deep :> {order}
MCNest == shallow :> 1 @@ deep :> 2
MCMaxNest == shallow :> 2 @@ deep :> 2
MCWidth == shallow :> 1 @@ deep :> 2

\* One schema with room for nothing else, for the other runs.
MCOneDefines == shallow :> {person}
MCOneNest == shallow :> 1
MCOneWidth == shallow :> 1

Set(k, v) == [key |-> k, val |-> v]
MCOptList == { <<Set("with_utf8", TRUE)>>,
               <<Set("string_as_list", TRUE), Null>>,
               <<Set("with_utf8", FALSE), Set("string_as_list", FALSE)>> }

\* One list, applied in part before it is refused.
MCBadOptList == { <<Set("with_utf8", TRUE), Null>> }

Symmetry == Permutations(Thread) \cup Permutations(CacheId)

=============================================================================
