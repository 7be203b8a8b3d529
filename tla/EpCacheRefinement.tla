-------------------------- MODULE EpCacheRefinement --------------------------
(***************************************************************************)
(* The entry points implement the schema service.  The loaded schema is    *)
(* the content of the cache that state->cache points to; a call has its    *)
(* answer as soon as its outcome is decided.                               *)
(***************************************************************************)
EXTENDS EpCache

LoadedSchema == IF cache = Null THEN Null ELSE heap[cache]

Service == INSTANCE EpSchemaService WITH
    loaded <- LoadedSchema,
    request <- op,
    subject <- [t \in Thread |-> IF op[t] = "set_opts" THEN Null ELSE arg[t]],
    answer <- ret

\* Calls of any number of threads behave as if each took effect at once at one
\* moment between its invocation and its return; a load that fails at any of
\* its steps leaves the schema in force as it was, and one that only raises for
\* the options of a field has its schema in force when it does.
ImplementsService == Service!Spec

=============================================================================
