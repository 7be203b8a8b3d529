--------------------------- MODULE EpSchemaService ---------------------------
(***************************************************************************)
(* What the library promises its callers about the schema: one schema at a *)
(* time for the whole node, and every call taking effect in one step at    *)
(* some moment between its invocation and its return.                      *)
(***************************************************************************)
CONSTANTS Thread, Schema, Raising, Name, Null, Defines

VARIABLES
    loaded,    \* the schema in force, Null when none
    request,   \* the entry point a thread called, Null when it is idle
    subject,   \* the schema to load or the message name
    answer     \* the outcome, once the call has taken effect

vars == <<loaded, request, subject, answer>>

Init ==
    /\ loaded = Null
    /\ request = [t \in Thread |-> Null]
    /\ subject = [t \in Thread |-> Null]
    /\ answer = [t \in Thread |-> Null]

Ask(t, o, s) ==
    /\ request[t] = Null
    /\ request' = [request EXCEPT ![t] = o]
    /\ subject' = [subject EXCEPT ![t] = s]
    /\ UNCHANGED <<loaded, answer>>

Give(t, a) ==
    /\ answer[t] = Null
    /\ answer' = [answer EXCEPT ![t] = a]
    /\ UNCHANGED <<request, subject>>

\* A load installs its schema and says ok, or fails and changes nothing; that
\* of a schema in Raising installs it and fails.
Load(t) ==
    /\ request[t] = "load"
    /\ \/ Give(t, IF subject[t] \in Raising THEN "error" ELSE "ok") /\ loaded' = subject[t]
       \/ \E e \in {"error", "alloc"} : Give(t, e) /\ UNCHANGED loaded

Purge(t) ==
    /\ request[t] = "purge"
    /\ Give(t, "ok")
    /\ loaded' = Null

\* encode and decode are answered from the one schema in force: "not loaded",
\* the unknown name, or whatever that schema makes of the message.
Serve(t) ==
    /\ request[t] \in {"encode", "decode"}
    /\ \/ loaded = Null /\ Give(t, "cache_not_exists")
       \/ loaded # Null /\ subject[t] \notin Defines[loaded] /\ Give(t, subject[t])
       \/ loaded # Null /\ subject[t] \in Defines[loaded] /\ Give(t, loaded)
       \/ request[t] = "encode" /\ Give(t, "alloc")
    /\ UNCHANGED loaded

SetOpts(t) ==
    /\ request[t] = "set_opts"
    /\ \E r \in {"ok", "badarg"} : Give(t, r)
    /\ UNCHANGED loaded

Done(t) ==
    /\ answer[t] # Null
    /\ request' = [request EXCEPT ![t] = Null]
    /\ subject' = [subject EXCEPT ![t] = Null]
    /\ answer' = [answer EXCEPT ![t] = Null]
    /\ UNCHANGED loaded

Next == \E t \in Thread :
    \/ \E s \in Schema : Ask(t, "load", s)
    \/ \E n \in Name, o \in {"encode", "decode"} : Ask(t, o, n)
    \/ \E o \in {"purge", "set_opts"} : Ask(t, o, Null)
    \/ Load(t) \/ Purge(t) \/ Serve(t) \/ SetOpts(t) \/ Done(t)

Spec == Init /\ [][Next]_vars

=============================================================================
