-------------------------------- MODULE EpApi --------------------------------
(***************************************************************************)
(* encode_msg/2 and decode_msg/3 of enif_protobuf.erl: a load followed by  *)
(* an encode or decode, two calls of the schema service, between which     *)
(* every other process of the node goes on.                                *)
(***************************************************************************)
EXTENDS EpSchemaService

Codec == {"encode", "decode"}

\* Outcomes are told apart: a load's ok from what a codec makes of a message.
ASSUME ApiAssumption ==
    /\ Null \notin Schema \cup Name \cup Codec \cup (Codec \X Schema \X Name)
    /\ Null \notin {"load", "purge", "ok", "error", "alloc", "cache_not_exists"}
    /\ "ok" \notin Schema \cup Name
    /\ Raising \subseteq Schema

VARIABLES
    frame,      \* process -> the call it is in: <<codec, defs, name>>, or Null
    overtaken   \* for the properties: processes whose definitions another
                \* process has replaced since they loaded them

api == <<frame, overtaken>>
apiVars == <<vars, api>>

ApiInit ==
    /\ Init
    /\ frame = [t \in Thread |-> Null]
    /\ overtaken = {}

Frame(t, f) == frame' = [frame EXCEPT ![t] = f]
Idle(t) == frame[t] = Null /\ request[t] = Null

\* encode_msg(Msg, Defs) begins with load_cache(Defs).
CallMsg(t, codec, defs, name) ==
    /\ Idle(t)
    /\ Ask(t, "load", defs)
    /\ Frame(t, <<codec, defs, name>>)
    /\ UNCHANGED overtaken

\* Mutant: the result of the load is not matched with ok.
LoadReturnsAnything(t) ==
    /\ frame[t] # Null /\ request[t] = "load"
    /\ answer[t] # Null
    /\ Done(t)
    /\ UNCHANGED api

\* The load has returned ok.
LoadReturns(t) ==
    /\ frame[t] # Null /\ request[t] = "load"
    /\ answer[t] = "ok"
    /\ Done(t)
    /\ UNCHANGED api

\* encode(Msg), decode(Bin, Name).
CallCodec(t) ==
    /\ frame[t] # Null /\ request[t] = Null
    /\ Ask(t, frame[t][1], frame[t][3])
    /\ UNCHANGED api

\* The load has failed and the call raises what it raised.
Fails(t) == request[t] = "load" /\ answer[t] \in {"error", "alloc"}

\* The call ends, with the answer of the codec or a failed load.
MsgReturns(t) ==
    /\ frame[t] # Null
    /\ Fails(t) \/ (request[t] \in Codec /\ answer[t] # Null)
    /\ Frame(t, Null)
    /\ Done(t)
    /\ overtaken' = overtaken \ {t}

\* Other calls of the same processes, and the service at work.
CallOther(t) ==
    /\ Idle(t)
    /\ \/ \E s \in Schema : Ask(t, "load", s)
       \/ Ask(t, "purge", Null)
    /\ UNCHANGED api
OtherReturns(t) == frame[t] = Null /\ Done(t) /\ UNCHANGED api
Others(t) == {u \in Thread : frame[u] # Null /\ frame[u][2] # loaded'}
Work(t) ==
    /\ Load(t) \/ Purge(t) \/ Serve(t)
    /\ overtaken' = IF answer'[t] = "ok" \/ loaded' # loaded THEN (overtaken \cup Others(t)) \ {t} ELSE overtaken
    /\ UNCHANGED frame

Step(t) ==
    \/ LoadReturns(t) \/ CallCodec(t) \/ MsgReturns(t) \/ OtherReturns(t) \/ Work(t)
ApiNext == \E t \in Thread :
    \/ \E codec \in Codec, defs \in Schema, name \in Name : CallMsg(t, codec, defs, name)
    \/ CallOther(t) \/ Step(t)

ApiSpec == ApiInit /\ [][ApiNext]_apiVars

-----------------------------------------------------------------------------
(* Properties *)

\* What a codec answers for the schema s.
Expected(name, s) == IF name \in Defines[s] THEN s ELSE name
AnswersBy(t) ==
    frame[t] # Null /\ request[t] \in Codec /\ answer[t] \notin {Null, "alloc"} =>
        answer[t] = Expected(frame[t][3], frame[t][2])

\* Unless a purge or a load of something else took effect since its own load
\* did, a call is answered by the definitions it was given: what was in force
\* before and what others do with the same definitions makes no difference.
AnswersByItsDefs == \A t \in Thread : t \in overtaken \/ AnswersBy(t)
=============================================================================
