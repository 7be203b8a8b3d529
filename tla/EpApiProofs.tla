----------------------------- MODULE EpApiProofs -----------------------------
(***************************************************************************)
(* Proof that encode_msg/2 and decode_msg/3 answer by the definitions they *)
(* were given, whatever other processes call, for any number of processes, *)
(* definitions and messages.                                               *)
(***************************************************************************)
EXTENDS EpApi, TLAPS

Request == {Null, "load", "purge"} \cup Codec
Answer == {Null, "ok", "error", "alloc", "cache_not_exists"} \cup Schema \cup Name

ApiTypes ==
    /\ loaded \in Schema \cup {Null}
    /\ request \in [Thread -> Request]
    /\ subject \in [Thread -> Schema \cup Name \cup {Null}]
    /\ answer \in [Thread -> Answer]
    /\ frame \in [Thread -> (Codec \X Schema \X Name) \cup {Null}]
    /\ overtaken \subseteq Thread

\* What a process has asked for is what the call it is in needs.
Asked(t) ==
    /\ request[t] = Null => answer[t] = Null
    /\ request[t] = "load" => subject[t] \in Schema
    /\ request[t] \in Codec => frame[t] # Null /\ subject[t] = frame[t][3]
    /\ frame[t] # Null =>
        /\ request[t] \in {Null, "load"} \cup Codec
        /\ request[t] = "load" => subject[t] = frame[t][2]

\* From the load of its definitions to the answer of its codec.
Holding(t) ==
    /\ frame[t] # Null
    /\ \/ request[t] = Null
       \/ request[t] = "load" /\ answer[t] = "ok"
       \/ request[t] \in Codec /\ answer[t] = Null

\* In between, the definitions are in force unless somebody replaced them.
Served(t) == t \in overtaken \/ (AnswersBy(t) /\ (Holding(t) => loaded = frame[t][2]))

ApiInv == ApiTypes /\ \A t \in Thread : Asked(t) /\ Served(t)

-----------------------------------------------------------------------------
(* Steps *)

LEMMA CallMsgStep ==
    ASSUME ApiInv, NEW t \in Thread, NEW codec \in Codec, NEW defs \in Schema, NEW name \in Name,
           CallMsg(t, codec, defs, name)
    PROVE  ApiInv'
<1>1. /\ frame[t] = Null /\ request[t] = Null
      /\ request' = [request EXCEPT ![t] = "load"] /\ subject' = [subject EXCEPT ![t] = defs]
      /\ frame' = [frame EXCEPT ![t] = <<codec, defs, name>>]
      /\ UNCHANGED <<loaded, answer, overtaken>>
  BY DEF CallMsg, Idle, Ask, Frame
<1>2. ApiTypes'
  BY <1>1 DEF ApiInv, ApiTypes, Request
<1>3. answer[t] = Null
  BY <1>1 DEF ApiInv, Asked
<1>4. /\ request'[t] = "load" /\ subject'[t] = defs /\ frame'[t] = <<codec, defs, name>>
      /\ answer'[t] = Null
  BY <1>1, <1>3 DEF ApiInv, ApiTypes
<1>5. Asked(t)' /\ Served(t)'
  BY <1>4, ApiAssumption DEF Asked, Served, AnswersBy, Holding, Codec
<1>6. ASSUME NEW u \in Thread, u # t PROVE Asked(u)' /\ Served(u)'
  <2>1. /\ request'[u] = request[u] /\ subject'[u] = subject[u] /\ frame'[u] = frame[u]
        /\ answer'[u] = answer[u]
    BY <1>1, <1>6 DEF ApiInv, ApiTypes
  <2> QED BY <1>1, <2>1 DEF ApiInv, Asked, Served, AnswersBy, Holding
<1> QED BY <1>2, <1>5, <1>6 DEF ApiInv

LEMMA CallOtherStep ==
    ASSUME ApiInv, NEW t \in Thread, CallOther(t)
    PROVE  ApiInv'
<1>1. PICK o \in {"load", "purge"}, s \in Schema \cup {Null} : Ask(t, o, s) /\ (o = "load" => s \in Schema)
  BY DEF CallOther
<1>2. /\ frame[t] = Null /\ request[t] = Null
      /\ request' = [request EXCEPT ![t] = o] /\ subject' = [subject EXCEPT ![t] = s]
      /\ UNCHANGED <<loaded, answer, frame, overtaken>>
  BY <1>1 DEF CallOther, Idle, Ask, api
<1>3. ApiTypes'
  BY <1>2 DEF ApiInv, ApiTypes, Request
<1>4. request'[t] = o /\ subject'[t] = s /\ frame'[t] = Null
  BY <1>2 DEF ApiInv, ApiTypes
<1>5. Asked(t)' /\ Served(t)'
  <2>1. o # Null /\ o \notin Codec
    BY ApiAssumption DEF Codec
  <2> QED BY <1>1, <1>4, <2>1 DEF Asked, Served, AnswersBy, Holding
<1>6. ASSUME NEW u \in Thread, u # t PROVE Asked(u)' /\ Served(u)'
  <2>1. /\ request'[u] = request[u] /\ subject'[u] = subject[u] /\ frame'[u] = frame[u]
        /\ answer'[u] = answer[u]
    BY <1>2, <1>6 DEF ApiInv, ApiTypes
  <2> QED BY <1>2, <2>1 DEF ApiInv, Asked, Served, AnswersBy, Holding
<1> QED BY <1>3, <1>5, <1>6 DEF ApiInv

\* The end of the load, of the whole call, or of another call.
LEMMA DoneStep ==
    ASSUME ApiInv, NEW t \in Thread, LoadReturns(t) \/ MsgReturns(t) \/ OtherReturns(t)
    PROVE  ApiInv'
<1>1. /\ request' = [request EXCEPT ![t] = Null] /\ subject' = [subject EXCEPT ![t] = Null]
      /\ answer' = [answer EXCEPT ![t] = Null] /\ loaded' = loaded
  BY DEF LoadReturns, MsgReturns, OtherReturns, Done
<1>2. \/ frame' = frame /\ overtaken' = overtaken /\ frame[t] # Null /\ request[t] = "load" /\ answer[t] = "ok"
      \/ frame' = [frame EXCEPT ![t] = Null] /\ overtaken' = overtaken \ {t}
      \/ frame' = frame /\ overtaken' = overtaken /\ frame[t] = Null
  BY DEF LoadReturns, MsgReturns, OtherReturns, Frame, api
<1>3. ApiTypes'
  BY <1>1, <1>2 DEF ApiInv, ApiTypes, Request, Answer
<1>4. request'[t] = Null /\ subject'[t] = Null /\ answer'[t] = Null
  BY <1>1 DEF ApiInv, ApiTypes
<1>5. \/ frame'[t] = frame[t] /\ overtaken' = overtaken /\ frame[t] # Null
         /\ request[t] = "load" /\ answer[t] = "ok"
      \/ frame'[t] = Null
  BY <1>2 DEF ApiInv, ApiTypes
<1>6. Asked(t)' /\ Served(t)'
  BY <1>1, <1>4, <1>5, ApiAssumption DEF ApiInv, Asked, Served, AnswersBy, Holding
<1>7. ASSUME NEW u \in Thread, u # t PROVE Asked(u)' /\ Served(u)'
  <2>1. /\ request'[u] = request[u] /\ subject'[u] = subject[u] /\ frame'[u] = frame[u]
        /\ answer'[u] = answer[u] /\ (u \in overtaken' <=> u \in overtaken)
    BY <1>1, <1>2, <1>7 DEF ApiInv, ApiTypes
  <2> QED BY <1>1, <2>1 DEF ApiInv, Asked, Served, AnswersBy, Holding
<1> QED BY <1>3, <1>6, <1>7 DEF ApiInv

LEMMA CallCodecStep ==
    ASSUME ApiInv, NEW t \in Thread, CallCodec(t)
    PROVE  ApiInv'
<1>1. /\ frame[t] # Null /\ request[t] = Null
      /\ request' = [request EXCEPT ![t] = frame[t][1]]
      /\ subject' = [subject EXCEPT ![t] = frame[t][3]]
      /\ UNCHANGED <<loaded, answer, frame, overtaken>>
  BY DEF CallCodec, Ask, api
<1>2. frame[t] \in Codec \X Schema \X Name
  BY <1>1 DEF ApiInv, ApiTypes
<1>3. frame[t][1] \in Codec /\ frame[t][2] \in Schema /\ frame[t][3] \in Name
  BY <1>2
<1>4. ApiTypes'
  BY <1>1, <1>3 DEF ApiInv, ApiTypes, Request
<1>5. request'[t] = frame[t][1] /\ subject'[t] = frame[t][3] /\ answer'[t] = Null
  BY <1>1 DEF ApiInv, ApiTypes, Asked
<1>6. Asked(t)' /\ Served(t)'
  BY <1>1, <1>3, <1>5, ApiAssumption DEF ApiInv, Asked, Served, AnswersBy, Holding, Codec
<1>7. ASSUME NEW u \in Thread, u # t PROVE Asked(u)' /\ Served(u)'
  <2>1. /\ request'[u] = request[u] /\ subject'[u] = subject[u]
    BY <1>1, <1>7 DEF ApiInv, ApiTypes
  <2> QED BY <1>1, <2>1 DEF ApiInv, Asked, Served, AnswersBy, Holding
<1> QED BY <1>4, <1>6, <1>7 DEF ApiInv

\* A load or purge that takes effect: everybody else with other definitions is
\* overtaken, and whoever loads has what it asked for.
LEMMA InstallStep ==
    ASSUME ApiInv, NEW t \in Thread, frame[t] # Null => request[t] = "load",
           request[t] # Null, request[t] \notin Codec,
           NEW a \in {"ok", "error"}, answer' = [answer EXCEPT ![t] = a],
           UNCHANGED <<request, subject, frame>>,
           loaded' \in Schema \cup {Null}, request[t] = "load" => loaded' = subject[t],
           overtaken' = (overtaken \cup Others(t)) \ {t}
    PROVE  ApiInv'
<1>1. ApiTypes'
  BY DEF ApiInv, ApiTypes, Answer, Others
<1>2. answer'[t] = a
  BY DEF ApiInv, ApiTypes
<1>3. Asked(t)' /\ Served(t)'
  BY <1>2 DEF ApiInv, Asked, Served, AnswersBy, Holding
<1>4. ASSUME NEW u \in Thread, u # t PROVE Asked(u)' /\ Served(u)'
  <2>1. answer'[u] = answer[u]
    BY <1>4 DEF ApiInv, ApiTypes
  <2>2. u \in overtaken' \/ (u \notin overtaken /\ (frame[u] = Null \/ frame[u][2] = loaded'))
    BY <1>4 DEF Others
  <2> QED BY <2>1, <2>2 DEF ApiInv, Asked, Served, AnswersBy, Holding
<1> QED BY <1>1, <1>3, <1>4 DEF ApiInv

\* An answer that leaves the definitions in force alone.
LEMMA AnswerStep ==
    ASSUME ApiInv, NEW t \in Thread, request[t] # Null, answer[t] = Null,
           NEW a \in Answer \ {Null, "ok"},
           request[t] \in Codec /\ a # "alloc" =>
               a = IF loaded = Null THEN "cache_not_exists" ELSE Expected(subject[t], loaded),
           answer' = [answer EXCEPT ![t] = a],
           UNCHANGED <<loaded, request, subject, frame, overtaken>>
    PROVE  ApiInv'
<1>1. ApiTypes'
  BY DEF ApiInv, ApiTypes
<1>2. answer'[t] = a
  BY DEF ApiInv, ApiTypes
<1>3. Asked(t)'
  BY DEF ApiInv, Asked
<1>4. Served(t)'
  <2> SUFFICES ASSUME t \notin overtaken, frame[t] # Null PROVE Served(t)'
    BY DEF Served, AnswersBy, Holding
  <2>1. frame[t] \in Codec \X Schema \X Name
    BY DEF ApiInv, ApiTypes
  <2>2. frame[t][2] \in Schema /\ frame[t][2] # Null
    BY <2>1, ApiAssumption
  <2>3. request[t] \in Codec => loaded = frame[t][2] /\ subject[t] = frame[t][3]
    BY DEF ApiInv, Served, Asked, Holding
  <2>4. ~Holding(t)'
    BY <1>2 DEF Holding
  <2>5. AnswersBy(t)'
    BY <1>2, <2>2, <2>3 DEF AnswersBy
  <2> QED BY <2>4, <2>5 DEF Served
<1>5. ASSUME NEW u \in Thread, u # t PROVE Asked(u)' /\ Served(u)'
  <2>1. answer'[u] = answer[u]
    BY <1>5 DEF ApiInv, ApiTypes
  <2> QED BY <2>1 DEF ApiInv, Asked, Served, AnswersBy, Holding
<1> QED BY <1>1, <1>3, <1>4, <1>5 DEF ApiInv

LEMMA WorkStep ==
    ASSUME ApiInv, NEW t \in Thread, Work(t)
    PROVE  ApiInv'
<1>1. /\ UNCHANGED <<frame, request, subject>> /\ answer[t] = Null
      /\ overtaken' = IF answer'[t] = "ok" \/ loaded' # loaded THEN (overtaken \cup Others(t)) \ {t} ELSE overtaken
  BY DEF Work, Load, Purge, Serve, Give
<1>2. \A a : answer' = [answer EXCEPT ![t] = a] => answer'[t] = a
  BY DEF ApiInv, ApiTypes
<1>3. Asked(t) /\ "load" # Null /\ "purge" # Null /\ "load" \notin Codec /\ "purge" \notin Codec
      /\ Null \notin Codec
  BY ApiAssumption DEF ApiInv, Codec
<1>4. CASE Load(t)
  <2>1. ASSUME NEW a \in {"ok", "error"}, answer' = [answer EXCEPT ![t] = a], loaded' = subject[t],
               a = "ok" \/ loaded' # loaded
        PROVE  ApiInv'
    <3>1. request[t] = "load" /\ subject[t] \in Schema /\ answer'[t] = a
      BY <1>2, <1>3, <1>4, <2>1 DEF Load, Asked
    <3> QED BY <1>1, <1>3, <2>1, <3>1, InstallStep
  <2>2. ASSUME NEW e \in {"error", "alloc"}, answer' = [answer EXCEPT ![t] = e], UNCHANGED loaded
        PROVE  ApiInv'
    <3>1. e \in Answer \ {Null, "ok"} /\ answer'[t] = e
      BY <1>2, <2>2, ApiAssumption DEF Answer
    <3>2. request[t] = "load"
      BY <1>4 DEF Load
    <3> QED BY <1>1, <1>3, <2>2, <3>1, <3>2, AnswerStep
  <2>3. PICK a \in {"ok", "error", "alloc"} :
            /\ answer' = [answer EXCEPT ![t] = a]
            /\ loaded' = loaded \/ (loaded' = subject[t] /\ a # "alloc")
            /\ a = "ok" => loaded' = subject[t]
    BY <1>4 DEF Load, Give
  <2> QED BY <2>1, <2>2, <2>3
<1>5. CASE Purge(t)
  <2>1. request[t] = "purge" /\ answer' = [answer EXCEPT ![t] = "ok"] /\ loaded' = Null
    BY <1>5 DEF Purge, Give
  <2>2. frame[t] = Null
    BY <1>3, <2>1, ApiAssumption DEF Asked, Codec
  <2> QED BY <1>1, <1>2, <1>3, <2>1, <2>2, InstallStep
<1>6. CASE Serve(t)
  <2>1. request[t] \in Codec /\ loaded' = loaded
    BY <1>6 DEF Serve, Codec
  <2>2. PICK a : /\ answer' = [answer EXCEPT ![t] = a]
                 /\ a \in {"alloc", IF loaded = Null THEN "cache_not_exists" ELSE Expected(subject[t], loaded)}
    BY <1>6 DEF Serve, Give, Expected
  <2>3. frame[t] \in Codec \X Schema \X Name /\ subject[t] = frame[t][3]
    BY <1>3, <2>1 DEF Asked, ApiInv, ApiTypes
  <2>4. subject[t] \in Name /\ loaded \in Schema \cup {Null}
    BY <2>3 DEF ApiInv, ApiTypes
  <2>5. a \in Answer \ {Null, "ok"} /\ answer'[t] = a
    BY <1>2, <2>2, <2>4, ApiAssumption DEF Answer, Expected
  <2>6. UNCHANGED overtaken
    BY <1>1, <2>1, <2>5
  <2>7. request[t] # Null /\ (a # "alloc" =>
            a = IF loaded = Null THEN "cache_not_exists" ELSE Expected(subject[t], loaded))
    BY <1>3, <2>1, <2>2
  <2> QED BY <1>1, <2>1, <2>2, <2>5, <2>6, <2>7, AnswerStep
<1> QED BY <1>4, <1>5, <1>6 DEF Work

-----------------------------------------------------------------------------
(* The theorem *)

\* Whatever other processes load and purge, a call that was not overtaken by
\* them since its own load took effect is answered by the definitions it was
\* given (encode_msg/2, decode_msg/3).
THEOREM ItsDefsAnswer == ApiSpec => []AnswersByItsDefs
<1>1. ApiInit => ApiInv
  <2> SUFFICES ASSUME ApiInit PROVE ApiInv
    OBVIOUS
  <2>1. ApiTypes
    BY DEF ApiInit, Init, ApiTypes, Request, Answer
  <2>2. \A t \in Thread : request[t] = Null /\ answer[t] = Null /\ frame[t] = Null
    BY DEF ApiInit, Init
  <2> QED BY <2>1, <2>2, ApiAssumption DEF ApiInv, Asked, Served, AnswersBy, Holding
<1>2. ApiInv /\ [ApiNext]_apiVars => ApiInv'
  <2> SUFFICES ASSUME ApiInv, [ApiNext]_apiVars PROVE ApiInv'
    OBVIOUS
  <2>1. CASE UNCHANGED apiVars
    BY <2>1 DEF apiVars, vars, api, ApiInv, ApiTypes, Asked, Served, AnswersBy, Holding
  <2>2. ASSUME NEW t \in Thread, NEW codec \in Codec, NEW defs \in Schema, NEW name \in Name,
               CallMsg(t, codec, defs, name)
        PROVE  ApiInv'
    BY <2>2, CallMsgStep
  <2>3. ASSUME NEW t \in Thread, CallOther(t) PROVE ApiInv'
    BY <2>3, CallOtherStep
  <2>4. ASSUME NEW t \in Thread, Step(t) PROVE ApiInv'
    BY <2>4, DoneStep, CallCodecStep, WorkStep DEF Step
  <2> QED BY <2>1, <2>2, <2>3, <2>4 DEF ApiNext
<1>3. ApiInv => AnswersByItsDefs
  BY DEF ApiInv, Served, AnswersByItsDefs
<1> QED BY <1>1, <1>2, <1>3, PTL DEF ApiSpec
=============================================================================
