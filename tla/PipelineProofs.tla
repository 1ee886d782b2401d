---------------------------- MODULE PipelineProofs ----------------------------
(***************************************************************************)
(* Theorems about RequestPipeline, whatever webhook secrets are            *)
(* configured.                                                             *)
(***************************************************************************)
EXTENDS RequestPipeline, SequenceTheorems, TLAPS

Names == {"logger", "cors", "recovery", "limiter", "signature", "handler"}
Codes == {200, 201, 204, 400, 401, 403, 404, 422, 429, 500, 503}

\* Where each function stands in the chain.
Places ==
    /\ Len(Chain) = IF sent.route \in Api THEN 6 ELSE 4
    /\ \A d \in 1..Len(Chain) :
        /\ Chain[d] \in Names
        /\ Chain[d] = "logger" <=> d = 1
        /\ Chain[d] = "cors" <=> d = 2
        /\ Chain[d] = "recovery" <=> d = 3
        /\ Chain[d] = "limiter" <=> d = 4 /\ sent.route \in Api
        /\ Chain[d] = "signature" <=> d = 5
        /\ Chain[d] = "handler" <=> d = Len(Chain)

LEMMA PlacesOfTheChain == Places
<1>. DEFINE outer == <<"logger", "cors", "recovery">>
            inner == IF sent.route \in Api THEN <<"limiter", "signature">>
                                           ELSE <<>>
            last == <<"handler">>
<1>1. outer \in Seq(Names) /\ inner \in Seq(Names)
      /\ last \in Seq(Names)
  <2>1. <<"limiter", "signature">> \in Seq(Names) /\ <<>> \in Seq(Names)
    BY DEF Names
  <2>2. outer \in Seq(Names) /\ last \in Seq(Names)
    BY DEF Names
  <2>. QED
    BY <2>1, <2>2
<1>2. /\ Len(outer) = 3 /\ Len(last) = 1
      /\ outer[1] = "logger" /\ outer[2] = "cors" /\ outer[3] = "recovery"
      /\ last[1] = "handler"
  OBVIOUS
<1>3. /\ Len(inner) = IF sent.route \in Api THEN 2 ELSE 0
      /\ sent.route \in Api => inner[1] = "limiter" /\ inner[2] = "signature"
  OBVIOUS
<1>4. Chain = outer \o inner \o last
  BY DEF Chain
<1>. HIDE DEF outer, inner, last
<1>5. /\ outer \o inner \in Seq(Names)
      /\ Len(outer \o inner) = Len(outer) + Len(inner)
      /\ \A i \in 1..Len(outer) + Len(inner) :
            (outer \o inner)[i] = IF i <= Len(outer) THEN outer[i]
                                  ELSE inner[i - Len(outer)]
  BY <1>1, ConcatProperties
<1>6. /\ Len(Chain) = 3 + Len(inner) + 1
      /\ \A i \in 1..3 + Len(inner) + 1 :
            Chain[i] = IF i <= 3 + Len(inner) THEN (outer \o inner)[i]
                       ELSE last[i - (3 + Len(inner))]
  <2>1. /\ Len((outer \o inner) \o last) = Len(outer \o inner) + Len(last)
        /\ \A i \in 1..Len(outer \o inner) + Len(last) :
              ((outer \o inner) \o last)[i] =
                  IF i <= Len(outer \o inner) THEN (outer \o inner)[i]
                  ELSE last[i - Len(outer \o inner)]
    BY <1>1, <1>5, ConcatProperties
  <2>2. Len(outer \o inner) = 3 + Len(inner)
    BY <1>2, <1>5
  <2>. QED
    BY <1>2, <1>4, <2>1, <2>2
<1>7. /\ \A i \in 1..3 : Chain[i] = outer[i]
      /\ \A i \in 4..3 + Len(inner) : Chain[i] = inner[i - 3]
      /\ Chain[3 + Len(inner) + 1] = last[1]
  <2>1. Len(inner) \in Nat
    BY <1>1
  <2>2. ASSUME NEW i \in 1..3 PROVE Chain[i] = outer[i]
    <3>1. i \in 1..3 + Len(inner) + 1 /\ i <= 3 + Len(inner)
          /\ i \in 1..Len(outer) + Len(inner) /\ i <= Len(outer)
      BY <1>2, <2>1
    <3>. QED
      BY <1>5, <1>6, <3>1
  <2>3. ASSUME NEW i \in 4..3 + Len(inner) PROVE Chain[i] = inner[i - 3]
    <3>1. i \in 1..3 + Len(inner) + 1 /\ i <= 3 + Len(inner)
          /\ i \in 1..Len(outer) + Len(inner) /\ ~(i <= Len(outer))
      BY <1>2, <2>1
    <3>. QED
      BY <1>2, <1>5, <1>6, <3>1
  <2>4. Chain[3 + Len(inner) + 1] = last[1]
    <3>1. /\ 3 + Len(inner) + 1 \in 1..3 + Len(inner) + 1
          /\ ~(3 + Len(inner) + 1 <= 3 + Len(inner))
          /\ 3 + Len(inner) + 1 - (3 + Len(inner)) = 1
      BY <2>1
    <3>. QED
      BY <1>6, <3>1
  <2>. QED
    BY <2>2, <2>3, <2>4
<1>8. Chain[1] = "logger" /\ Chain[2] = "cors" /\ Chain[3] = "recovery"
  <2>1. 1 \in 1..3 /\ 2 \in 1..3 /\ 3 \in 1..3
    OBVIOUS
  <2>. QED
    BY <1>2, <1>7, <2>1
<1>9. CASE sent.route \in Api
  <2>1. Len(inner) = 2 /\ inner[1] = "limiter" /\ inner[2] = "signature"
    BY <1>3, <1>9
  <2>2. Len(Chain) = 6 /\ Chain[6] = "handler"
    BY <1>2, <1>6, <1>7, <2>1
  <2>3. Chain[4] = "limiter" /\ Chain[5] = "signature"
    <3>1. 4 \in 4..3 + Len(inner) /\ 5 \in 4..3 + Len(inner)
      BY <2>1
    <3>2. Chain[4] = inner[1] /\ Chain[5] = inner[2]
      BY <1>7, <3>1
    <3>. QED
      BY <2>1, <3>2
  <2>4. 1..6 = {1, 2, 3, 4, 5, 6}
    OBVIOUS
  <2>. QED
    BY <1>8, <1>9, <2>2, <2>3, <2>4 DEF Places, Names
<1>10. CASE sent.route \notin Api
  <2>1. Len(inner) = 0
    BY <1>3, <1>10
  <2>2. Len(Chain) = 4 /\ Chain[4] = "handler"
    BY <1>2, <1>6, <1>7, <2>1
  <2>3. 1..4 = {1, 2, 3, 4}
    OBVIOUS
  <2>. QED
    BY <1>8, <1>10, <2>2, <2>3 DEF Places, Names
<1>. QED
  BY <1>9, <1>10

LEMMA ChainStays == sent' = sent => Chain' = Chain
BY DEF Chain

-----------------------------------------------------------------------------
\* A signature is absent, or is one of what has arrived.
Genuine == sent.signature = "none" \/ Matches

\* The handlers that act, and on what.
ActsOn(what) ==
    \/ what = "valid" /\ sent.route \in Binding /\ sent.body = "valid"
                      /\ sent.cut # "inside"
    \/ what = "id" /\ sent.route \in ById

\* A request that has to be carried out, unless it is limited.
Due ==
    /\ sent.route \in Binding
    /\ sent.body = "valid" /\ sent.cut # "inside"
    /\ Genuine
    /\ ~sent.preflight

\* An event of a payment provider.
Hook == sent.route \in Providers

\* On the way in: no answer, no deed, a body to read; the signature is behind
\* the request that has come to an API handler.
WayIn ==
    /\ depth \in 1..Len(Chain)
    /\ status = 0 /\ acted = "nothing" /\ logged = 0
    /\ stream = IF depth = 1 THEN "socket" ELSE "copy"
    /\ depth = Len(Chain) /\ sent.route \in Api => Genuine

\* A panic has left a handler that acts, and finds Recovery ahead of it.
Falling ==
    /\ depth \in 3..Len(Chain)
    /\ status = 0 /\ logged = 0
    /\ acted # "nothing"

\* An answer through gin, or an upgrade.
Answered ==
    \/ status \in Codes
    \/ status \in {0, 101} /\ sent.route = "ws"

\* On the way out: an answer, and no log line.
WayOut ==
    /\ depth \in 1..Len(Chain)
    /\ Answered /\ logged = 0

Gone ==
    /\ depth = 0
    /\ Answered /\ logged = Recorded

PInv ==
    /\ sent \in Sent
    /\ phase \in {"in", "out", "panic", "over"}
    /\ stream \in {"socket", "copy", "drained"}
    /\ phase = "in" => WayIn
    /\ phase = "panic" => Falling
    /\ phase = "out" => WayOut
    /\ phase = "over" => Gone
    /\ acted # "nothing" => ActsOn(acted) /\ Genuine
    /\ Due /\ phase # "in" => acted = "valid" \/ status = 429
    /\ Hook => status # 200

LEMMA Initially == Init => PInv
<1>. SUFFICES ASSUME Init PROVE PInv
  OBVIOUS
<1>1. 1 \in 1..Len(Chain) /\ 1 # Len(Chain)
  BY PlacesOfTheChain DEF Places
<1>. QED
  BY <1>1 DEF Init, PInv, WayIn

-----------------------------------------------------------------------------
(***************************************************************************)
(* The three ways a function goes on.                                      *)
(***************************************************************************)

\* c.Next() of a function other than the handler.
LEMMA GoesOn ==
    ASSUME PInv, phase = "in", depth < Len(Chain), Continue,
           UNCHANGED <<sent, acted, logged>>, stream' = "copy",
           depth = 5 => Genuine
    PROVE  PInv'
<1>1. Chain' = Chain /\ Len(Chain) \in {4, 6}
  BY ChainStays, PlacesOfTheChain DEF Places
<1>2. sent.route \in Api => Len(Chain) = 6
  BY PlacesOfTheChain DEF Places
<1>3. depth \in 1..Len(Chain) /\ depth' = depth + 1
  BY DEF PInv, WayIn, Continue
<1>4. WayIn'
  <2>1. depth' \in 1..Len(Chain') /\ depth' # 1
    BY <1>1, <1>3
  <2>2. depth' = Len(Chain') /\ sent'.route \in Api => Genuine'
    <3>1. sent' = sent
      OBVIOUS
    <3>2. Genuine => Genuine'
      BY <3>1 DEF Genuine, Matches
    <3>3. ASSUME depth' = Len(Chain'), sent'.route \in Api PROVE depth = 5
      <4>1. Len(Chain) = 6
        BY <1>2, <3>1, <3>3
      <4>2. depth + 1 = Len(Chain)
        BY <1>1, <1>3, <3>3
      <4>. QED
        BY <1>3, <4>1, <4>2
    <3>. QED
      BY <3>2, <3>3
  <2>3. status' = 0 /\ acted' = "nothing" /\ logged' = 0
    BY DEF PInv, WayIn, Continue
  <2>. QED
    BY <2>1, <2>2, <2>3 DEF WayIn
<1>. QED
  BY <1>4 DEF PInv, Continue, ActsOn, Genuine, Matches, Due, Hook

\* An answer that is given on the way in, or for a panic.
LEMMA Answers ==
    ASSUME PInv, depth \in 1..Len(Chain), logged = 0,
           NEW code \in Codes, Answer(code),
           UNCHANGED <<sent, logged>>,
           stream' \in {"socket", "copy", "drained"},
           acted' # "nothing" => ActsOn(acted') /\ Genuine,
           Due => acted' = "valid" \/ code = 429,
           Hook => code # 200
    PROVE  PInv'
<1>1. Chain' = Chain
  BY ChainStays
<1>2. WayOut'
  BY <1>1 DEF Answer, Answered, WayOut
<1>. QED
  BY <1>2 DEF PInv, Answer, ActsOn, Genuine, Matches, Due, Hook

\* What a handler that acts does.
LEMMA Acts ==
    ASSUME PInv, In("handler"), NEW what, ActsOn(what),
           NEW codes \in SUBSET Codes, Act(what, codes),
           UNCHANGED <<sent, logged>>,
           stream' \in {"socket", "copy", "drained"}
    PROVE  PInv'
<1>1. /\ WayIn /\ depth = Len(Chain)
      /\ sent.route \in Api
      /\ Len(Chain) = 6
  BY PlacesOfTheChain
     DEF In, PInv, WayIn, Places, ActsOn, Api
<1>2. Genuine
  BY <1>1 DEF WayIn
<1>3. acted' = what /\ what # "nothing"
  BY DEF Act, ActsOn
<1>4. Due => what = "valid"
  BY DEF Due, ActsOn, Binding, ById
<1>5. ~Hook
  BY DEF Hook, ActsOn, Binding, ById, Providers
<1>6. CASE \E code \in codes : Answer(code)
  BY <1>1, <1>2, <1>3, <1>4, <1>6, <1>5, Answers DEF WayIn
<1>7. CASE phase' = "panic" /\ UNCHANGED <<depth, status>>
  <2>1. Falling'
    <3>1. Len(Chain)' = 6 /\ depth' = 6
      BY <1>1, <1>7, ChainStays
    <3>2. status' = 0 /\ logged' = 0 /\ acted' # "nothing"
      BY <1>1, <1>3, <1>7 DEF WayIn
    <3>. QED
      BY <3>1, <3>2 DEF Falling
  <2>2. ActsOn(acted)' /\ Genuine'
    BY <1>2, <1>3 DEF ActsOn, Genuine, Matches
  <2>3. (Due /\ phase # "in" => acted = "valid" \/ status = 429)'
    BY <1>3, <1>4 DEF Due, Genuine, Matches
  <2>4. (Hook => status # 200)'
    BY <1>5 DEF Hook
  <2>. QED
    BY <1>7, <2>1, <2>2, <2>3, <2>4 DEF PInv
<1>. QED
  BY <1>6, <1>7 DEF Act

-----------------------------------------------------------------------------
LEMMA PStep == PInv /\ [Next]_vars => PInv'
<1>. SUFFICES ASSUME PInv, [Next]_vars PROVE PInv'
  OBVIOUS
<1>. USE PlacesOfTheChain
<1>1. CASE ReadBody
  BY <1>1, GoesOn DEF ReadBody, In, PInv, WayIn, Places
<1>2. CASE WriteLogLine
  <2>1. depth = 1 /\ Answered
    BY <1>2 DEF WriteLogLine, Out, PInv, WayOut, Places
  <2>2. Gone'
    BY <1>2, <2>1 DEF WriteLogLine, Gone, Answered, Recorded
  <2>. QED
    BY <1>2, <2>1, <2>2
       DEF WriteLogLine, Out, PInv, ActsOn, Genuine, Matches, Due, Hook
<1>3. CASE CORS
  <2>1. depth = 2 /\ WayIn
    BY <1>3 DEF CORS, In, PInv, WayIn, Places
  <2>2. CASE sent.preflight
    BY <1>3, <2>1, <2>2, Answers DEF CORS, WayIn, Codes, Due
  <2>3. CASE ~sent.preflight
    BY <1>3, <2>1, <2>3, GoesOn DEF CORS, In, WayIn, Places
  <2>. QED
    BY <2>2, <2>3
<1>4. CASE EnterRecovery
  <2>1. depth = 3 /\ WayIn
    BY <1>4 DEF EnterRecovery, In, PInv, WayIn, Places
  <2>. QED
    BY <1>4, <2>1, GoesOn DEF EnterRecovery, In, WayIn, Places
<1>5. CASE Recover
  <2>1. Falling /\ (Due => acted = "valid")
    BY <1>5 DEF Recover, PInv, Falling
  <2>. QED
    BY <1>5, <2>1, Answers DEF Recover, PInv, Falling, Codes
<1>6. CASE Limit
  <2>1. depth = 4 /\ WayIn /\ sent.route \in Api
    BY <1>6 DEF Limit, In, PInv, WayIn, Places
  <2>2. CASE Continue
    BY <1>6, <2>1, <2>2, GoesOn DEF Limit, In, WayIn, Places
  <2>3. CASE Answer(429)
    BY <1>6, <2>1, <2>3, Answers DEF Limit, WayIn, Codes
  <2>. QED
    BY <1>6, <2>2, <2>3 DEF Limit
<1>7. CASE VerifySignature
  <2>1. depth = 5 /\ WayIn
    BY <1>7 DEF VerifySignature, In, PInv, WayIn, Places
  <2>2. CASE Genuine
    BY <1>7, <2>1, <2>2, GoesOn DEF VerifySignature, In, WayIn, Places, Genuine
  <2>3. CASE ~Genuine
    <3>1. ~Due
      BY <2>3 DEF Due
    <3>. QED
      BY <1>7, <2>1, <2>3, <3>1, Answers
         DEF VerifySignature, WayIn, Codes, Genuine
  <2>. QED
    BY <2>2, <2>3
<1>8. CASE BindAndAct
  <2>1. WayIn /\ depth = Len(Chain) /\ stream = "copy"
    BY <1>8 DEF BindAndAct, In, PInv, WayIn, Places
  <2>2. CASE Decodes(stream)
    <3>1. /\ Readable(stream) = "valid"
          /\ sent.body = "valid" /\ sent.cut # "inside"
      BY <2>1, <2>2 DEF Decodes, Readable, Received
    <3>. QED
      BY <1>8, <2>2, <3>1, Acts DEF BindAndAct, ActsOn, Codes
  <2>3. CASE ~Decodes(stream)
    <3>1. ~Due
      BY <2>1, <2>3 DEF Decodes, Readable, Received, Due
    <3>. QED
      BY <1>8, <2>1, <2>3, <3>1, Answers
         DEF BindAndAct, Refuse, WayIn, Codes
  <2>. QED
    BY <2>2, <2>3
<1>9. CASE ActById
  <2>1. WayIn /\ depth = Len(Chain) /\ ~Due
    BY <1>9 DEF ActById, In, PInv, WayIn, Places, Due, Binding, ById
  <2>2. CASE Act("id", {200, 403, 422})
    BY <1>9, <2>2, Acts DEF ActById, PInv, ActsOn, Codes
  <2>3. CASE Refuse(400)
    BY <1>9, <2>1, <2>3, Answers DEF ActById, Refuse, WayIn, PInv, Codes
  <2>. QED
    BY <1>9, <2>2, <2>3 DEF ActById
<1>10. CASE AnswerQuery
  <2>1. WayIn /\ depth = Len(Chain) /\ ~Due /\ ~Hook
    BY <1>10 DEF AnswerQuery, In, PInv, WayIn, Places, Due, Hook, Binding,
                 Reading, Providers
  <2>2. PICK code \in Codes : Refuse(code)
    BY <1>10 DEF AnswerQuery, Codes
  <2>. QED
    BY <1>10, <2>1, <2>2, Answers DEF AnswerQuery, Refuse, WayIn, PInv
<1>11. CASE HandleWebhook
  <2>1. WayIn /\ depth = Len(Chain) /\ ~Due
    BY <1>11 DEF HandleWebhook, In, PInv, WayIn, Places, Due, Binding,
                 Providers
  <2>2. ~Decodes("drained")
    BY DEF Decodes, Readable
  <2>3. acted' = acted /\ \E code \in {400, 401} : Answer(code)
    BY <1>11, <2>2 DEF HandleWebhook
  <2>4. PICK code \in Codes : Answer(code) /\ code # 200
    BY <2>3 DEF Codes
  <2>. QED
    BY <1>11, <2>1, <2>3, <2>4, Answers DEF HandleWebhook, WayIn, PInv
<1>12. CASE UpgradeConnection
  <2>1. WayIn /\ ~Due /\ ~Hook
    BY <1>12 DEF UpgradeConnection, In, PInv, Due, Hook, Binding, Providers
  <2>2. CASE \E code \in {400, 403} : Refuse(code)
    BY <1>12, <2>1, <2>2, Answers
       DEF UpgradeConnection, Refuse, WayIn, PInv, Codes
  <2>3. CASE \E code \in {0, 101} : Refuse(code)
    <3>1. WayOut'
      BY <1>12, <2>1, <2>3, ChainStays
         DEF UpgradeConnection, Refuse, Answer, Answered, WayIn, WayOut
    <3>. QED
      BY <1>12, <2>1, <2>3, <3>1
         DEF UpgradeConnection, Refuse, Answer, PInv, WayIn, Due, Genuine,
             Matches, Hook
  <2>. QED
    BY <1>12, <2>2, <2>3 DEF UpgradeConnection
<1>13. CASE Unwind
  <2>1. Chain' = Chain
    BY <1>13, ChainStays DEF Unwind
  <2>2. CASE phase = "out"
    <3>1. depth \in 2..Len(Chain)
      BY <1>13, <2>2 DEF Unwind, PInv, WayOut, Places
    <3>2. WayOut'
      BY <1>13, <2>1, <2>2, <3>1 DEF Unwind, PInv, Answered, WayOut
    <3>. QED
      BY <1>13, <2>2, <3>1, <3>2
         DEF Unwind, PInv, ActsOn, Genuine, Matches, Due, Hook
  <2>3. CASE phase = "panic"
    <3>1. depth \in 4..Len(Chain)
      BY <1>13, <2>3 DEF Unwind, PInv, Falling, Places
    <3>2. Falling'
      BY <1>13, <2>1, <2>3, <3>1 DEF Unwind, PInv, Falling
    <3>. QED
      BY <1>13, <2>3, <3>1, <3>2
         DEF Unwind, PInv, ActsOn, Genuine, Matches, Due, Hook
  <2>. QED
    BY <1>13, <2>2, <2>3 DEF Unwind
<1>14. CASE UNCHANGED vars
  <2>1. Chain' = Chain
    BY <1>14, ChainStays DEF vars
  <2>. QED
    BY <1>14, <2>1
       DEF vars, PInv, WayIn, Falling, WayOut, Gone, Answered, Recorded,
           ActsOn, Genuine, Matches, Due, Hook
<1>. QED
  BY <1>1, <1>2, <1>3, <1>4, <1>5, <1>6, <1>7, <1>8, <1>9, <1>10, <1>11,
     <1>12, <1>13, <1>14 DEF Next
-----------------------------------------------------------------------------

(***************************************************************************)
(* The theorems.  One invariant says at which function of the chain, and   *)
(* on which way, a request of a given kind can be, and what the functions  *)
(* it has passed have made of it (main.go:69-97).                          *)
(***************************************************************************)
THEOREM PipelineInvariance == Spec => []PInv
BY Initially, PStep, PTL DEF Spec

\* The types of the variables: a request is at a function of its chain, and
\* has a line of the log when it is over (main.go:69-97, logging.go:32-44).
THEOREM PipelineTypeCorrect == Spec => []PipelineTypeOK
<1>1. PInv => PipelineTypeOK
  <2>. SUFFICES ASSUME PInv PROVE PipelineTypeOK
    OBVIOUS
  <2>. USE PlacesOfTheChain
  <2>1. depth \in 0..Len(Chain)
    BY DEF PInv, WayIn, Falling, WayOut, Gone, Places
  <2>2. /\ status \in Codes \cup {0, 101}
        /\ logged \in {0, Recorded}
        /\ logged # 0 <=> phase = "over"
    BY DEF PInv, WayIn, Falling, WayOut, Gone, Answered, Recorded, Codes
  <2>. QED
    BY <2>1, <2>2 DEF PInv, ActsOn, PipelineTypeOK, Codes
<1>. QED
  BY <1>1, PipelineInvariance, PTL

\* An object that has arrived, and is neither limited nor wrongly signed, is
\* acted on: the copy is still there when the handler reads it
\* (logging.go:26-30).
THEOREM Handled == Spec => []ValidIsHandled
<1>1. PInv => ValidIsHandled
  BY DEF PInv, Due, Genuine, Matches, ValidIsHandled
<1>. QED
  BY <1>1, PipelineInvariance, PTL

\* Every answer, a panic's too, is logged with its status: all functions that
\* can answer are inside of the logger (main.go:69-71).  An upgrade, which
\* leaves gin, is logged as 200.
THEOREM LogTrue == Spec => []LogIsTrue
<1>1. PInv => LogIsTrue
  BY DEF PInv, Gone, Answered, Recorded, Codes, LogIsTrue
<1>. QED
  BY <1>1, PipelineInvariance, PTL

\* No event of a provider is answered with 200: the signature takes the body,
\* and nothing is left to bind (webhook.go:61-78, 104-119).  A provider goes on
\* sending it.
NoEventAccepted == phase = "over" /\ sent.route \in Providers => status # 200

\* So it is with every event and every secret (webhook.go:61-78, 104-119).
THEOREM EventsRefused == Spec => []NoEventAccepted
<1>1. PInv => NoEventAccepted
  BY DEF PInv, Hook, NoEventAccepted
<1>. QED
  BY <1>1, PipelineInvariance, PTL
=============================================================================
