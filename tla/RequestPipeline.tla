--------------------------- MODULE RequestPipeline ---------------------------
(***************************************************************************)
(* One HTTP request on its way through the middleware (main.go:68-113,     *)
(* middleware/*.go) to its handler and back.  The body is a stream that is *)
(* read once: RequestLogger reads it and puts a copy in its place, the     *)
(* signature is checked over what was read, a handler reads the copy.      *)
(***************************************************************************)
EXTENDS Sequences, Naturals

CONSTANTS
    Secrets     \* providers whose webhook secret is configured

Providers == {"stripe", "momo"}

ASSUME SecretsAssumption == Secrets \subseteq Providers

Binding == {"create", "initiate"}       \* handlers that bind a JSON object
ById == {"authorize", "settle"}         \* handlers that need no body
Reading == {"list"}                     \* stands for all that only read
Api == Binding \cup ById \cup Reading \cup Providers
Routes == Api \cup {"ws", "health", "unknown"}

\* What a client may send.  `body' is what it wants to say: a JSON object with
\* all that the handler requires, or not; `cut' is where its connection breaks,
\* or ReadTimeout passes: nowhere, inside of the object, or after its end, in
\* what follows it.
Sent ==
    {s \in [route : Routes,
            preflight : BOOLEAN,
            body : {"valid", "invalid", "nothing"},
            cut : {"no", "inside", "after"},
            signature : {"none", "right", "wrong"},     \* X-Signature
            hook : {"none", "right", "wrong"}] :        \* X-Stripe-Signature
        /\ s.cut # "no" => s.body # "nothing"
        /\ s.hook # "none" => s.route \in Providers}

VARIABLES
    sent,       \* the request
    depth,      \* how many functions of the chain have been entered
    phase,      \* "in": entered; "out": returning; "panic"; "over"
    stream,     \* Request.Body: "socket", "copy", or "drained"
    status,     \* of the answer; 0 if there is none
    acted,      \* what the handler acted on
    logged      \* the status in the log line; 0 as long as there is none

vars == <<sent, depth, phase, stream, status, acted, logged>>

\* main.go:69-71, 91-92: each function calls the next one, or does not.
Chain_RecoveryFirst ==      \* Mutant: gin.Recovery registered first.
    <<"recovery", "logger", "cors">>
        \o (IF sent.route \in Api THEN <<"limiter", "signature">> ELSE <<>>)
        \o <<"handler">>

Chain ==
    <<"logger", "cors", "recovery">>
        \o (IF sent.route \in Api THEN <<"limiter", "signature">> ELSE <<>>)
        \o <<"handler">>

In(f) == phase = "in" /\ Chain[depth] = f
Out(f) == phase = "out" /\ Chain[depth] = f

\* c.Next(): the next function of the chain.
Continue == depth' = depth + 1 /\ UNCHANGED <<phase, status>>

\* An answer; the functions that were entered return.
Answer(code) == status' = code /\ phase' = "out" /\ UNCHANGED depth

\* What the bytes that arrive are to a JSON decoder, which stops after the
\* first value.
Received == IF sent.cut = "inside" THEN "part" ELSE sent.body

\* What reading a Request.Body to its end yields.
Readable(body) == IF body = "drained" THEN "nothing" ELSE Received

Init ==
    /\ sent \in Sent
    /\ depth = 1
    /\ phase = "in"
    /\ stream = "socket"
    /\ status = 0
    /\ acted = "nothing"
    /\ logged = 0

\* Mutant: the body is not put back.
ReadBody_NotRestored ==
    /\ In("logger")
    /\ stream' = "drained"
    /\ Continue
    /\ UNCHANGED <<sent, acted, logged>>

\* RequestLogger, before c.Next().  An error of the read is ignored: a copy
\* of what arrived takes the place of the body.
ReadBody ==
    /\ In("logger")
    /\ stream' = "copy"
    /\ Continue
    /\ UNCHANGED <<sent, acted, logged>>

\* c.Writer.Status(): what was written through gin, or 200.  The answer to an
\* upgrade is written to the connection itself.
Recorded == IF status \in {0, 101} THEN 200 ELSE status

\* RequestLogger, after c.Next().
WriteLogLine ==
    /\ Out("logger")
    /\ logged' = Recorded
    /\ depth' = depth - 1
    /\ phase' = IF depth = 1 THEN "over" ELSE phase
    /\ UNCHANGED <<sent, stream, status, acted>>

CORS ==
    /\ In("cors")
    /\ IF sent.preflight THEN Answer(204) ELSE Continue
    /\ UNCHANGED <<sent, stream, acted, logged>>

EnterRecovery ==
    /\ In("recovery")
    /\ Continue
    /\ UNCHANGED <<sent, stream, acted, logged>>

\* The deferred function of gin.Recovery.
Recover ==
    /\ phase = "panic"
    /\ Chain[depth] = "recovery"
    /\ Answer(500)
    /\ UNCHANGED <<sent, stream, acted, logged>>

\* See RateLimiter for the decision.
Limit ==
    /\ In("limiter")
    /\ Continue \/ Answer(429)
    /\ UNCHANGED <<sent, stream, acted, logged>>

\* A signature is one of all the bytes that the client wants to send, and it is
\* checked over those that arrived.
Matches == sent.signature = "right" /\ sent.cut = "no"

\* The answer 400, when there is no body to check, is never given: the logger
\* has set one.
VerifySignature ==
    /\ In("signature")
    /\ IF sent.signature = "none" \/ Matches THEN Continue ELSE Answer(401)
    /\ UNCHANGED <<sent, stream, acted, logged>>

\* The handler acts, and answers.  The broadcast of a payment, which comes
\* first, may panic (see WebSocketHub).
Act(what, codes) ==
    /\ acted' = what
    /\ \/ \E code \in codes : Answer(code)
       \/ /\ sent.route \in {"initiate"} \cup ById
          /\ phase' = "panic"
          /\ UNCHANGED <<depth, status>>

Refuse(code) == Answer(code) /\ UNCHANGED acted

\* ShouldBindJSON: the body yields an object.  One without its end is none.
Decodes(body) == Readable(body) = "valid"

BindAndAct ==
    /\ In("handler")
    /\ sent.route \in Binding
    /\ IF Decodes(stream) THEN Act(Readable(stream), {201, 422, 500})
                          ELSE Refuse(400)
    /\ stream' = "drained"
    /\ UNCHANGED <<sent, logged>>

ActById ==
    /\ In("handler")
    /\ sent.route \in ById
    /\ \/ Act("id", {200, 403, 422})
       \/ Refuse(400)           \* the id is not a UUID
    /\ UNCHANGED <<sent, stream, logged>>

AnswerQuery ==
    /\ In("handler")
    /\ sent.route \in Reading \cup {"health", "unknown"}
    /\ \E code \in CASE sent.route = "health" -> {200, 503}
                     [] sent.route = "unknown" -> {404}
                     [] OTHER -> {200, 400, 404, 500} : Refuse(code)
    /\ UNCHANGED <<sent, stream, logged>>

\* Hub.HandleConnect.  An upgrade takes the connection from gin and is answered
\* 101, or not at all when the connection fails; one that is refused is
\* answered through gin.  The read loop is a goroutine of its own.
UpgradeConnection ==
    /\ In("handler")
    /\ sent.route = "ws"
    /\ \E code \in {101, 0, 400, 403} : Refuse(code)
    /\ UNCHANGED <<sent, stream, logged>>

\* verifyHMACSignature, over the bytes that arrived.
Verified ==
    sent.route \in Secrets /\ sent.hook = "right" /\ sent.cut = "no"

\* HandleStripeWebhook and HandleMoMoWebhook read the body to its end, verify
\* it, and bind JSON from what is left in the same body.  (ReadAll cannot fail:
\* it reads the copy.)
HandleWebhook ==
    /\ In("handler")
    /\ sent.route \in Providers
    /\ stream' = "drained"
    /\ LET bound == Verified /\ Decodes(stream')
       IN  /\ acted' = IF bound THEN Received ELSE acted
           /\ Answer(IF bound THEN 200 ELSE IF Verified THEN 400 ELSE 401)
    /\ UNCHANGED <<sent, logged>>

\* A function without code after c.Next() returns; one that is not deferred
\* is passed by a panic.  Outside of all, net/http drops the connection.
Unwind ==
    /\ \/ phase = "out" /\ Chain[depth] # "logger"
       \/ phase = "panic" /\ Chain[depth] # "recovery"
    /\ depth' = depth - 1
    /\ phase' = IF depth = 1 THEN "over" ELSE phase
    /\ UNCHANGED <<sent, stream, status, acted, logged>>

Next ==
    \/ ReadBody \/ WriteLogLine \/ CORS \/ EnterRecovery \/ Recover
    \/ Limit \/ VerifySignature
    \/ BindAndAct \/ ActById \/ AnswerQuery \/ UpgradeConnection
    \/ HandleWebhook
    \/ Unwind

Spec == Init /\ [][Next]_vars
-----------------------------------------------------------------------------
(***************************************************************************)
(* Properties.                                                             *)
(***************************************************************************)

\* The types of the variables; the log line is the last thing that happens.
PipelineTypeOK ==
    /\ sent \in Sent
    /\ depth \in 0..Len(Chain)
    /\ phase \in {"in", "out", "panic", "over"}
    /\ stream \in {"socket", "copy", "drained"}
    /\ status \in
           {0, 101, 200, 201, 204, 400, 401, 403, 404, 422, 429, 500, 503}
    /\ acted \in {"nothing", "valid", "id"}
    /\ logged \in {0, Recorded}
    /\ logged # 0 <=> phase = "over"

\* Reading the body for the log, and for the signature, does not take it from
\* the handler: an object that has arrived whole is acted on, unless the
\* request is limited or its signature does not match; what breaks off behind
\* the object is no matter (logging.go:26-30, handler/payment.go:28,
\* handler/account.go:35).
ValidIsHandled ==
    ( /\ phase = "over"
      /\ sent.route \in Binding
      /\ sent.body = "valid" /\ sent.cut # "inside"
      /\ \/ sent.signature = "none"
         \/ sent.signature = "right" /\ sent.cut = "no"
      /\ ~sent.preflight
      /\ status # 429 ) => acted = "valid"

\* Every request that enters the chain is logged with the status of its answer,
\* also one whose handler panics: Recovery is inside of the logger
\* (main.go:69-71).  Only an upgrade to WebSocket is logged as 200, answered or
\* not: it goes past gin (logging.go:40, hub.go:69).
LogIsTrue ==
    phase = "over" =>
        \/ status # 0 /\ logged = status
        \/ sent.route = "ws" /\ status \in {0, 101} /\ logged = 200

\* "Inbound webhooks for Stripe and MTN MoMo" (README.md:52): an event whose
\* signature is right is received (handler/webhook.go:61-78, 104-119).
VerifiedIsAccepted ==
    ( /\ phase = "over"
      /\ sent.route \in Providers
      /\ Verified
      /\ sent.body = "valid"
      /\ sent.signature # "wrong"
      /\ ~sent.preflight
      /\ status # 429 ) => status = 200
=============================================================================
