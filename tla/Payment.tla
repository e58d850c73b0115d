------------------------------ MODULE Payment ------------------------------
(***************************************************************************)
(* The payment of one trip: the payment service's consumers turn the       *)
(* create_session command into Stripe sessions, the rider pays a session   *)
(* it was offered, and the gateway's webhook turns Stripe's event into     *)
(* payment_success, which the trip service consumes (TripAccept).          *)
(*                                                                         *)
(* Stripe delivers an event until a delivery is answered with 200, and may *)
(* deliver it again while an earlier delivery is still being handled.      *)
(***************************************************************************)
EXTENDS Naturals, FiniteSets

CONSTANTS
  Workers,      \* consumers of the create_session queue, one per instance
  Handlers,     \* webhook requests the gateway may be handling at a time
  MaxAttempts,  \* runs of a handler per delivery: retry.Config.MaxRetries + 1
  MaxSessions,  \* bound: sessions created at Stripe
  Mishaps,      \* the kinds of mishap that may happen
  MaxMishaps    \* bound: mishaps in all

\* As in TripAccept; "eventTtl": the key of a Stripe event outlives its 24 h;
\* "lost": the channel dies with a publication in flight that returned nil,
\* there being no confirms.
Kinds == {"call", "crash", "channel", "claimTtl", "eventTtl", "lost"}

ASSUME PaymentAssumption ==
  /\ Workers \cap Handlers = {}
  /\ MaxAttempts \in Nat \ {0} /\ MaxSessions \in Nat
  /\ Mishaps \subseteq Kinds /\ MaxMishaps \in Nat

VARIABLES
  cmd,       \* RabbitMQ: where the create_session command is
  claim,     \* Redis: the command's idempotency key
  attached,  \* consumers whose AMQP channel is open
  pc,        \* each consumer's and each webhook handler's next step
  attempt,   \* the run of a consumer's handler
  session,   \* the session a consumer or a webhook handler is about, 0 if none
  sessions,  \* sessions at Stripe: 1..sessions
  offered,   \* published PaymentEventSessionCreated, by session
  event,     \* Stripe: the completed event of each session
  seen,      \* Redis: sessions whose event has its key stripe:event:<id>
  reported,  \* published PaymentEventSuccess, by session
  mishaps,   \* number of mishaps so far
  happened   \* and their kinds

queueVars  == <<cmd, claim, attached>>
stripeVars == <<sessions, event>>
outVars    == <<offered, reported>>
vars == <<queueVars, pc, attempt, session, stripeVars, outVars, seen, mishaps, happened>>

Ids == 1..MaxSessions

TypeOK ==
  /\ cmd \in {"ready", "held", "acked", "dead"}
  /\ claim \in {"none", "processing", "done"}
  /\ attached \subseteq Workers
  /\ pc \in [Workers \cup Handlers ->
       {"idle", "claim", "inspect", "create", "publish", "mark", "release", "ack", "reject"}]
  /\ attempt \in [Workers -> 1..MaxAttempts]
  /\ session \in [Workers \cup Handlers -> 0..MaxSessions]
  /\ sessions \in 0..MaxSessions
  /\ offered \subseteq 1..sessions
  /\ event \in [Ids -> {"open", "completed", "answered"}]
  /\ seen \subseteq {s \in offered : event[s] # "open"}
  /\ reported \in [Ids -> Nat]
  /\ mishaps \in 0..MaxMishaps
  /\ happened \subseteq Mishaps

Init ==
  /\ cmd = "ready" /\ claim = "none" /\ attached = Workers
  /\ pc = [p \in Workers \cup Handlers |-> "idle"]
  /\ attempt = [w \in Workers |-> 1]
  /\ session = [p \in Workers \cup Handlers |-> 0]
  /\ sessions = 0 /\ offered = {} /\ seen = {}
  /\ event = [s \in Ids |-> "open"]
  /\ reported = [s \in Ids |-> 0]
  /\ mishaps = 0 /\ happened = {}

-----------------------------------------------------------------------------

Mishap(k) ==
  /\ k \in Mishaps /\ mishaps < MaxMishaps
  /\ mishaps' = mishaps + 1
  /\ happened' = happened \cup {k}

Smooth == UNCHANGED <<mishaps, happened>>
CallFails == Mishap("call")

At(p, label) == pc[p] = label

Goto(w, label) == pc' = [pc EXCEPT ![w] = label] /\ UNCHANGED attempt

\* A mutation of Backoff: one run too many.
OneTooMany(w) ==
  IF attempt[w] <= MaxAttempts
  THEN /\ pc' = [pc EXCEPT ![w] = "claim"]
       /\ attempt' = [attempt EXCEPT ![w] = @ + 1]
  ELSE Goto(w, "reject")

Backoff(w) ==
  IF attempt[w] < MaxAttempts
  THEN /\ pc' = [pc EXCEPT ![w] = "claim"]
       /\ attempt' = [attempt EXCEPT ![w] = @ + 1]
  ELSE Goto(w, "reject")

Rest(p) ==
  /\ pc' = [pc EXCEPT ![p] = "idle"]
  /\ session' = [session EXCEPT ![p] = 0]

-----------------------------------------------------------------------------
(* The payment service's consumer.                                         *)

Deliver(w) ==
  /\ At(w, "idle") /\ w \in attached /\ cmd = "ready"
  /\ cmd' = "held" /\ Goto(w, "claim")
  /\ UNCHANGED <<claim, attached, session, stripeVars, outVars, seen, mishaps, happened>>

\* A mutation of Unclaimed: a claim is never refused.
ClaimAlways == claim # "done"
Unclaimed == claim = "none"

Claim(w) ==
  /\ At(w, "claim")
  /\ \/ Unclaimed /\ claim' = "processing" /\ Goto(w, "create") /\ Smooth
     \/ ~Unclaimed /\ UNCHANGED claim /\ Goto(w, "inspect") /\ Smooth
     \/ /\ CallFails /\ Backoff(w)
        /\ UNCHANGED claim \/ (Unclaimed /\ claim' = "processing")
  /\ UNCHANGED <<cmd, attached, session, stripeVars, outVars, seen>>

IsDone == claim = "done"

Inspect(w) ==
  /\ At(w, "inspect")
  /\ \/ IsDone /\ Goto(w, "ack") /\ Smooth
     \/ ~IsDone /\ Backoff(w) /\ Smooth
     \/ CallFails /\ Backoff(w)
  /\ UNCHANGED <<queueVars, session, stripeVars, outVars, seen>>

\* session.New sends no idempotency key of the service's own: every run of
\* the handler makes a session, and a call that fails may have made one.
Create(w) ==
  /\ At(w, "create")
  /\ \/ /\ sessions < MaxSessions /\ sessions' = sessions + 1
        /\ session' = [session EXCEPT ![w] = sessions + 1]
        /\ Goto(w, "publish") /\ Smooth
     \/ /\ CallFails /\ Goto(w, "release") /\ UNCHANGED session
        /\ \/ UNCHANGED sessions
           \/ sessions < MaxSessions /\ sessions' = sessions + 1
  /\ UNCHANGED <<queueVars, event, outVars, seen>>

\* The broker takes back what a consumer holds whose channel is gone.
Requeue(w) == cmd' = IF w \in attached /\ ~At(w, "idle") THEN "ready" ELSE cmd

\* PaymentEventSessionCreated, on the channel of the consumer.  The broker
\* drops a message whose frames it got in part: a publication that fails has
\* not gone out.  One that succeeds may still be in flight when the channel
\* dies, and is lost with it: the consumer finds out when it acknowledges.
PublishCreated(w) ==
  /\ At(w, "publish")
  /\ \/ /\ w \in attached /\ offered' = offered \cup {session[w]}
        /\ Goto(w, "mark") /\ Smooth /\ UNCHANGED <<cmd, attached>>
     \/ /\ w \in attached /\ Mishap("lost") /\ UNCHANGED offered
        /\ Goto(w, "mark") /\ Requeue(w) /\ attached' = attached \ {w}
     \/ /\ CallFails \/ (w \notin attached /\ Smooth)
        /\ Goto(w, "release") /\ UNCHANGED <<offered, cmd, attached>>
  /\ UNCHANGED <<claim, session, stripeVars, reported, seen>>

Mark(w) ==
  /\ At(w, "mark")
  /\ \/ /\ claim' = "done"
        /\ \/ Goto(w, "ack") /\ Smooth
           \/ CallFails /\ Backoff(w)
     \/ CallFails /\ Backoff(w) /\ UNCHANGED claim
  /\ UNCHANGED <<cmd, attached, session, stripeVars, outVars, seen>>

Release(w) ==
  /\ At(w, "release") /\ Backoff(w)
  /\ \/ claim' = "none" /\ Smooth
     \/ CallFails /\ UNCHANGED claim
  /\ UNCHANGED <<cmd, attached, session, stripeVars, outVars, seen>>

Settle(w) ==
  /\ pc[w] \in {"ack", "reject"}
  /\ cmd' = IF w \notin attached THEN cmd
            ELSE IF At(w, "ack") THEN "acked" ELSE "dead"
  /\ Rest(w) /\ attempt' = [attempt EXCEPT ![w] = 1]
  /\ UNCHANGED <<claim, attached, stripeVars, outVars, seen, mishaps, happened>>

Crash(w) ==
  /\ ~At(w, "idle") \/ w \notin attached
  /\ Mishap("crash") /\ Requeue(w) /\ attached' = attached \cup {w}
  /\ Rest(w) /\ attempt' = [attempt EXCEPT ![w] = 1]
  /\ UNCHANGED <<claim, stripeVars, outVars, seen>>

ChannelCloses(w) ==
  /\ w \in attached
  /\ Mishap("channel") /\ Requeue(w) /\ attached' = attached \ {w}
  /\ UNCHANGED <<claim, pc, attempt, session, stripeVars, outVars, seen>>

ClaimExpires ==
  /\ claim # "none" /\ claim' = "none" /\ Mishap("claimTtl")
  /\ UNCHANGED <<cmd, attached, pc, attempt, session, stripeVars, outVars, seen>>

-----------------------------------------------------------------------------
(* Stripe, and the gateway's webhook.                                      *)

\* The rider completes the checkout of a session it was sent.
RiderPays(s) ==
  /\ s \in offered /\ event[s] = "open"
  /\ event' = [event EXCEPT ![s] = "completed"]
  /\ UNCHANGED <<queueVars, pc, attempt, session, sessions, outVars, seen, mishaps, happened>>

Webhook(h, s) ==
  /\ At(h, "idle") /\ event[s] = "completed"
  /\ pc' = [pc EXCEPT ![h] = "mark"]
  /\ session' = [session EXCEPT ![h] = s]
  /\ UNCHANGED <<queueVars, attempt, stripeVars, outVars, seen, mishaps, happened>>

\* With 200 Stripe is content; with 500, or no answer, it delivers again.
Answer(h, status) ==
  /\ Rest(h)
  /\ event' = IF status = 200
              THEN [event EXCEPT ![session[h]] = "answered"] ELSE event

\* A mutation of FirstTime: the event's key is not looked at.
EveryTime(h) == TRUE
FirstTime(h) == session[h] \notin seen

\* SETNX of the event's key, before anything is done about the event.
MarkEvent(h) ==
  /\ At(h, "mark")
  /\ \/ /\ FirstTime(h) /\ seen' = seen \cup {session[h]}
        /\ pc' = [pc EXCEPT ![h] = "publish"]
        /\ Smooth /\ UNCHANGED <<session, event>>
     \/ ~FirstTime(h) /\ Answer(h, 200) /\ Smooth /\ UNCHANGED seen
     \/ /\ CallFails /\ Answer(h, 500)
        /\ UNCHANGED seen \/ seen' = seen \cup {session[h]}
  /\ UNCHANGED <<queueVars, attempt, sessions, outVars>>

\* The key stays when the publication fails, or succeeds and is lost in
\* flight.  An answer may get lost, too.
PublishSuccess(h) ==
  /\ At(h, "publish")
  /\ \/ /\ reported' = [reported EXCEPT ![session[h]] = @ + 1]
        /\ \/ Answer(h, 200) /\ Smooth
           \/ Rest(h) /\ UNCHANGED event /\ Mishap("crash")
     \/ Answer(h, 200) /\ Mishap("lost") /\ UNCHANGED reported
     \/ Answer(h, 500) /\ CallFails /\ UNCHANGED reported
  /\ UNCHANGED <<queueVars, attempt, sessions, offered, seen>>

\* The gateway dies, or Stripe gives up on a slow answer.
NoAnswer(h) ==
  /\ ~At(h, "idle") /\ Mishap("crash") /\ Rest(h)
  /\ UNCHANGED <<queueVars, attempt, stripeVars, outVars, seen>>

EventExpires(s) ==
  /\ s \in seen /\ seen' = seen \ {s} /\ Mishap("eventTtl")
  /\ UNCHANGED <<queueVars, pc, attempt, session, stripeVars, outVars>>

-----------------------------------------------------------------------------

Handle(w) ==
  \/ Claim(w) \/ Inspect(w) \/ Create(w) \/ PublishCreated(w)
  \/ Mark(w) \/ Release(w) \/ Settle(w)

Serve(h) == MarkEvent(h) \/ PublishSuccess(h)

Next ==
  \/ \E w \in Workers : Deliver(w) \/ Handle(w) \/ Crash(w) \/ ChannelCloses(w)
  \/ \E s \in Ids : RiderPays(s) \/ EventExpires(s)
  \/ \E h \in Handlers, s \in Ids : Webhook(h, s)
  \/ \E h \in Handlers : Serve(h) \/ NoAnswer(h)
  \/ ClaimExpires

Spec == Init /\ [][Next]_vars

-----------------------------------------------------------------------------

(* Over failed calls, crashes, closed channels and redeliveries the rider  *)
(* is offered one session: no second one as long as no claim outlives its  *)
(* 10 min, and at least one before the command is acknowledged, whichever  *)
(* instance does either, unless a publication that returned nil was lost   *)
(* with its channel: then the command is done, and no one is offered       *)
(* anything (trip_consumer.go:36-85, idempotency.go:62-75,                 *)
(* rabbitmq.go:150-158).                                                   *)
OneOffer ==
  /\ "lost" \notin happened => (cmd = "acked" => offered # {})
  /\ "claimTtl" \notin happened => Cardinality(offered) <= 1

(* However often Stripe delivers an event, and however deliveries overlap, *)
(* the payment is reported once (http.go:181-193).                         *)
ReportedOnce == "eventTtl" \notin happened => \A s \in Ids : reported[s] <= 1

(* An event that was answered with 200 has been processed, "false: the     *)
(* event was already processed, answer 200 at once" (http.go:240).         *)
AnsweredMeansReported ==
  \A s \in Ids :
    event[s] = "answered" /\ (\A h \in Handlers : session[h] # s) => reported[s] > 0
=============================================================================
