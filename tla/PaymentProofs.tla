---------------------------- MODULE PaymentProofs ----------------------------
(***************************************************************************)
(* What TLAPS proves of Payment, for any number of consumers, webhook      *)
(* requests, runs of a handler, sessions and mishaps.                      *)
(***************************************************************************)
EXTENDS Payment, FiniteSetTheorems, TLAPS

\* What a consumer and a webhook request are about: a session that was made,
\* and one that was offered and paid.
AboutInv ==
  /\ \A w \in Workers : session[w] <= sessions
  /\ \A w \in Workers : pc[w] = "publish" => session[w] # 0
  /\ \A h \in Handlers : pc[h] \in {"idle", "mark", "publish"}
  /\ \A h \in Handlers : pc[h] # "idle" => event[session[h]] # "open" /\ session[h] \in Ids
  /\ \A s \in Ids : event[s] # "open" => s \in offered

TypeInv == TypeOK /\ AboutInv

\* Unless its key expired, an event that was reported has its key, and so has
\* one that is about to be, by one request only.
ReportInv ==
  "eventTtl" \notin happened =>
    /\ \A s \in Ids : reported[s] <= 1 /\ (reported[s] > 0 => s \in seen)
    /\ \A h \in Handlers : pc[h] = "publish" => session[h] \in seen /\ reported[session[h]] = 0
    /\ \A h, g \in Handlers : pc[h] = "publish" /\ pc[g] = "publish" /\ session[h] = session[g] => h = g

\* Who may release the claim, or has yet to mark it done.
Owns(w) == pc[w] \in {"create", "publish", "release", "mark"}

\* What is done, or about to be acknowledged, was offered, unless the offer
\* was lost in flight.
DoneInv ==
  "lost" \notin happened =>
    /\ claim = "done" => offered # {}
    /\ \A w \in Workers : pc[w] \in {"mark", "ack"} => offered # {}
    /\ cmd = "acked" => offered # {}

\* Unless it expired the claim has one owner, and is never given up once a
\* session was offered.
ClaimInv ==
  "claimTtl" \notin happened =>
    /\ \A w \in Workers : Owns(w) => claim = "processing"
    /\ \A w, v \in Workers : Owns(w) /\ Owns(v) => w = v
    /\ offered # {} => claim # "none" /\ \A w \in Workers : pc[w] \notin {"create", "publish", "release"}
    /\ \A s, t \in offered : s = t

PaymentInv == TypeInv /\ ReportInv /\ DoneInv /\ ClaimInv

-----------------------------------------------------------------------------
(* Types.                                                                  *)

\* Mishaps are counted, and their kinds kept.
LEMMA LuckTypes ==
  ASSUME TypeOK, [Next]_vars
  PROVE  /\ mishaps' \in 0..MaxMishaps /\ happened' \subseteq Mishaps
         /\ happened \subseteq happened'
  <1>1. UNCHANGED <<mishaps, happened>> \/ \E k \in Kinds : Mishap(k)
    BY DEF Next, Deliver, Handle, Claim, Inspect, Create, PublishCreated, Mark, Release, Settle, Crash,
           ChannelCloses, RiderPays, EventExpires, Webhook, Serve, MarkEvent, PublishSuccess, NoAnswer,
           ClaimExpires, Smooth, CallFails, vars, Kinds
  <1>2. QED
    BY <1>1, PaymentAssumption DEF TypeOK, Mishap

\* The queue and the claim.
LEMMA QueueTypes ==
  ASSUME TypeOK, [Next]_vars
  PROVE  /\ cmd' \in {"ready", "held", "acked", "dead"} /\ claim' \in {"none", "processing", "done"}
         /\ attached' \subseteq Workers
  <1>1. cmd' \in {"ready", "held", "acked", "dead"}
    BY DEF TypeOK, Next, Deliver, Handle, Claim, Inspect, Create, PublishCreated, Mark, Release, Settle, Crash,
           ChannelCloses, Requeue, RiderPays, EventExpires, Webhook, Serve, MarkEvent, PublishSuccess,
           NoAnswer, ClaimExpires, vars, queueVars
  <1>2. claim' \in {"none", "processing", "done"}
    BY DEF TypeOK, Next, Deliver, Handle, Claim, Inspect, Create, PublishCreated, Mark, Release, Settle, Crash,
           ChannelCloses, RiderPays, EventExpires, Webhook, Serve, MarkEvent, PublishSuccess,
           NoAnswer, ClaimExpires, vars, queueVars
  <1>3. attached' \subseteq Workers
    BY DEF TypeOK, Next, Deliver, Handle, Claim, Inspect, Create, PublishCreated, Mark, Release, Settle, Crash,
           ChannelCloses, RiderPays, EventExpires, Webhook, Serve, MarkEvent, PublishSuccess,
           NoAnswer, ClaimExpires, vars, queueVars
  <1>4. QED
    BY <1>1, <1>2, <1>3

\* A consumer's step, by where it leads; a session is made before it is
\* published, and the rest is Stripe's.
WorkerStep(w) == Deliver(w) \/ Handle(w) \/ Crash(w) \/ ChannelCloses(w)

\* Trying again or giving up.
LEMMA BackoffMoves ==
  ASSUME TypeOK, NEW w \in Workers, Backoff(w)
  PROVE  /\ attempt' \in [Workers -> 1..MaxAttempts]
         /\ \E l \in {"claim", "reject"} : pc' = [pc EXCEPT ![w] = l]
  BY PaymentAssumption DEF TypeOK, Backoff, Goto

\* Where a step of a consumer leads: to the session only through a claim.
LEMMA WorkerMoves ==
  ASSUME TypeInv, NEW w \in Workers, WorkerStep(w)
  PROVE  /\ attempt' \in [Workers -> 1..MaxAttempts]
         /\ \E l \in {"idle", "claim", "inspect", "create", "publish", "mark", "release", "ack", "reject"} :
              /\ pc' = [pc EXCEPT ![w] = l]
              /\ \/ l = pc[w] /\ ChannelCloses(w)
                 \/ l \in {"idle", "claim", "inspect", "reject"}
                 \/ l = "create" /\ Claim(w) /\ claim = "none"
                 \/ l = "publish" /\ Create(w) /\ session'[w] = sessions + 1 /\ sessions' = sessions + 1
                 \/ /\ l = "mark" /\ PublishCreated(w)
                    /\ offered' = offered \cup {session[w]} \/ "lost" \in happened'
                 \/ l = "release" /\ pc[w] \in {"create", "publish"}
                 \/ l = "ack" /\ (Mark(w) \/ (Inspect(w) /\ claim = "done"))
  <1> USE PaymentAssumption DEF TypeInv, TypeOK
  <1>1. w \in DOMAIN pc /\ w \in DOMAIN session
    OBVIOUS
  <1>2. CASE Deliver(w) \/ Claim(w)
    BY <1>1, <1>2, BackoffMoves DEF Deliver, Claim, Goto, Unclaimed
  <1>3. CASE Inspect(w) \/ Release(w) \/ Mark(w)
    BY <1>1, <1>3, BackoffMoves DEF Inspect, Release, Mark, Goto, IsDone
  <1>4. CASE Create(w)
    BY <1>1, <1>4 DEF Create, Goto, At
  <1>5. CASE PublishCreated(w)
    BY <1>1, <1>5 DEF PublishCreated, Goto, At, Mishap
  <1>6. CASE Settle(w) \/ Crash(w)
    BY <1>1, <1>6 DEF Settle, Crash, Rest
  <1>7. CASE ChannelCloses(w)
    <2>1. pc' = [pc EXCEPT ![w] = pc[w]] /\ attempt' = attempt
      BY <1>7 DEF ChannelCloses
    <2>2. QED
      BY <1>7, <2>1
  <1>8. QED
    BY <1>2, <1>3, <1>4, <1>5, <1>6, <1>7 DEF WorkerStep, Handle

\* What else a consumer's step changes: it may make a session, or offer the
\* one it made.
LEMMA WorkerMakes ==
  ASSUME TypeInv, NEW w \in Workers, WorkerStep(w)
  PROVE  /\ UNCHANGED <<event, reported, seen>>
         /\ sessions' \in 0..MaxSessions /\ sessions <= sessions'
         /\ session' \in [Workers \cup Handlers -> 0..MaxSessions]
         /\ \A p \in Workers \cup Handlers : p # w => session'[p] = session[p]
         /\ session'[w] <= sessions'
         /\ \/ offered' = offered
            \/ PublishCreated(w) /\ session[w] # 0 /\ offered' = offered \cup {session[w]}
  <1> USE PaymentAssumption DEF TypeInv, TypeOK
  <1>1. UNCHANGED <<event, reported, seen>>
    BY DEF WorkerStep, Handle, Deliver, Claim, Inspect, Create, PublishCreated, Mark, Release, Settle, Crash,
           ChannelCloses, outVars, stripeVars
  <1>2. /\ sessions' \in 0..MaxSessions /\ sessions <= sessions'
        /\ session' \in [Workers \cup Handlers -> 0..MaxSessions]
        /\ \A p \in Workers \cup Handlers : p # w => session'[p] = session[p]
        /\ session'[w] <= sessions'
    <2>1. CASE Create(w)
      BY <2>1 DEF Create, AboutInv
    <2>2. CASE Settle(w) \/ Crash(w)
      BY <2>2 DEF Settle, Crash, Rest, stripeVars
    <2>3. CASE Deliver(w) \/ Claim(w) \/ Inspect(w) \/ PublishCreated(w) \/ Mark(w) \/ Release(w) \/ ChannelCloses(w)
      <3>1. UNCHANGED <<session, sessions>>
        BY <2>3 DEF Deliver, Claim, Inspect, PublishCreated, Mark, Release, ChannelCloses, stripeVars
      <3>2. QED
        BY <3>1 DEF AboutInv
    <2>4. QED
      BY <2>1, <2>2, <2>3 DEF WorkerStep, Handle
  <1>3. \/ offered' = offered
        \/ PublishCreated(w) /\ session[w] # 0 /\ offered' = offered \cup {session[w]}
    BY DEF WorkerStep, Handle, Deliver, Claim, Inspect, Create, PublishCreated, Mark, Release, Settle, Crash,
           ChannelCloses, outVars, AboutInv, At
  <1>4. QED
    BY <1>1, <1>2, <1>3

\* A consumer's step keeps the types.
LEMMA WorkerTypes ==
  ASSUME TypeInv, [Next]_vars, NEW w \in Workers, WorkerStep(w)
  PROVE  TypeInv'
  <1> USE PaymentAssumption
  <1>1. PICK l \in {"idle", "claim", "inspect", "create", "publish", "mark", "release", "ack", "reject"} :
          /\ pc' = [pc EXCEPT ![w] = l]
          /\ l = "publish" => session'[w] # 0 \/ (pc[w] = "publish" /\ session' = session)
    <2>1. ASSUME ChannelCloses(w) PROVE session' = session
      BY <2>1 DEF ChannelCloses
    <2>2. sessions \in Nat
      BY DEF TypeInv, TypeOK
    <2>3. QED
      BY <2>1, <2>2, WorkerMoves
  <1>2. attempt' \in [Workers -> 1..MaxAttempts]
    BY WorkerMoves
  <1>3. offered' \subseteq 1..sessions' /\ offered \subseteq offered'
    <2>1. session[w] \in 0..sessions
      BY DEF TypeInv, TypeOK, AboutInv
    <2>2. sessions' \in Nat /\ sessions \in Nat /\ sessions <= sessions' /\ offered \subseteq 1..sessions
      BY WorkerMakes DEF TypeInv, TypeOK
    <2>3. 1..sessions \subseteq 1..sessions'
      BY <2>2
    <2>4. CASE offered' = offered
      BY <2>2, <2>3, <2>4
    <2>5. CASE session[w] # 0 /\ offered' = offered \cup {session[w]}
      <3>1. session[w] \in 1..sessions
        BY <2>1, <2>2, <2>5
      <3>2. QED
        BY <2>2, <2>3, <2>5, <3>1
    <2>6. QED
      BY <2>4, <2>5, WorkerMakes
  <1>4. TypeOK'
    BY <1>1, <1>2, <1>3, WorkerMakes, LuckTypes, QueueTypes DEF TypeInv, TypeOK
  <1>5. AboutInv'
    <2>1. \A v \in Workers : session'[v] <= sessions'
      BY WorkerMakes DEF TypeInv, TypeOK, AboutInv
    <2>2. \A v \in Workers : pc'[v] = "publish" => session'[v] # 0
      BY <1>1, WorkerMakes DEF TypeInv, TypeOK, AboutInv
    <2>3. \A h \in Handlers : pc'[h] = pc[h] /\ session'[h] = session[h] /\ h # w
      BY <1>1, WorkerMakes DEF TypeInv, TypeOK
    <2>4. event' = event
      BY WorkerMakes
    <2>5. QED
      BY <1>3, <2>1, <2>2, <2>3, <2>4 DEF TypeInv, AboutInv
  <1>6. QED
    BY <1>4, <1>5 DEF TypeInv

\* The steps of Stripe and of the gateway's webhook, and the TTL.
StripeStep ==
  \/ \E s \in Ids : RiderPays(s) \/ EventExpires(s)
  \/ \E h \in Handlers, s \in Ids : Webhook(h, s)
  \/ \E h \in Handlers : Serve(h) \/ NoAnswer(h)
  \/ ClaimExpires

\* An answer ends a request, and moves its event on if at all.
LEMMA AnswerMoves ==
  ASSUME TypeInv, NEW h \in Handlers, NEW status, Answer(h, status), pc[h] # "idle"
  PROVE  /\ pc' = [pc EXCEPT ![h] = "idle"] /\ session' = [session EXCEPT ![h] = 0]
         /\ event' \in [Ids -> {"open", "completed", "answered"}]
         /\ \A s \in Ids : event[s] # "open" => event'[s] # "open"
  BY DEF Answer, Rest, TypeInv, TypeOK

\* So does a step of Stripe and of the webhook.
LEMMA StripeTypes ==
  ASSUME TypeInv, [Next]_vars, StripeStep
  PROVE  TypeInv'
  <1> USE PaymentAssumption DEF TypeInv, TypeOK
  <1>1. UNCHANGED <<attempt, sessions, offered>>
    BY DEF StripeStep, RiderPays, EventExpires, Webhook, Serve, MarkEvent, PublishSuccess, NoAnswer, ClaimExpires,
           outVars, stripeVars
  <1>2. ASSUME NEW s \in Ids, RiderPays(s) PROVE TypeInv'
    <2>1. UNCHANGED <<pc, session, seen, reported>> /\ event' = [event EXCEPT ![s] = "completed"]
      BY <1>2 DEF RiderPays, outVars
    <2>2. s \in offered /\ \A r \in Ids : event'[r] # "open" => r = s \/ event[r] # "open"
      BY <1>2, <2>1 DEF RiderPays
    <2>3. \A r \in Ids : event[r] # "open" => event'[r] # "open"
      BY <2>1
    <2>4. AboutInv'
      BY <1>1, <2>1, <2>2, <2>3 DEF AboutInv
    <2>5. event' \in [Ids -> {"open", "completed", "answered"}]
      BY <2>1
    <2>6. seen' \subseteq {r \in offered' : event'[r] # "open"}
      <3>1. \A r \in offered : r \in Ids
        BY DEF Ids
      <3>2. QED
        BY <1>1, <2>1, <2>3, <3>1
    <2>7. QED
      BY <1>1, <2>1, <2>4, <2>5, <2>6, LuckTypes, QueueTypes
  <1>3. CASE ClaimExpires \/ \E s \in Ids : EventExpires(s)
    <2>1. UNCHANGED <<pc, session, event, reported>> /\ seen' \subseteq seen
      BY <1>3 DEF ClaimExpires, EventExpires, outVars, stripeVars
    <2>2. AboutInv'
      BY <1>1, <2>1 DEF AboutInv
    <2>3. QED
      BY <1>1, <2>1, <2>2, LuckTypes, QueueTypes
  <1>4. ASSUME NEW h \in Handlers, NEW s \in Ids, Webhook(h, s) PROVE TypeInv'
    <2>1. /\ UNCHANGED <<event, seen, reported>> /\ event[s] = "completed"
          /\ pc' = [pc EXCEPT ![h] = "mark"] /\ session' = [session EXCEPT ![h] = s]
      BY <1>4 DEF Webhook, outVars, stripeVars
    <2>2. AboutInv'
      BY <1>1, <2>1 DEF AboutInv
    <2>3. /\ pc' \in [Workers \cup Handlers ->
                   {"idle", "claim", "inspect", "create", "publish", "mark", "release", "ack", "reject"}]
          /\ session' \in [Workers \cup Handlers -> 0..MaxSessions]
      BY <2>1 DEF Ids
    <2>4. QED
      BY <1>1, <2>1, <2>2, <2>3, LuckTypes, QueueTypes
  <1>5. ASSUME NEW h \in Handlers, Serve(h) \/ NoAnswer(h) PROVE TypeInv'
    <2>1. pc[h] # "idle" /\ session[h] \in offered /\ event[session[h]] # "open" /\ session[h] \in Ids
      BY <1>5 DEF Serve, MarkEvent, PublishSuccess, NoAnswer, At, AboutInv
    <2>2. \/ /\ pc' = [pc EXCEPT ![h] = "idle"] /\ session' = [session EXCEPT ![h] = 0]
             /\ event' \in [Ids -> {"open", "completed", "answered"}]
             /\ \A s \in Ids : event[s] = "open" <=> event'[s] = "open"
          \/ UNCHANGED <<session, event>> /\ pc' = [pc EXCEPT ![h] = "publish"]
      <3>1. CASE MarkEvent(h)
        BY <2>1, <3>1 DEF MarkEvent, Answer, Rest
      <3>2. CASE PublishSuccess(h)
        BY <2>1, <3>2 DEF PublishSuccess, Answer, Rest
      <3>3. CASE NoAnswer(h)
        BY <3>3 DEF NoAnswer, Rest, stripeVars
      <3>4. QED
        BY <1>5, <3>1, <3>2, <3>3 DEF Serve
    <2>3. seen' \subseteq seen \cup {session[h]}
      BY <1>5 DEF Serve, MarkEvent, PublishSuccess, NoAnswer
    <2>4. reported' \in [Ids -> Nat]
      BY <1>5, <2>1 DEF Serve, MarkEvent, PublishSuccess, NoAnswer, outVars
    <2>5. pc' \in [Workers \cup Handlers ->
                   {"idle", "claim", "inspect", "create", "publish", "mark", "release", "ack", "reject"}]
          /\ session' \in [Workers \cup Handlers -> 0..MaxSessions]
          /\ event' \in [Ids -> {"open", "completed", "answered"}]
      BY <2>2
    <2>6. seen' \subseteq {s \in offered' : event'[s] # "open"}
      <3>1. \A s \in offered : s \in Ids
        BY DEF Ids
      <3>2. QED
        BY <1>1, <2>1, <2>2, <2>3, <3>1
    <2>7. AboutInv'
      BY <1>1, <2>1, <2>2 DEF AboutInv
    <2>8. QED
      BY <1>1, <2>4, <2>5, <2>6, <2>7, LuckTypes, QueueTypes
  <1>6. QED
    BY <1>2, <1>3, <1>4, <1>5 DEF StripeStep

\* A step is a consumer's or is on the side of Stripe.
LEMMA StepCases == [Next]_vars <=> UNCHANGED vars \/ StripeStep \/ \E w \in Workers : WorkerStep(w)
  BY DEF Next, StripeStep, WorkerStep

\* Every step keeps the types.
LEMMA TypeStep == TypeInv /\ [Next]_vars => TypeInv'
  <1> SUFFICES ASSUME TypeInv, [Next]_vars PROVE TypeInv'
    OBVIOUS
  <1>1. CASE UNCHANGED vars
    BY <1>1 DEF vars, queueVars, stripeVars, outVars, TypeInv, TypeOK, AboutInv
  <1>2. QED
    BY <1>1, StepCases, WorkerTypes, StripeTypes

-----------------------------------------------------------------------------
(* One report.                                                             *)

\* Every step keeps it that an event is reported once.
LEMMA ReportStep == TypeInv /\ ReportInv /\ [Next]_vars => ReportInv'
  <1> SUFFICES ASSUME TypeInv, ReportInv, [Next]_vars, "eventTtl" \notin happened'
               PROVE  ReportInv'
    BY DEF ReportInv
  <1> USE PaymentAssumption DEF TypeInv, TypeOK
  <1>1. "eventTtl" \notin happened
    BY LuckTypes
  <1>2. CASE UNCHANGED <<pc, session, reported, seen>>
    BY <1>1, <1>2 DEF ReportInv
  <1>3. ASSUME NEW w \in Workers, WorkerStep(w) PROVE ReportInv'
    <2>1. \A h \in Handlers : pc'[h] = pc[h] /\ session'[h] = session[h]
      <3>1. \E l : pc' = [pc EXCEPT ![w] = l]
        BY <1>3, WorkerMoves
      <3>2. \A h \in Handlers : h # w
        OBVIOUS
      <3>3. QED
        BY <1>3, <3>1, <3>2, WorkerMakes
    <2>2. reported' = reported /\ seen' = seen
      BY <1>3, WorkerMakes
    <2>3. QED
      BY <1>1, <2>1, <2>2 DEF ReportInv
  <1>4. ASSUME NEW h \in Handlers, Serve(h) PROVE ReportInv'
    <2>1. pc[h] \in {"mark", "publish"} /\ session[h] \in Ids
      BY <1>4 DEF Serve, MarkEvent, PublishSuccess, At, AboutInv
    <2>2. \A g \in Handlers : g # h => pc'[g] = pc[g] /\ session'[g] = session[g]
      BY <1>4 DEF Serve, MarkEvent, PublishSuccess, Answer, Rest
    <2>3. CASE MarkEvent(h)
      <3>1. reported' = reported /\ seen \subseteq seen'
        BY <2>3 DEF MarkEvent, outVars
      <3>2. CASE pc'[h] = "idle"
        BY <1>1, <2>2, <3>1, <3>2 DEF ReportInv
      <3>3. CASE pc'[h] # "idle"
        <4>1. /\ session[h] \notin seen /\ seen' = seen \cup {session[h]}
              /\ session' = session
          BY <2>3, <3>3 DEF MarkEvent, Answer, Rest, FirstTime
        <4>2. reported[session[h]] = 0
          BY <1>1, <2>1, <4>1 DEF ReportInv
        <4>3. \A g \in Handlers : pc[g] = "publish" => session[g] # session[h]
          BY <1>1, <4>1 DEF ReportInv
        <4>4. QED
          BY <1>1, <2>2, <3>1, <4>1, <4>2, <4>3 DEF ReportInv
      <3>4. QED
        BY <3>2, <3>3
    <2>4. CASE PublishSuccess(h)
      <3>1. pc[h] = "publish" /\ session[h] \in seen /\ reported[session[h]] = 0
        BY <1>1, <2>4 DEF PublishSuccess, At, ReportInv
      <3>2. seen' = seen /\ pc'[h] = "idle"
        BY <2>4 DEF PublishSuccess, Answer, Rest
      <3>3. reported' = reported \/ reported' = [reported EXCEPT ![session[h]] = @ + 1]
        BY <2>4 DEF PublishSuccess
      <3>4. \A g \in Handlers : g # h /\ pc[g] = "publish" => session[g] # session[h]
        BY <1>1, <3>1 DEF ReportInv
      <3>5. \A s \in Ids : reported'[s] <= 1 /\ (reported'[s] > 0 => s \in seen')
        BY <1>1, <2>1, <3>1, <3>2, <3>3 DEF ReportInv
      <3>6. \A g \in Handlers : pc'[g] = "publish" => g # h /\ pc[g] = "publish" /\ session'[g] = session[g]
        BY <2>2, <3>2
      <3>7. \A g \in Handlers : pc'[g] = "publish" => session'[g] \in seen' /\ reported'[session'[g]] = 0
        <4>1. SUFFICES ASSUME NEW g \in Handlers, pc'[g] = "publish"
                       PROVE  session'[g] \in seen' /\ reported'[session'[g]] = 0
          OBVIOUS
        <4>2. g # h /\ pc[g] = "publish" /\ session'[g] = session[g] /\ session[g] # session[h]
          BY <3>4, <3>6, <4>1
        <4>3. session[g] \in seen /\ reported[session[g]] = 0
          BY <1>1, <4>2 DEF ReportInv
        <4>4. session[g] \in Ids
          BY <4>2 DEF AboutInv
        <4>5. reported'[session[g]] = reported[session[g]]
          BY <2>1, <3>3, <4>2, <4>4
        <4>6. QED
          BY <3>2, <4>2, <4>3, <4>5
      <3>8. \A f, g \in Handlers :
              pc'[f] = "publish" /\ pc'[g] = "publish" /\ session'[f] = session'[g] => f = g
        BY <1>1, <3>6 DEF ReportInv
      <3>9. QED
        BY <3>5, <3>7, <3>8 DEF ReportInv
    <2>5. QED
      BY <1>4, <2>3, <2>4 DEF Serve
  <1>5. ASSUME NEW h \in Handlers, NoAnswer(h) \/ \E s \in Ids : Webhook(h, s) PROVE ReportInv'
    <2>1. \A g \in Handlers : g # h => pc'[g] = pc[g] /\ session'[g] = session[g]
      BY <1>5 DEF NoAnswer, Webhook, Rest
    <2>2. pc'[h] # "publish" /\ UNCHANGED <<reported, seen>>
      BY <1>5 DEF NoAnswer, Webhook, Rest, outVars
    <2>3. QED
      BY <1>1, <2>1, <2>2 DEF ReportInv
  <1>6. ASSUME NEW s \in Ids, EventExpires(s) PROVE FALSE
    BY <1>6 DEF EventExpires, Mishap
  <1>7. CASE ClaimExpires \/ \E s \in Ids : RiderPays(s)
    BY <1>2, <1>7 DEF ClaimExpires, RiderPays, outVars
  <1>8. CASE UNCHANGED vars
    BY <1>2, <1>8 DEF vars, outVars
  <1>9. QED
    BY <1>3, <1>4, <1>5, <1>6, <1>7, <1>8, StepCases DEF StripeStep
-----------------------------------------------------------------------------
(* What is done was offered.                                               *)

\* Only a publication adds to the offers, and nothing takes one back.
LEMMA OffersStay ==
  ASSUME TypeInv, [Next]_vars
  PROVE  offered \subseteq offered'
  <1>1. CASE StripeStep \/ UNCHANGED vars
    BY <1>1 DEF StripeStep, RiderPays, EventExpires, Webhook, Serve, MarkEvent, PublishSuccess, NoAnswer,
                ClaimExpires, vars, outVars
  <1>2. ASSUME NEW w \in Workers, WorkerStep(w) PROVE offered \subseteq offered'
    BY <1>2, WorkerMakes
  <1>3. QED
    BY <1>1, <1>2, StepCases

\* Stripe and the webhook leave the consumers and the queue alone; the claim
\* may expire.
LEMMA StripeLeaves ==
  ASSUME TypeInv, StripeStep
  PROVE  /\ UNCHANGED <<cmd, offered>> /\ \A w \in Workers : pc'[w] = pc[w]
         /\ (claim' = claim \/ (ClaimExpires /\ claim' = "none"))
  <1> USE PaymentAssumption DEF TypeInv, TypeOK
  <1>1. UNCHANGED <<cmd, offered>> /\ (claim' = claim \/ (ClaimExpires /\ claim' = "none"))
    BY DEF StripeStep, RiderPays, EventExpires, Webhook, Serve, MarkEvent, PublishSuccess, NoAnswer, ClaimExpires,
           outVars, queueVars
  <1>2. pc' = pc \/ \E h \in Handlers, l \in {"idle", "mark", "publish"} : pc' = [pc EXCEPT ![h] = l]
    BY DEF StripeStep, RiderPays, EventExpires, Webhook, Serve, MarkEvent, PublishSuccess, NoAnswer, ClaimExpires,
           Answer, Rest
  <1>3. \A w \in Workers, h \in Handlers : w # h
    OBVIOUS
  <1>4. QED
    BY <1>1, <1>2, <1>3

\* What a consumer's step does to the claim.
LEMMA ClaimMoves ==
  ASSUME TypeInv, NEW w \in Workers, WorkerStep(w)
  PROVE  \/ claim' = claim
         \/ Claim(w) /\ claim = "none" /\ claim' = "processing"
         \/ Mark(w) /\ claim' = "done"
         \/ Release(w) /\ claim' = "none"
  BY DEF WorkerStep, Handle, Deliver, Claim, Inspect, Create, PublishCreated, Mark, Release, Settle, Crash,
         ChannelCloses, queueVars, Unclaimed

\* Every step keeps it that what is done was offered.
LEMMA DoneStep == TypeInv /\ DoneInv /\ [Next]_vars => DoneInv'
  <1> SUFFICES ASSUME TypeInv, DoneInv, [Next]_vars, "lost" \notin happened' PROVE DoneInv'
    BY DEF DoneInv
  <1>1. /\ offered # {} => offered' # {}
        /\ "lost" \notin happened
    BY OffersStay, LuckTypes DEF TypeInv
  <1>2. CASE StripeStep
    BY <1>1, <1>2, StripeLeaves DEF DoneInv
  <1>3. CASE UNCHANGED vars
    BY <1>3 DEF vars, queueVars, outVars, DoneInv
  <1>4. ASSUME NEW w \in Workers, WorkerStep(w) PROVE DoneInv'
    <2>1. claim' = "done" => offered' # {}
      BY <1>1, <1>4, ClaimMoves DEF DoneInv, Mark, At
    <2>2. PICK l : /\ pc' = [pc EXCEPT ![w] = l]
                   /\ l \in {"mark", "ack"} => offered' # {}
      <3>1. PICK l \in {"idle", "claim", "inspect", "create", "publish", "mark", "release", "ack", "reject"} :
              /\ pc' = [pc EXCEPT ![w] = l]
              /\ l = "mark" => pc[w] = "mark" \/ offered' = offered \cup {session[w]}
              /\ l = "ack" => pc[w] = "ack" \/ Mark(w) \/ claim = "done"
        BY <1>4, WorkerMoves
      <3>2. QED
        BY <1>1, <3>1 DEF DoneInv, Mark, At
    <2>3. \A v \in Workers : pc'[v] \in {"mark", "ack"} => offered' # {}
      BY <1>1, <2>2 DEF DoneInv, TypeInv, TypeOK
    <2>4. cmd' = "acked" => cmd = "acked" \/ pc[w] = "ack"
      BY <1>4 DEF WorkerStep, Handle, Deliver, Claim, Inspect, Create, PublishCreated, Mark, Release, Settle,
                  Crash, ChannelCloses, Requeue, queueVars, At
    <2>5. QED
      BY <1>1, <2>1, <2>3, <2>4 DEF DoneInv
  <1>5. QED
    BY <1>2, <1>3, <1>4, StepCases

-----------------------------------------------------------------------------
(* One claim, one offer.                                                   *)

\* A consumer that holds the claim after a step held it before, or just took
\* it; the claim is given up by its holder only, and a session is offered by
\* a consumer that holds it.
LEMMA OwnerMoves ==
  ASSUME TypeInv, NEW w \in Workers, WorkerStep(w)
  PROVE  /\ \A v \in Workers : v # w => pc'[v] = pc[v]
         /\ \/ claim' = claim
            \/ claim = "none" /\ claim' = "processing"
            \/ pc[w] = "mark" /\ claim' = "done"
            \/ pc[w] = "release" /\ claim' = "none"
         /\ pc'[w] = "create" => pc[w] = "create" \/ claim = "none"
         /\ pc'[w] \in {"publish", "release"} => pc[w] \in {"create", "publish", "release"}
         /\ Owns(w)' => \/ Owns(w) /\ claim' = claim
                        \/ claim = "none" /\ claim' = "processing"
         /\ \/ offered' = offered
            \/ /\ pc[w] = "publish" /\ pc'[w] = "mark" /\ claim' = claim
               /\ offered' = offered \cup {session[w]}
  <1> USE PaymentAssumption DEF TypeInv, TypeOK
  <1>1. \E l : pc' = [pc EXCEPT ![w] = l]
    BY WorkerMoves
  <1>2. \A v \in Workers : v # w => pc'[v] = pc[v]
    BY <1>1
  <1>3. \/ claim' = claim
        \/ claim = "none" /\ claim' = "processing"
        \/ pc[w] = "mark" /\ claim' = "done"
        \/ pc[w] = "release" /\ claim' = "none"
    BY ClaimMoves DEF Mark, Release, At
  <1>4. pc'[w] = "create" => pc[w] = "create" \/ claim = "none"
    BY WorkerMoves
  <1>5. pc'[w] \in {"publish", "release"} => pc[w] \in {"create", "publish", "release"}
    BY WorkerMoves DEF Create, At
  <1>6. Owns(w)' => (Owns(w) /\ claim' = claim) \/ (claim = "none" /\ claim' = "processing")
    <2>1. CASE Deliver(w) \/ Settle(w) \/ Crash(w)
      BY <2>1 DEF Deliver, Settle, Crash, Rest, Goto, Owns
    <2>2. CASE Inspect(w) \/ Mark(w) \/ Release(w)
      BY <2>2 DEF Inspect, Mark, Release, Goto, Backoff, Owns
    <2>3. CASE Claim(w)
      BY <2>3 DEF Claim, Goto, Backoff, Owns, Unclaimed
    <2>4. CASE Create(w) \/ PublishCreated(w)
      BY <2>4 DEF Create, PublishCreated, At, Owns, queueVars
    <2>5. CASE ChannelCloses(w)
      BY <2>5 DEF ChannelCloses, Owns
    <2>6. QED
      BY <2>1, <2>2, <2>3, <2>4, <2>5 DEF WorkerStep, Handle
  <1>7. \/ offered' = offered
        \/ /\ pc[w] = "publish" /\ pc'[w] = "mark" /\ claim' = claim
           /\ offered' = offered \cup {session[w]}
    <2>1. ASSUME PublishCreated(w), offered' # offered
          PROVE  /\ pc[w] = "publish" /\ pc'[w] = "mark" /\ claim' = claim
                 /\ offered' = offered \cup {session[w]}
      BY <2>1 DEF PublishCreated, Goto, At, queueVars
    <2>2. QED
      BY <2>1, WorkerMakes
  <1>8. QED
    BY <1>2, <1>3, <1>4, <1>5, <1>6, <1>7

\* Every step keeps it that the claim has one holder and one offer.
LEMMA ClaimStep == TypeInv /\ ClaimInv /\ [Next]_vars => ClaimInv'
  <1> SUFFICES ASSUME TypeInv, ClaimInv, [Next]_vars, "claimTtl" \notin happened'
               PROVE  ClaimInv'
    BY DEF ClaimInv
  <1>1. "claimTtl" \notin happened
    BY LuckTypes DEF TypeInv
  <1>2. CASE UNCHANGED vars
    BY <1>1, <1>2 DEF vars, queueVars, outVars, ClaimInv, Owns
  <1>3. CASE StripeStep
    <2>1. ~ClaimExpires
      BY DEF ClaimExpires, Mishap
    <2>2. UNCHANGED <<claim, offered>> /\ \A w \in Workers : pc'[w] = pc[w]
      BY <1>3, <2>1, StripeLeaves
    <2>3. QED
      BY <1>1, <2>2 DEF ClaimInv, Owns
  <1>4. ASSUME NEW w \in Workers, WorkerStep(w) PROVE ClaimInv'
    <2>1. \A v \in Workers : Owns(v) => claim = "processing"
      BY <1>1 DEF ClaimInv
    <2>2. \A u, v \in Workers : Owns(u) /\ Owns(v) => u = v
      BY <1>1 DEF ClaimInv
    <2>3. offered # {} => claim # "none" /\ \A v \in Workers : pc[v] \notin {"create", "publish", "release"}
      BY <1>1 DEF ClaimInv
    <2>4. \A v \in Workers : v # w => pc'[v] = pc[v] /\ (Owns(v)' <=> Owns(v))
      BY <1>4, OwnerMoves DEF Owns
    <2>5. \A v \in Workers : v # w /\ Owns(v) => ~Owns(w) /\ claim' = claim
      BY <1>4, <2>1, <2>2, OwnerMoves DEF Owns
    <2>6. \A v \in Workers : Owns(v)' => claim' = "processing"
      BY <1>4, <2>1, <2>4, <2>5, OwnerMoves
    <2>7. \A u, v \in Workers : Owns(u)' /\ Owns(v)' => u = v
      <3>1. \A v \in Workers : v # w /\ Owns(v) => ~Owns(w)'
        BY <1>4, <2>1, <2>5, OwnerMoves
      <3>2. QED
        BY <2>2, <2>4, <3>1
    <2>8. CASE offered' = offered
      <3>1. offered' # {} => /\ claim' # "none"
                             /\ \A v \in Workers : pc'[v] \notin {"create", "publish", "release"}
        BY <1>4, <2>3, <2>4, <2>8, OwnerMoves
      <3>2. \A s, t \in offered' : s = t
        BY <1>1, <2>8 DEF ClaimInv
      <3>3. QED
        BY <2>6, <2>7, <3>1, <3>2 DEF ClaimInv
    <2>9. CASE offered' # offered
      <3>1. /\ pc[w] = "publish" /\ pc'[w] = "mark" /\ claim' = claim
            /\ offered' = offered \cup {session[w]}
        BY <1>4, <2>9, OwnerMoves
      <3>2. Owns(w) /\ offered = {}
        BY <2>3, <3>1 DEF Owns
      <3>3. claim' # "none" /\ \A v \in Workers : pc'[v] \notin {"create", "publish", "release"}
        BY <2>1, <2>4, <2>5, <3>1, <3>2 DEF Owns
      <3>4. \A s, t \in offered' : s = t
        BY <3>1, <3>2
      <3>5. QED
        BY <2>6, <2>7, <3>3, <3>4 DEF ClaimInv
    <2>10. QED
      BY <2>8, <2>9
  <1>5. QED
    BY <1>2, <1>3, <1>4, StepCases

-----------------------------------------------------------------------------
(* The theorems.                                                           *)

\* It all holds at first.
LEMMA PaymentInit == Init => PaymentInv
  <1> SUFFICES ASSUME Init PROVE PaymentInv
    OBVIOUS
  <1>1. TypeOK
    BY PaymentAssumption DEF Init, TypeOK
  <1>2. AboutInv
    BY PaymentAssumption DEF Init, AboutInv
  <1>3. ReportInv /\ DoneInv /\ ClaimInv
    BY PaymentAssumption DEF Init, ReportInv, DoneInv, ClaimInv, Owns
  <1>4. QED
    BY <1>1, <1>2, <1>3 DEF PaymentInv, TypeInv

(* The inductive invariant: types, who owns the claim, what was offered,   *)
(* and which events have their key.                                        *)
THEOREM PaymentInvariance == Spec => []PaymentInv
  <1>1. PaymentInv /\ [Next]_vars => PaymentInv'
    BY TypeStep, ReportStep, DoneStep, ClaimStep DEF PaymentInv
  <1>2. QED
    BY <1>1, PaymentInit, PTL DEF Spec

(* Every variable keeps its type; a session that was offered was made, and *)
(* the key of an event is that of an offered and paid session.             *)
THEOREM PaymentTypeCorrect == Spec => []TypeOK
  <1>1. PaymentInv => TypeOK
    BY DEF PaymentInv, TypeInv
  <1>2. QED
    BY <1>1, PaymentInvariance, PTL

(* While no event's key expires, a payment is reported at most once,       *)
(* however many deliveries of its event overlap (http.go:181-193).         *)
THEOREM ReportsAreSingle == Spec => []ReportedOnce
  <1>1. PaymentInv => ReportedOnce
    BY DEF PaymentInv, ReportInv, ReportedOnce
  <1>2. QED
    BY <1>1, PaymentInvariance, PTL

(* Unless a publication was lost in flight a command is acknowledged only  *)
(* when a session was offered, and unless a claim outlived its TTL at most *)
(* one was, with any number of consumers, runs and mishaps                 *)
(* (trip_consumer.go:36-85, idempotency.go:62-75, rabbitmq.go:150-158).    *)
THEOREM OffersAreSingle == Spec => []OneOffer
  <1>1. PaymentInv => OneOffer
    <2> SUFFICES ASSUME PaymentInv PROVE OneOffer
      OBVIOUS
    <2>1. "lost" \notin happened => (cmd = "acked" => offered # {})
      BY DEF PaymentInv, DoneInv
    <2>2. ASSUME "claimTtl" \notin happened PROVE Cardinality(offered) <= 1
      <3>1. \A s, t \in offered : s = t
        BY <2>2 DEF PaymentInv, ClaimInv
      <3>2. CASE offered = {}
        BY <3>2, FS_EmptySet
      <3>3. CASE offered # {}
        <4>1. PICK s : offered = {s}
          BY <3>1, <3>3
        <4>2. Cardinality({s}) = 1
          BY FS_Singleton, Zenon
        <4>3. QED
          BY <4>1, <4>2
      <3>4. QED
        BY <3>2, <3>3
    <2>3. QED
      BY <2>1, <2>2 DEF OneOffer
  <1>2. QED
    BY <1>1, PaymentInvariance, PTL
=============================================================================
