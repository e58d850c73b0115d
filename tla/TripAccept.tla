---------------------------- MODULE TripAccept ----------------------------
(***************************************************************************)
(* The trip service's two RabbitMQ consumers at work on one trip: the      *)
(* driver consumer (accept and decline) and the payment consumer.  Every   *)
(* call a handler makes to Redis, to MongoDB or to the broker is a step    *)
(* of its own, so that handlers of several service instances interleave    *)
(* between them, and every such call may fail.                             *)
(*                                                                         *)
(* Trips do not share a lock, a document or an idempotency key, so one     *)
(* trip is modelled.  GetTripByID returns any version of the document that *)
(* StaleReads allows: TripCache models the caches it reads through.        *)
(*                                                                         *)
(* Published means that PublishWithContext returned nil.  As there are no  *)
(* confirms (rabbitmq.go:150-158) that is no promise of a delivery; what   *)
(* becomes of a publication is left to Payment and Dispatch, and here one  *)
(* is only counted.                                                        *)
(***************************************************************************)
EXTENDS Naturals, FiniteSets

CONSTANTS
  Drivers, NoDriver,
  Messages, NoMessage,
  KindOf,         \* what a message is: an element of Kinds
  DriverOf,       \* the driver an accept or decline comes from
  DriverWorkers,  \* consumers of driver_trip_response, one per instance
  PaymentWorkers, \* consumers of the payment_success queue, one per instance
  MaxAttempts,    \* runs of a handler per delivery: retry.Config.MaxRetries + 1
  MaxMishaps,     \* bound of each kind of mishap, see Mishaps
  StaleReads      \* may GetTripByID return a version that was overwritten

Kinds == {"accept", "decline", "malformed", "payed"}

\* "call": a failed call to Redis, MongoDB or RabbitMQ; "crash": a process
\* dies and is restarted; "channel": the AMQP channel of a consumer closes;
\* "lockTtl": a lock outlives its 30 s while its handler still runs;
\* "claimTtl": an idempotency key outlives its 10 min.
Mishaps == {"call", "crash", "channel", "lockTtl", "claimTtl"}

Workers == DriverWorkers \cup PaymentWorkers

ASSUME WorkersAssumption == DriverWorkers \cap PaymentWorkers = {}
ASSUME DriversAssumption == NoDriver \notin Drivers
ASSUME MessagesAssumption ==
  /\ NoMessage \notin Messages
  /\ KindOf \in [Messages -> Kinds]
  /\ DriverOf \in [Messages -> Drivers]
ASSUME BoundsAssumption ==
  /\ MaxAttempts \in Nat \ {0}
  /\ MaxMishaps \in [Mishaps -> Nat]
  /\ StaleReads \in BOOLEAN

VARIABLES
  trip,      \* MongoDB: the trip document
  versions,  \* history: every version the document has had
  broker,    \* RabbitMQ: where each message is
  idem,      \* Redis: idem:<namespace>:<message id>
  lock,      \* Redis: trip:lock:<trip>, the driver in it or NoDriver
  attached,  \* consumers whose AMQP channel is open
  pc, cur, attempt, view, failed,  \* each consumer's goroutine
  assigned,  \* published TripEventDriverAssigned, by the driver in the event
  payments,  \* published PaymentCmdCreateSession, by the driver in the command
  rematched, \* published TripEventDriverNotInterested, by declining message
  mishaps    \* mishaps so far, of each kind

redisVars  == <<idem, lock>>
mongoVars  == <<trip, versions>>
workerVars == <<pc, cur, attempt, view, failed>>
outVars    == <<assigned, payments, rematched>>
vars == <<mongoVars, broker, redisVars, attached, workerVars, outVars, mishaps>>

-----------------------------------------------------------------------------

Docs == [status : {"pending", "accepted", "payed"}, driver : Drivers \cup {NoDriver}]

Pending == [status |-> "pending", driver |-> NoDriver]

Labels == {"idle", "claim", "inspect", "lock", "get", "update", "getAgain",
           "publishAssigned", "publishPayment", "unlock", "getDeclined",
           "publishRematch", "pay", "mark", "release", "ack", "reject"}

TypeOK ==
  /\ trip \in Docs
  /\ versions \subseteq Docs
  /\ broker \in [Messages -> {"unsent", "ready", "held", "acked", "dead"}]
  /\ idem \in [Messages -> {"none", "processing", "done"}]
  /\ lock \in Drivers \cup {NoDriver}
  /\ attached \subseteq Workers
  /\ pc \in [Workers -> Labels]
  /\ cur \in [Workers -> Messages \cup {NoMessage}]
  /\ attempt \in [Workers -> 1..MaxAttempts]
  /\ view \in [Workers -> Docs]
  /\ failed \in [Workers -> BOOLEAN]
  /\ assigned \in [Drivers \cup {NoDriver} -> Nat]
  /\ payments \in [Drivers -> Nat]
  /\ rematched \in [Messages -> Nat]
  /\ mishaps \in [Mishaps -> Nat]
  /\ \A w \in Workers : pc[w] # "idle" => cur[w] \in Messages

Init ==
  /\ trip = Pending
  /\ versions = {Pending}
  /\ broker = [m \in Messages |-> IF KindOf[m] = "payed" THEN "unsent" ELSE "ready"]
  /\ idem = [m \in Messages |-> "none"]
  /\ lock = NoDriver
  /\ attached = Workers
  /\ pc = [w \in Workers |-> "idle"]
  /\ cur = [w \in Workers |-> NoMessage]
  /\ attempt = [w \in Workers |-> 1]
  /\ view = [w \in Workers |-> Pending]
  /\ failed = [w \in Workers |-> FALSE]
  /\ assigned = [d \in Drivers \cup {NoDriver} |-> 0]
  /\ payments = [d \in Drivers |-> 0]
  /\ rematched = [m \in Messages |-> 0]
  /\ mishaps = [k \in Mishaps |-> 0]

-----------------------------------------------------------------------------
(* Control flow of a handler and of the loop that runs it.                 *)

Mishap(k) ==
  /\ mishaps[k] < MaxMishaps[k]
  /\ mishaps' = [mishaps EXCEPT ![k] = @ + 1]

Smooth == UNCHANGED mishaps

CallFails == Mishap("call")

At(w, label) == pc[w] = label

Goto(w, label) ==
  /\ pc' = [pc EXCEPT ![w] = label]
  /\ UNCHANGED attempt

\* Mutations of Backoff: one run too many, and no end of runs.
OneTooMany(w) ==
  IF attempt[w] <= MaxAttempts
  THEN /\ attempt' = [attempt EXCEPT ![w] = @ + 1]
       /\ pc' = [pc EXCEPT ![w] = "claim"]
  ELSE Goto(w, "reject")
NeverGivesUp(w) == Goto(w, "claim")

\* The handler returned an error: WithBackoff runs it again or gives up.
Backoff(w) ==
  IF attempt[w] < MaxAttempts
  THEN /\ attempt' = [attempt EXCEPT ![w] = @ + 1]
       /\ pc' = [pc EXCEPT ![w] = "claim"]
  ELSE Goto(w, "reject")

\* The queue a message waits in is the one w consumes.
Consumes(w, m) == w \in PaymentWorkers <=> KindOf[m] = "payed"

\* A mutation of FirstStep: accepts fall through to the unknown events.
AcceptUnknown(m) ==
  CASE KindOf[m] = "accept"    -> "mark"
    [] KindOf[m] = "decline"   -> "getDeclined"
    [] KindOf[m] = "payed"     -> "pay"
    [] KindOf[m] = "malformed" -> "release"

\* The first step after the claim.  A malformed body, or one without a trip,
\* fails before it reaches any other state.
FirstStep(m) ==
  CASE KindOf[m] = "accept"    -> "lock"
    [] KindOf[m] = "decline"   -> "getDeclined"
    [] KindOf[m] = "payed"     -> "pay"
    [] KindOf[m] = "malformed" -> "release"

\* What GetTripByID may return.
Readable == IF StaleReads THEN versions ELSE {trip}

-----------------------------------------------------------------------------
(* The broker.                                                             *)

\* Stripe reports a payment: only after a session was asked for.
PaymentSucceeds(m) ==
  /\ KindOf[m] = "payed" /\ broker[m] = "unsent"
  /\ \E d \in Drivers : payments[d] > 0
  /\ broker' = [broker EXCEPT ![m] = "ready"]
  /\ UNCHANGED <<mongoVars, redisVars, attached, workerVars, outVars, mishaps>>

\* With a prefetch of one, a consumer is given a message when it holds none.
Deliver(w, m) ==
  /\ At(w, "idle") /\ w \in attached
  /\ broker[m] = "ready" /\ Consumes(w, m)
  /\ broker' = [broker EXCEPT ![m] = "held"]
  /\ pc' = [pc EXCEPT ![w] = "claim"]
  /\ cur' = [cur EXCEPT ![w] = m]
  /\ attempt' = [attempt EXCEPT ![w] = 1]
  /\ UNCHANGED <<mongoVars, redisVars, attached, view, failed, outVars, mishaps>>

\* The delivery is settled; on a closed channel the call fails, is only
\* logged, and the message stays where the broker put it.
Finish(w, outcome) ==
  /\ broker' = IF w \in attached
               THEN [broker EXCEPT ![cur[w]] = outcome] ELSE broker
  /\ pc' = [pc EXCEPT ![w] = "idle"]
  /\ cur' = [cur EXCEPT ![w] = NoMessage]
  /\ attempt' = [attempt EXCEPT ![w] = 1]
  /\ view' = [view EXCEPT ![w] = Pending]
  /\ failed' = [failed EXCEPT ![w] = FALSE]
  /\ UNCHANGED <<mongoVars, redisVars, attached, outVars, mishaps>>

Ack(w) == At(w, "ack") /\ Finish(w, "acked")

Reject(w) == At(w, "reject") /\ Finish(w, "dead")

-----------------------------------------------------------------------------
(* The idempotency claim: ClaimMessageForProcessing, MarkMessageProcessed  *)
(* and ReleaseMessageProcessing.                                           *)

Unclaimed(m) == idem[m] = "none"

\* A mutation of IsDone: whatever was claimed before counts as done.
IsKnown(m) == idem[m] # "none"
IsDone(m) == idem[m] = "done"

\* SETNX.  A call that fails may have been carried out all the same.
Claim(w) ==
  /\ At(w, "claim")
  /\ \/ /\ Unclaimed(cur[w])
        /\ idem' = [idem EXCEPT ![cur[w]] = "processing"]
        /\ Goto(w, FirstStep(cur[w]))
        /\ Smooth
     \/ ~Unclaimed(cur[w]) /\ Goto(w, "inspect") /\ Smooth /\ UNCHANGED idem
     \/ /\ CallFails /\ Backoff(w)
        /\ \/ UNCHANGED idem
           \/ /\ Unclaimed(cur[w])
              /\ idem' = [idem EXCEPT ![cur[w]] = "processing"]
  /\ UNCHANGED <<mongoVars, broker, lock, attached, cur, view, failed, outVars>>

\* GET after a SETNX that found the key: done is skipped and acknowledged,
\* processing, a key that expired in between and a failed call are errors.
Inspect(w) ==
  /\ At(w, "inspect")
  /\ \/ IsDone(cur[w]) /\ Goto(w, "ack") /\ Smooth
     \/ ~IsDone(cur[w]) /\ Backoff(w) /\ Smooth
     \/ CallFails /\ Backoff(w)
  /\ UNCHANGED <<mongoVars, broker, redisVars, attached, cur, view, failed, outVars>>

\* SET done.  On an error the handler fails without releasing its claim.
Mark(w) ==
  /\ At(w, "mark")
  /\ \/ /\ idem' = [idem EXCEPT ![cur[w]] = "done"]
        /\ \/ Goto(w, "ack") /\ Smooth
           \/ CallFails /\ Backoff(w)
     \/ CallFails /\ Backoff(w) /\ UNCHANGED idem
  /\ UNCHANGED <<mongoVars, broker, lock, attached, cur, view, failed, outVars>>

\* DEL, whoever owns the key; its error is ignored.
Release(w) ==
  /\ At(w, "release")
  /\ Backoff(w)
  /\ \/ idem' = [idem EXCEPT ![cur[w]] = "none"] /\ Smooth
     \/ CallFails /\ UNCHANGED idem
  /\ failed' = [failed EXCEPT ![w] = FALSE]
  /\ UNCHANGED <<mongoVars, broker, lock, attached, cur, view, outVars>>

-----------------------------------------------------------------------------
(* handleTripAccepted.                                                     *)

\* A mutation of Free: a driver may take its own lock once more.
FreeOrOwn(w) == lock \in {NoDriver, DriverOf[cur[w]]}
Free(w) == lock = NoDriver

\* SETNX of the driver's id.  A lock that is held means the accept is
\* dropped: the handler returns nil and the message counts as processed.
TryLock(w) ==
  LET d == DriverOf[cur[w]] IN
  /\ At(w, "lock")
  /\ \/ Free(w) /\ lock' = d /\ Goto(w, "get") /\ Smooth
     \/ ~Free(w) /\ Goto(w, "mark") /\ Smooth /\ UNCHANGED lock
     \/ /\ CallFails /\ Goto(w, "release")
        /\ UNCHANGED lock \/ (Free(w) /\ lock' = d)
  /\ UNCHANGED <<mongoVars, broker, idem, attached, cur, view, failed, outVars>>

\* The handler leaves through its deferred unlock, with or without an error.
Leave(w, withError) ==
  /\ Goto(w, "unlock")
  /\ failed' = [failed EXCEPT ![w] = withError]

Open(doc) == doc.status = "pending"

\* GetTripByID, then the guard: a trip that is not pending is skipped.
Get(w) ==
  /\ At(w, "get")
  /\ \/ \E doc \in Readable :
          /\ view' = [view EXCEPT ![w] = doc]
          /\ IF Open(doc)
             THEN Goto(w, "update") /\ UNCHANGED failed
             ELSE Leave(w, FALSE)
          /\ Smooth
     \/ CallFails /\ Leave(w, TRUE) /\ UNCHANGED view
  /\ UNCHANGED <<mongoVars, broker, redisVars, attached, cur, outVars>>

Store(doc) == trip' = doc /\ versions' = versions \cup {doc}

\* A mutation of Matches: accepted is written like every other status.
MatchesAny == TRUE

\* buildTripUpdateFilter for accepted.
Matches == trip.status = "pending"

\* UpdateTrip to accepted: MongoDB matches the document only while it is
\* pending.  When the answer is lost the update may have been made.
Update(w) ==
  LET accepted == [status |-> "accepted", driver |-> DriverOf[cur[w]]] IN
  /\ At(w, "update")
  /\ \/ /\ Matches /\ Store(accepted)
        /\ Goto(w, "getAgain") /\ UNCHANGED failed /\ Smooth
     \/ ~Matches /\ UNCHANGED mongoVars /\ Leave(w, TRUE) /\ Smooth
     \/ /\ CallFails /\ Leave(w, TRUE)
        /\ UNCHANGED mongoVars \/ (Matches /\ Store(accepted))
  /\ UNCHANGED <<broker, redisVars, attached, cur, view, outVars>>

\* The second GetTripByID, for the events that follow.
GetAgain(w) ==
  /\ At(w, "getAgain")
  /\ \/ /\ \E doc \in Readable : view' = [view EXCEPT ![w] = doc]
        /\ Goto(w, "publishAssigned") /\ UNCHANGED failed /\ Smooth
     \/ CallFails /\ Leave(w, TRUE) /\ UNCHANGED view
  /\ UNCHANGED <<mongoVars, broker, redisVars, attached, cur, outVars>>

\* A publication fails when its call does, and whenever the channel, which
\* consumer and publisher of an instance share, has closed.
\* One that fails has not gone out: the broker drops a part of a message.
PublishFails(w) == CallFails \/ (w \notin attached /\ Smooth)

\* The rider's event carries the trip as it was read.
PublishAssigned(w) ==
  /\ At(w, "publishAssigned")
  /\ \/ /\ w \in attached
        /\ assigned' = [assigned EXCEPT ![view[w].driver] = @ + 1]
        /\ Goto(w, "publishPayment") /\ UNCHANGED failed /\ Smooth
     \/ PublishFails(w) /\ Leave(w, TRUE) /\ UNCHANGED assigned
  /\ UNCHANGED <<mongoVars, broker, redisVars, attached, cur, view, payments, rematched>>

\* The payment command carries the driver of the accept.
PublishPayment(w) ==
  /\ At(w, "publishPayment")
  /\ \/ /\ w \in attached
        /\ payments' = [payments EXCEPT ![DriverOf[cur[w]]] = @ + 1]
        /\ Leave(w, FALSE) /\ Smooth
     \/ PublishFails(w) /\ Leave(w, TRUE) /\ UNCHANGED payments
  /\ UNCHANGED <<mongoVars, broker, redisVars, attached, cur, view, assigned, rematched>>

\* The unlock script: the lock goes only if it holds this driver's id.
Unlock(w) ==
  LET freed == IF lock = DriverOf[cur[w]] THEN NoDriver ELSE lock IN
  /\ At(w, "unlock")
  /\ Goto(w, IF failed[w] THEN "release" ELSE "mark")
  /\ \/ lock' = freed /\ Smooth
     \/ CallFails /\ (lock' = freed \/ UNCHANGED lock)
  /\ view' = [view EXCEPT ![w] = Pending]
  /\ UNCHANGED <<mongoVars, broker, idem, attached, cur, failed, outVars>>

-----------------------------------------------------------------------------
(* handleTripDeclined, and the payment consumer.                           *)

GetDeclined(w) ==
  /\ At(w, "getDeclined")
  /\ \/ /\ \E doc \in Readable : view' = [view EXCEPT ![w] = doc]
        /\ Goto(w, "publishRematch") /\ Smooth
     \/ CallFails /\ Goto(w, "release") /\ UNCHANGED view
  /\ UNCHANGED <<mongoVars, broker, redisVars, attached, cur, failed, outVars>>

\* TripEventDriverNotInterested: the driver service looks for another one.
PublishRematch(w) ==
  /\ At(w, "publishRematch")
  /\ \/ /\ w \in attached
        /\ rematched' = [rematched EXCEPT ![cur[w]] = @ + 1]
        /\ Goto(w, "mark") /\ Smooth
     \/ PublishFails(w) /\ Goto(w, "release") /\ UNCHANGED rematched
  /\ view' = [view EXCEPT ![w] = Pending]
  /\ UNCHANGED <<mongoVars, broker, redisVars, attached, cur, failed, assigned, payments>>

\* A mutation of Payed: the driver is written too, though none is given.
PayedByNobody == [status |-> "payed", driver |-> NoDriver]

\* UpdateTrip to payed: no condition on the status, the driver is kept.
Payed == [trip EXCEPT !.status = "payed"]

Pay(w) ==
  /\ At(w, "pay")
  /\ \/ Store(Payed) /\ Goto(w, "mark") /\ Smooth
     \/ CallFails /\ Goto(w, "release") /\ (Store(Payed) \/ UNCHANGED mongoVars)
  /\ UNCHANGED <<broker, redisVars, attached, cur, view, failed, outVars>>

-----------------------------------------------------------------------------
(* Crashes, closed channels and keys that time out.                        *)

\* What becomes of the delivery of a consumer that is cut off.
Requeue(w) ==
  broker' = IF w \in attached /\ ~At(w, "idle")
            THEN [broker EXCEPT ![cur[w]] = "ready"] ELSE broker

\* The process dies and is started again, with a new channel; its claim and
\* its lock stay in Redis.
Crash(w) ==
  /\ ~At(w, "idle") \/ w \notin attached
  /\ Mishap("crash")
  /\ Requeue(w)
  /\ attached' = attached \cup {w}
  /\ pc' = [pc EXCEPT ![w] = "idle"]
  /\ cur' = [cur EXCEPT ![w] = NoMessage]
  /\ attempt' = [attempt EXCEPT ![w] = 1]
  /\ view' = [view EXCEPT ![w] = Pending]
  /\ failed' = [failed EXCEPT ![w] = FALSE]
  /\ UNCHANGED <<mongoVars, redisVars, outVars>>

\* The AMQP channel closes.  The broker hands the message out again while
\* the handler runs on; nothing in the service opens a new channel.
ChannelCloses(w) ==
  /\ w \in attached
  /\ Mishap("channel")
  /\ Requeue(w)
  /\ attached' = attached \ {w}
  /\ UNCHANGED <<mongoVars, redisVars, workerVars, outVars>>

Critical == {"get", "update", "getAgain", "publishAssigned", "publishPayment", "unlock"}

\* A handler between its lock and its unlock that would free this lock.
LockInUse == \E w \in Workers : pc[w] \in Critical /\ DriverOf[cur[w]] = lock

\* The lock's TTL ends: it was left behind, or its handler takes over 30 s.
LockExpires ==
  /\ lock # NoDriver
  /\ lock' = NoDriver
  /\ IF LockInUse THEN Mishap("lockTtl") ELSE Smooth
  /\ UNCHANGED <<mongoVars, broker, idem, attached, workerVars, outVars>>

\* The TTL of an idempotency key ends.
ClaimExpires(m) ==
  /\ idem[m] # "none"
  /\ idem' = [idem EXCEPT ![m] = "none"]
  /\ Mishap("claimTtl")
  /\ UNCHANGED <<mongoVars, broker, lock, attached, workerVars, outVars>>

-----------------------------------------------------------------------------

\* One step of the handler of w.
Handle(w) ==
  \/ Claim(w) \/ Inspect(w) \/ Mark(w) \/ Release(w) \/ Ack(w) \/ Reject(w)
  \/ TryLock(w) \/ Get(w) \/ Update(w) \/ GetAgain(w)
  \/ PublishAssigned(w) \/ PublishPayment(w) \/ Unlock(w)
  \/ GetDeclined(w) \/ PublishRematch(w) \/ Pay(w)

Next ==
  \/ \E m \in Messages : PaymentSucceeds(m) \/ ClaimExpires(m)
  \/ \E w \in Workers, m \in Messages : Deliver(w, m)
  \/ \E w \in Workers : Handle(w) \/ Crash(w) \/ ChannelCloses(w)
  \/ LockExpires

Spec == Init /\ [][Next]_vars

\* The goroutines run, the broker hands out what waits, and Redis expires a
\* lock that nobody frees.  Failures are never fair, and no rider must pay.
Fairness ==
  /\ \A w \in Workers : WF_vars(Handle(w))
  /\ \A w \in Workers : WF_vars(\E m \in Messages : Deliver(w, m))
  /\ WF_vars(LockExpires)

FairSpec == Spec /\ Fairness

-----------------------------------------------------------------------------
(* Safety.                                                                 *)

StatusRank == [pending |-> 0, accepted |-> 1, payed |-> 2]

\* Once a driver is on the trip no step puts another one there, and the
\* status never goes back: however the lock, the claims and the caches fail,
\* MongoDB's condition on the update is the last gate.
NeverReassigned ==
  [][/\ trip.driver # NoDriver => trip'.driver = trip.driver
     /\ StatusRank[trip'.status] >= StatusRank[trip.status]]_vars

\* The rider is charged for one driver at most, the one on the trip, after
\* one announcement of a driver, over all retries, redeliveries and crashes.
ChargedOnce ==
  /\ \A d \in Drivers : payments[d] > 0 =>
       payments[d] = 1 /\ trip.driver = d /\ trip.status # "pending"
  /\ \A d, e \in DOMAIN assigned :
       assigned[d] > 0 /\ assigned[e] > 0 => d = e /\ assigned[d] = 1
  /\ (\E d \in Drivers : payments[d] > 0) => (\E d \in DOMAIN assigned : assigned[d] > 0)

\* A handler that has its message's claim and has not given it back.
Claimed == Labels \ {"idle", "claim", "inspect", "ack", "reject"}

\* While no key outlives its TTL, two handlers never work on one message,
\* though the broker may have handed it to both.
ClaimExclusive ==
  mishaps["claimTtl"] = 0 =>
    \A v, w \in Workers :
      pc[v] \in Claimed /\ pc[w] \in Claimed /\ cur[v] = cur[w] => v = w

\* While no handler outlives its lock, one handler at most is between
\* locking and unlocking the trip.
LockExclusive ==
  mishaps["lockTtl"] = 0 =>
    \A v, w \in Workers : pc[v] \in Critical /\ pc[w] \in Critical => v = w

\* While no key outlives its TTL, one decline starts one new search at most,
\* and an acknowledged message is recorded as done: a redelivery that raced
\* with the first run can neither repeat it nor wipe out its record.
EffectOnce ==
  mishaps["claimTtl"] = 0 =>
    \A m \in Messages :
      /\ rematched[m] <= 1
      /\ broker[m] = "acked" => idem[m] = "done"

Settled(m) == broker[m] \in {"acked", "dead"}

-----------------------------------------------------------------------------
(* What the handlers and their documentation say of failures.              *)

Accepts == {m \in Messages : KindOf[m] = "accept"}

Quiet == \A w \in Workers : At(w, "idle")

\* An accept that met a held lock is acknowledged as lost to another driver
\* (driver_consumer.go:180).  Whoever died holding that lock, the trip does
\* not stay without a driver unnoticed: one accept at least is dead-lettered,
\* unless a call failed or a key outlived its TTL.
NotSilentlyLost ==
  mishaps["call"] = 0 /\ mishaps["claimTtl"] = 0 /\ Quiet
    => \/ trip.status # "pending"
       \/ \E m \in Accepts : ~Settled(m)
       \/ \E m \in Accepts : broker[m] = "dead"

\* idempotency.go:91, after a failure the retry of a message "can still
\* really execute the business" and is not "misjudged as a duplicate".
AcceptedIsCharged ==
  Quiet /\ trip.status # "pending" /\ (\A m \in Accepts : Settled(m))
    => \E d \in Drivers : payments[d] > 0

-----------------------------------------------------------------------------
(* Liveness.                                                               *)

\* Every message that waits is acknowledged or dead-lettered.
EverySettles == \A m \in Messages : broker[m] = "ready" ~> Settled(m)

\* While nothing fails, an accept that waits leads to the one charge, also
\* where another driver's handler holds the lock or has the trip, and though
\* reads be stale.
AcceptLeadsToCharge ==
  (\E m \in Accepts : broker[m] = "ready")
    ~> \/ \E d \in Drivers : payments[d] = 1
       \/ \E k \in Mishaps : mishaps[k] > 0

-----------------------------------------------------------------------------
\* The lifecycle that the consumers implement.
Lifecycle == INSTANCE TripLifecycle

RefinesLifecycle == Lifecycle!Spec
=============================================================================
