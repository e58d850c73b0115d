----------------------------- MODULE Dispatch -----------------------------
(***************************************************************************)
(* From the rider's order to a driver's screen: the event CreateTrip       *)
(* publishes, the driver service's consumers that search drivers and offer *)
(* them the trip, and the drivers' answers on their way back through the   *)
(* gateway.  A decline starts another search.                              *)
(*                                                                         *)
(* One order is modelled.  What Booking, TripAccept, DriverPresence and    *)
(* Delivery model in detail is one step here: the order, the handler of an *)
(* answer, a search, the delivery of an offer.                             *)
(*                                                                         *)
(* PublishWithContext waits for no confirm (rabbitmq.go:150-158): a call   *)
(* that returned nil has not delivered anything yet, and what is in flight *)
(* is lost with its channel.                                               *)
(***************************************************************************)
EXTENDS Naturals, FiniteSets

CONSTANTS
  Drivers,
  Consumers,   \* consumers of find_available_drivers, one per instance
  Fanout,      \* maxFanoutCandidates
  MaxAttempts, \* runs of the handler per delivery
  MaxDeclines, \* bound of declines, each of which starts a search
  MaxMishaps

ASSUME BoundsAssumption ==
  /\ IsFiniteSet(Drivers)
  /\ Fanout \in Nat \ {0} /\ MaxAttempts \in Nat \ {0}
  /\ MaxDeclines \in Nat /\ MaxMishaps \in Nat

VARIABLES
  trip,      \* MongoDB: the status of the trip, or "none"
  rider,     \* what the rider was answered
  online,    \* drivers a search can find
  events,    \* trip.event.created and driver_not_interested that wait
  attached,  \* consumers whose AMQP channel is open
  pc, left, published, attempt, holding,  \* each consumer's goroutine
  offers,    \* trip_requests on the way to, or on the screen of, a driver
  accepts, declines,  \* answers that wait for the trip service
  told,      \* no_drivers_found was published
  dead,      \* a message of the order was dead-lettered
  lost,      \* history: an announcement, an offer or an answer was lost
  declined,  \* history: declines so far
  again,     \* history: an event was delivered again
  toldLate,  \* history: told when a driver had the trip
  locked,    \* Redis: trip:lock:<id> was left behind by nobody at work
  mishaps

order    == <<trip, rider>>
consumer == <<pc, left, published, attempt, holding>>
answers  == <<offers, accepts, declines>>
result   == <<told, dead, lost, declined, again, toldLate>>
vars == <<order, online, events, attached, consumer, answers, result, locked, mishaps>>

TypeOK ==
  /\ trip \in {"none", "pending", "accepted"}
  /\ rider \in {"idle", "created", "error"}
  /\ online \subseteq Drivers /\ events \in Nat /\ attached \subseteq Consumers
  /\ pc \in [Consumers -> {"idle", "search", "tell", "offer", "ack", "reject"}]
  /\ left \in [Consumers -> SUBSET Drivers]
  /\ published \in [Consumers -> 0..Fanout]
  /\ attempt \in [Consumers -> 1..MaxAttempts]
  /\ holding \in [Consumers -> BOOLEAN]
  /\ offers \in [Drivers -> Nat] /\ accepts \subseteq Drivers /\ declines \in 0..MaxDeclines
  /\ {told, dead, lost, again, toldLate, locked} \subseteq BOOLEAN
  /\ declined \in 0..MaxDeclines /\ mishaps \in 0..MaxMishaps
  /\ \A w \in Consumers : holding[w] => pc[w] # "idle"

Init ==
  /\ trip = "none" /\ rider = "idle"
  /\ online \in SUBSET Drivers /\ events = 0 /\ attached = Consumers
  /\ pc = [w \in Consumers |-> "idle"] /\ left = [w \in Consumers |-> {}]
  /\ published = [w \in Consumers |-> 0] /\ attempt = [w \in Consumers |-> 1]
  /\ holding = [w \in Consumers |-> FALSE]
  /\ offers = [d \in Drivers |-> 0] /\ accepts = {} /\ declines = 0
  /\ told = FALSE /\ dead = FALSE /\ lost = FALSE /\ again = FALSE /\ toldLate = FALSE
  /\ locked = FALSE
  /\ declined = 0 /\ mishaps = 0

Mishap == mishaps < MaxMishaps /\ mishaps' = mishaps + 1
Smooth == UNCHANGED mishaps

-----------------------------------------------------------------------------
(* The rider's order.                                                      *)

rest == <<online, attached, consumer, answers, told, dead, declined, again, toldLate, locked>>

\* CreateTrip, as Booking has it: what is confirmed was announced, unless the
\* announcement is lost in flight; a failure leaves no trip, a pending trip
\* nobody hears of, or one that is announced although the rider was answered
\* with an error.
CreateTrip ==
  /\ rider = "idle"
  /\ \/ /\ trip' = "pending" /\ events' = events + 1 /\ rider' = "created"
        /\ Smooth /\ UNCHANGED lost
     \/ /\ trip' = "pending" /\ rider' = "created" /\ lost' = TRUE
        /\ Mishap /\ UNCHANGED events
     \/ /\ rider' = "error" /\ Mishap /\ UNCHANGED lost
        /\ \/ UNCHANGED <<trip, events>>
           \/ trip' = "pending" /\ events' \in {events, events + 1}
  /\ UNCHANGED rest

-----------------------------------------------------------------------------
(* The driver service.                                                     *)

Goto(w, label) == pc' = [pc EXCEPT ![w] = label]

\* A mutation of Backoff: one run too many.
OneTooMany(w) ==
  IF attempt[w] <= MaxAttempts
  THEN attempt' = [attempt EXCEPT ![w] = @ + 1] /\ Goto(w, "search")
  ELSE Goto(w, "reject") /\ UNCHANGED attempt

\* The handler returned an error.
Backoff(w) ==
  IF attempt[w] < MaxAttempts
  THEN attempt' = [attempt EXCEPT ![w] = @ + 1] /\ Goto(w, "search")
  ELSE Goto(w, "reject") /\ UNCHANGED attempt

\* There is no idempotency key: what is delivered twice is done twice.
Deliver(w) ==
  /\ pc[w] = "idle" /\ w \in attached /\ events > 0
  /\ events' = events - 1 /\ Goto(w, "search")
  /\ holding' = [holding EXCEPT ![w] = TRUE]
  /\ UNCHANGED <<order, online, attached, left, published, attempt, answers, result, locked, mishaps>>

\* What of the drivers that were found is offered the trip.
Candidates ==
  LET enough == Cardinality(online) >= Fanout
  IN  IF enough THEN {C \in SUBSET online : Cardinality(C) = Fanout} ELSE {online}

\* FindNearbyDrivers or FindAvailableDrivers.
Search(w) ==
  /\ pc[w] = "search"
  /\ \/ \E C \in Candidates :
          /\ left' = [left EXCEPT ![w] = C]
          /\ Goto(w, IF C = {} THEN "tell" ELSE "offer")
        /\ Smooth /\ UNCHANGED attempt
     \/ Mishap /\ Backoff(w) /\ UNCHANGED left
  /\ UNCHANGED <<order, online, events, attached, published, holding, answers, result, locked>>

\* The channel is the one that delivered the event.
PublishFails(w) == Mishap \/ (w \notin attached /\ Smooth)

TellNone(w) ==
  /\ pc[w] = "tell"
  /\ \/ /\ w \in attached /\ Goto(w, "ack") /\ Smooth
        /\ told' = TRUE /\ toldLate' = (toldLate \/ trip = "accepted")
        /\ UNCHANGED attempt
     \/ PublishFails(w) /\ Backoff(w) /\ UNCHANGED <<told, toldLate>>
  /\ UNCHANGED <<order, online, events, attached, left, published, holding, answers,
                 dead, lost, declined, again, locked>>

\* One candidate; a publication that fails is only logged.
Offer(w) ==
  /\ pc[w] = "offer"
  /\ \E d \in left[w] :
       /\ left' = [left EXCEPT ![w] = @ \ {d}]
       /\ \/ /\ w \in attached /\ Smooth
             /\ offers' = [offers EXCEPT ![d] = @ + 1]
             /\ published' = [published EXCEPT ![w] = @ + 1]
          \/ PublishFails(w) /\ UNCHANGED <<offers, published>>
  /\ UNCHANGED <<order, online, events, attached, pc, attempt, holding, accepts, declines, result, locked>>

\* Mutations of Reached: nobody was reached and that is fine; everybody
\* must be.
Anyhow(w) == TRUE
Everybody(w) == published[w] = Fanout
Reached(w) == published[w] > 0

\* All candidates were tried: an error only if none was reached.
Offered(w) ==
  /\ pc[w] = "offer" /\ left[w] = {}
  /\ IF Reached(w) THEN Goto(w, "ack") /\ UNCHANGED attempt ELSE Backoff(w)
  /\ UNCHANGED <<order, online, events, attached, left, published, holding, answers, result, locked, mishaps>>

\* On a closed channel nothing is settled.
Settle(w) ==
  /\ pc[w] \in {"ack", "reject"} /\ Goto(w, "idle")
  /\ dead' = (dead \/ (pc[w] = "reject" /\ holding[w]))
  /\ holding' = [holding EXCEPT ![w] = FALSE]
  /\ attempt' = [attempt EXCEPT ![w] = 1] /\ published' = [published EXCEPT ![w] = 0]
  /\ UNCHANGED <<order, online, events, attached, left, answers, told, lost,
                 declined, again, toldLate, locked, mishaps>>

\* What w holds goes back to the queue.
Return(w) ==
  /\ events' = IF holding[w] THEN events + 1 ELSE events
  /\ again' = (again \/ holding[w])
  /\ holding' = [holding EXCEPT ![w] = FALSE]
  /\ UNCHANGED <<order, online, answers, told, dead, lost, declined, toldLate, locked>>

Detach(w) ==
  /\ Mishap /\ w \in attached /\ attached' = attached \ {w} /\ Return(w)

ChannelCloses(w) == Detach(w) /\ UNCHANGED <<pc, left, published, attempt>>

\* A publication has returned nil and is lost with its channel.  So is the
\* acknowledgement, and the event is delivered again.
TellUnheard(w) ==
  /\ pc[w] = "tell" /\ Detach(w) /\ Goto(w, "ack")
  /\ UNCHANGED <<left, published, attempt>>

OfferUnheard(w) ==
  /\ pc[w] = "offer" /\ Detach(w)
  /\ \E d \in left[w] : left' = [left EXCEPT ![w] = @ \ {d}]
  /\ published' = [published EXCEPT ![w] = @ + 1]
  /\ UNCHANGED <<pc, attempt>>

Crash(w) ==
  /\ Mishap \/ (w \notin attached /\ Smooth)
  /\ attached' = attached \cup {w} /\ Return(w)
  /\ Goto(w, "idle") /\ left' = [left EXCEPT ![w] = {}]
  /\ published' = [published EXCEPT ![w] = 0] /\ attempt' = [attempt EXCEPT ![w] = 1]

-----------------------------------------------------------------------------
(* The drivers and what they answer.                                       *)

others == <<order, events, attached, consumer>>

\* A driver comes, goes or moves.
Move(d) ==
  /\ online' \in {online \cup {d}, online \ {d}}
  /\ UNCHANGED <<others, answers, result, locked, mishaps>>

\* The gateway publishes the answer; an error is only logged.  An offer may
\* also be dropped because its driver is not connected.
Respond(d) ==
  /\ offers[d] > 0 /\ offers' = [offers EXCEPT ![d] = @ - 1]
  /\ \/ accepts' = accepts \cup {d} /\ Smooth /\ UNCHANGED <<declines, declined, lost>>
     \/ /\ declined < MaxDeclines /\ declined' = declined + 1
        /\ declines' = declines + 1 /\ Smooth /\ UNCHANGED <<accepts, lost>>
     \/ lost' = TRUE /\ Mishap /\ UNCHANGED <<accepts, declines, declined>>
  /\ UNCHANGED <<others, online, told, dead, again, toldLate, locked>>

\* The trip service handles an accept.  The first one has the trip.  One
\* that finds the lock taken, by another accept at work or by nobody, is
\* acknowledged without effect.  One whose handler dies goes to the dead
\* letters, since its claim is left too; and so may the lock be.  One whose
\* SETNX or unlock gets no answer finds its own lock when it tries again.
Accept(d) ==
  /\ d \in accepts /\ accepts' = accepts \ {d}
  /\ \/ ~locked /\ trip' = "accepted" /\ Smooth /\ UNCHANGED <<dead, lost, locked>>
     \/ /\ locked \/ accepts # {d}
        /\ Smooth /\ UNCHANGED <<trip, dead, lost, locked>>
     \/ /\ dead' = TRUE /\ Mishap /\ locked' \in {locked, TRUE}
        /\ UNCHANGED <<trip, lost>>
     \/ /\ lost' = TRUE /\ Mishap /\ locked' = TRUE
        /\ UNCHANGED <<trip, dead>>
  /\ UNCHANGED <<rider, events, attached, consumer, online, offers, declines,
                 told, declined, again, toldLate>>

\* Its 30 s are over.
LockExpires ==
  /\ locked /\ locked' = FALSE
  /\ UNCHANGED <<order, online, events, attached, consumer, answers, result, mishaps>>

\* And a decline: whatever the status of the trip, it is published for the
\* next search.  The decline is marked as done, so that a publication lost in
\* flight is not made again.
Decline ==
  /\ declines > 0 /\ declines' = declines - 1
  /\ \/ events' = events + 1 /\ Smooth /\ UNCHANGED <<dead, lost>>
     \/ dead' = TRUE /\ Mishap /\ UNCHANGED <<events, lost>>
     \/ lost' = TRUE /\ Mishap /\ UNCHANGED <<events, dead>>
  /\ UNCHANGED <<order, attached, consumer, offers, accepts, online, told,
                 declined, again, toldLate, locked>>

-----------------------------------------------------------------------------

Work(w) ==
  \/ Deliver(w) \/ Search(w) \/ TellNone(w) \/ Offer(w) \/ Offered(w) \/ Settle(w)

Breaks(w) == ChannelCloses(w) \/ TellUnheard(w) \/ OfferUnheard(w) \/ Crash(w)

Next ==
  \/ CreateTrip
  \/ \E w \in Consumers : Work(w) \/ Breaks(w)
  \/ \E d \in Drivers : Move(d) \/ Respond(d) \/ Accept(d)
  \/ Decline \/ LockExpires

Spec == Init /\ [][Next]_vars

\* Consumers run, and the trip service handles what waits.  Riders and
\* drivers need not do anything, and nothing restarts a consumer whose
\* channel closed: its goroutine ends (rabbitmq.go:80-119), the process goes on.
FairSpec ==
  /\ Spec /\ WF_vars(Decline)
  /\ \A w \in Consumers : WF_vars(Work(w))
  /\ \A d \in Drivers : WF_vars(Accept(d))

-----------------------------------------------------------------------------

Offering == \E d \in Drivers : offers[d] > 0

(* An order that was confirmed is in somebody's hands at any time: a       *)
(* search, a driver who was asked, an answer on its way, or the rider was  *)
(* told or a message dead-lettered.  It vanishes only with a message that  *)
(* is lost: an announcement or an answer in flight when its channel        *)
(* closes, an offer or an answer the gateway drops or fails to publish,    *)
(* or an accept that is acknowledged because of its own lock; one that     *)
(* meets another's lock leaves the order with that one, or with the dead   *)
(* letters (trip_consumer.go:82-91, 124-138, ws.go:168-175,                *)
(* driver_consumer.go:175-183, rabbitmq.go:150-158).                       *)
InSomebodysHands ==
  rider = "created" /\ trip = "pending" =>
    \/ events > 0 \/ \E w \in Consumers : holding[w]
    \/ Offering \/ accepts # {} \/ declines > 0
    \/ told \/ dead \/ lost

(* A rider who has a driver is told that there is none only when another   *)
(* driver declined or the event was delivered twice: the handler of a      *)
(* decline does not ask whether the trip has been taken                    *)
(* (driver_consumer.go:140-167, trip_consumer.go:82-91).                   *)
NoneMeansNobody == toldLate => declined > 0 \/ again

(* A confirmed order leads to an offer or the rider is told, unless a      *)
(* message dies or is lost, or all the consumers have lost their channels: *)
(* then nobody searches for as long as none is restarted                   *)
(* (trip_consumer.go:62-138, rabbitmq.go:80-119).                          *)
OrderLeadsOn ==
  rider = "created" ~>
    Offering \/ trip = "accepted" \/ told \/ dead \/ lost \/ attached = {}
=============================================================================
