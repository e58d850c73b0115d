------------------------------ MODULE Booking ------------------------------
(***************************************************************************)
(* From the preview to the confirmed order of one rider, who may click     *)
(* again before the first click is answered, at several gateways: fares    *)
(* are stored in Redis, POST /trip/start passes the rate limit, and the    *)
(* trip service validates the fare, inserts the trip and publishes         *)
(* trip.event.created.  What follows the event is modelled in Dispatch.    *)
(***************************************************************************)
EXTENDS RateLimit

CONSTANTS
  Packages,    \* the packages a preview has a fare for
  MaxMishaps   \* failed calls, lost answers and crashes, a bound

ASSUME MishapsAssumption == MaxMishaps \in Nat

VARIABLES
  cached,    \* Redis: fare:<id> of the fares of the last preview
  shown,     \* does the rider see those fares
  stage,     \* where each request is, or what it was answered
  pick,      \* the package of the fare in each request
  order,     \* what a request has brought about
  expired,   \* history: fares of the last preview whose TTL ended
  troubled,  \* history: requests that met a failure
  mishaps

fareVars  == <<cached, shown, expired>>
orderVars == <<stage, pick, order, troubled>>
vars == <<limitVars, fareVars, orderVars, mishaps>>

\* HTTP 201, 429 and 500.
Answers == {"created", "refused", "error"}

TypeOK ==
  /\ LimitTypeOK
  /\ cached \subseteq Packages /\ shown \in BOOLEAN /\ expired \subseteq Packages
  /\ stage \in [Requests -> {"idle", "limit", "validate", "insert", "publish"} \cup Answers]
  /\ pick \in [Requests -> Packages]
  /\ order \in [Requests -> {"none", "inserted", "announced", "lost"}]
  /\ troubled \subseteq Requests /\ mishaps \in 0..MaxMishaps
  /\ \A r \in Requests : sent[r] # NoStamp <=> stage[r] = "limit"

Init ==
  /\ LimitInit
  /\ cached = {} /\ shown = FALSE /\ expired = {}
  /\ stage = [r \in Requests |-> "idle"]
  /\ pick \in {[r \in Requests |-> p] : p \in Packages}
  /\ order = [r \in Requests |-> "none"]
  /\ troubled = {} /\ mishaps = 0

-----------------------------------------------------------------------------

Mishap == mishaps < MaxMishaps /\ mishaps' = mishaps + 1

Goto(r, from, to) == stage[r] = from /\ stage' = [stage EXCEPT ![r] = to]

\* The request goes on, or fails.
Onward(r, from, to) == Goto(r, from, to) /\ UNCHANGED <<troubled, mishaps>>

Fails(r, from) ==
  /\ Goto(r, from, "error") /\ Mishap
  /\ troubled' = troubled \cup {r}

\* If one of the fares was not stored, none is returned.
Presented(failed) == failed = {}

\* GenerateTripFares: a goroutine for each package stores its fare; a SET
\* that fails may have been done.
StoreFares(failed) ==
  /\ cached' \in {stored \in SUBSET Packages : Packages \ failed \subseteq stored}
  /\ IF failed = {} THEN UNCHANGED mishaps ELSE Mishap

\* Route and prices are computed, nothing outside is asked for them.
PreviewTrip ==
  \E failed \in SUBSET Packages : StoreFares(failed) /\ shown' = Presented(failed)

\* Every preview has fares of its own; those followed here are the ones of
\* the page the rider looks at.  The answer may be lost.
Preview ==
  /\ \A r \in Requests : stage[r] \in {"idle"} \cup Answers
  /\ \/ PreviewTrip
     \/ StoreFares({}) /\ shown' = FALSE
  /\ expired' = {}
  /\ stage' = [r \in Requests |-> "idle"]
  /\ order' = [r \in Requests |-> "none"]
  /\ troubled' = {}
  /\ UNCHANGED <<limitVars, pick>>

\* fareCacheTTL.
FareExpires(p) ==
  /\ p \in cached
  /\ cached' = cached \ {p} /\ expired' = expired \cup {p}
  /\ UNCHANGED <<limitVars, shown, orderVars, mishaps>>

\* The rider clicks, again perhaps: nothing marks a fare as used.
TripStart(r) ==
  /\ shown /\ stage[r] \in {"idle"} \cup Answers
  /\ stage' = [stage EXCEPT ![r] = "limit"]
  /\ \E p \in Packages : pick' = [pick EXCEPT ![r] = p]
  /\ order' = [order EXCEPT ![r] = "none"]
  /\ troubled' = troubled \ {r}
  /\ Stamp(r)
  /\ UNCHANGED <<fareVars, mishaps>>

\* allowTripStartByRateLimit; a script whose answer is lost has run.
AskLimit(r) ==
  /\ \/ Admit(r) /\ Onward(r, "limit", "validate")
     \/ Refuse(r) /\ Onward(r, "limit", "refused")
     \/ Fails(r, "limit") /\ (Admit(r) \/ Refuse(r) \/ NoScript(r))
  /\ UNCHANGED <<fareVars, pick, order>>

\* MongoDB has the fares of a service that runs without Redis: it is asked
\* for any fare Redis does not give, and has none.
InMongo == {}

\* GetAndValidateFare; the fare is one that was shown to this rider.
Validate(r) ==
  /\ \/ pick[r] \in cached \cup InMongo /\ Onward(r, "validate", "insert")
     \/ pick[r] \notin cached \cup InMongo /\ Onward(r, "validate", "error")
     \/ Fails(r, "validate")
  /\ UNCHANGED <<limitVars, fareVars, pick, order>>

\* The trip's id is new: the insert cannot meet another one's trip.
Insert(r) ==
  /\ \/ Onward(r, "insert", "publish") /\ order' = [order EXCEPT ![r] = "inserted"]
     \/ /\ Fails(r, "insert")
        /\ \E o \in {"none", "inserted"} : order' = [order EXCEPT ![r] = o]
  /\ UNCHANGED <<limitVars, fareVars, pick>>

\* A mutation of Publish: the error is logged, as elsewhere.
PublishOrLog(r) ==
  /\ \/ Onward(r, "publish", "created") /\ order' = [order EXCEPT ![r] = "announced"]
     \/ /\ Goto(r, "publish", "created") /\ Mishap
        /\ UNCHANGED <<order, troubled>>
  /\ UNCHANGED <<limitVars, fareVars, pick>>

\* PublishTripCreated, then the answer, which may not reach the rider.  When
\* the publication fails the trip stays pending, with nobody to look for a
\* driver.  So it does, with the rider confirmed, when the call returned nil
\* and the channel takes with it what is in flight: there is no confirm.
Publish(r) ==
  /\ \/ Onward(r, "publish", "created") /\ order' = [order EXCEPT ![r] = "announced"]
     \/ /\ Goto(r, "publish", "created") /\ Mishap /\ UNCHANGED troubled
        /\ order' = [order EXCEPT ![r] = "lost"]
     \/ /\ Fails(r, "publish")
        /\ \E o \in {"inserted", "announced"} : order' = [order EXCEPT ![r] = o]
  /\ UNCHANGED <<limitVars, fareVars, pick>>

Serve(r) == AskLimit(r) \/ Validate(r) \/ Insert(r) \/ Publish(r)

Next ==
  \/ Preview
  \/ \E p \in Packages : FareExpires(p)
  \/ \E r \in Requests : TripStart(r) \/ Serve(r)
  \/ Tick /\ UNCHANGED <<fareVars, orderVars, mishaps>>

Spec == Init /\ [][Next]_vars

-----------------------------------------------------------------------------

(* What the rider was answered is what happened, for every click: the      *)
(* order that is confirmed was announced to the drivers, or its            *)
(* announcement was lost after the call for it had succeeded, since no     *)
(* publication is confirmed (rabbitmq.go:150-158); nothing came of one     *)
(* that was refused; and an error has a cause: a failure of this very      *)
(* request or the TTL of the fare it names.  Neither a preview that stored *)
(* only some of its fares nor another click makes one fail                 *)
(* (grpc_handler.go:34-55, http.go:60-92, service.go:163-209).             *)
AnswerIsTrue ==
  \A r \in Requests :
    /\ stage[r] = "created" => order[r] \in {"announced", "lost"}
    /\ stage[r] = "refused" => order[r] = "none"
    /\ stage[r] = "error" => r \in troubled \/ pick[r] \in expired
=============================================================================
