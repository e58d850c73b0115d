------------------------ MODULE AcceptThroughCache ------------------------
(***************************************************************************)
(* The accept handler on top of the caches: accepts of one trip by several *)
(* drivers (the acceptors), each delivery run up to MaxAttempts times,     *)
(* while other callers of TripCache read the trip for the gateway's        *)
(* GET /trip/{id}, or report its payment.  What the handler reads and      *)
(* writes goes through GetTripByID and UpdateTrip as TripCache has them.   *)
(*                                                                         *)
(* The idempotency keys, the lock's TTL, a SETNX or an unlock that fails,  *)
(* deaths of the lock's holder and failed calls to the broker are left to  *)
(* TripAccept.                                                             *)
(***************************************************************************)
EXTENDS TripCache

CONSTANTS
  Acceptors,   \* the callers that are accept handlers, one driver each
  MaxAttempts  \* runs of the handler before its message is dead-lettered

ASSUME AcceptorsAssumption ==
  /\ Acceptors \subseteq Callers
  /\ MaxAttempts \in Nat \ {0}

VARIABLES
  stage,     \* where the handler of each acceptor is
  attempt,   \* which run of it
  driver,    \* MongoDB: whose driver the document has, NoCaller if none
  lock,      \* the acceptor whose driver is in trip:lock:<trip>, or NoCaller
  inHand,    \* callers that had a version for L1 when an acceptor's last
             \* pause began, and have not stored it yet
  stored,    \* the versions others have stored since, each with its replica
  announced, \* the version in each acceptor's driver_assigned, Nothing if none
  crossed    \* history: acceptors that emptied L1 while an old version was
             \* on its way there

waitVars   == <<inHand, stored>>
acceptVars == <<stage, attempt, driver, lock, waitVars, announced, crossed>>
vars == <<cacheVars, acceptVars>>

Stages == {"start", "waiting", "guard", "update", "again", "skipped", "announced", "dead"}

\* The trip was created, and its id is in the filter.
AcceptInit ==
  /\ Stores(Pending, {Positions})
  /\ stage = [c \in Acceptors |-> "start"]
  /\ attempt = [c \in Acceptors |-> 1]
  /\ driver = NoCaller /\ lock = NoCaller
  /\ inHand = [c \in Acceptors |-> {}] /\ stored = [c \in Acceptors |-> {}]
  /\ announced = [c \in Acceptors |-> Nothing] /\ crossed = {}

-----------------------------------------------------------------------------

Move(c, from, to) == stage[c] = from /\ stage' = [stage EXCEPT ![c] = to]

\* What the handler called has returned.
Returned(c) == At(c, "idle")

\* SET NX, then the first read; without the lock the accept is dropped.
TryLock(c) ==
  /\ UNCHANGED <<attempt, waitVars, announced>>
  /\ \/ /\ lock = NoCaller /\ lock' = c
        /\ Move(c, "start", "guard") /\ BeginGet(c)
     \/ /\ lock # NoCaller /\ Move(c, "start", "skipped")
        /\ UNCHANGED <<lock, cacheVars>>

\* A version on its way from Redis or MongoDB to the local cache.
HasForL1(d) == pc[d] \in {"fillL1", "storeL1"}

\* WithBackoff pauses 1 s, 2 s, 4 s.  The pauses before the last may end at
\* any time, as far as the caches are concerned.
LastPause(c) == attempt[c] = MaxAttempts - 1

\* The handler returned an error: the lock is released, the delivery is run
\* again after a pause, or dead-lettered.
Fail(c) ==
  /\ lock' = NoCaller
  /\ \/ /\ attempt[c] = MaxAttempts
        /\ stage' = [stage EXCEPT ![c] = "dead"] /\ UNCHANGED <<attempt, waitVars>>
     \/ /\ LastPause(c)
        /\ stage' = [stage EXCEPT ![c] = "waiting"]
        /\ inHand' = [inHand EXCEPT ![c] = {d \in Callers : HasForL1(d)}]
        /\ stored' = [stored EXCEPT ![c] = {}]
        /\ UNCHANGED attempt
     \/ /\ attempt[c] < MaxAttempts - 1
        /\ stage' = [stage EXCEPT ![c] = "start"]
        /\ attempt' = [attempt EXCEPT ![c] = @ + 1]
        /\ UNCHANGED waitVars
  /\ UNCHANGED <<announced, cacheVars>>

\* A local cache drops a version 2 s after it was stored, and the last pause
\* is longer than that by more than a caller takes to store what it has: it
\* does not end while L1 holds, or is to be given, what is older than it.
Outlasted(c) ==
  /\ inHand[c] = {}
  /\ \A r \in Replicas :
       \A v \in {l1[r]} \cup {buffer[r][i] : i \in DOMAIN buffer[r]} :
         v = Nothing \/ <<r, v>> \in stored[c]

Wake(c) ==
  /\ Move(c, "waiting", "start") /\ Outlasted(c)
  /\ attempt' = [attempt EXCEPT ![c] = @ + 1]
  /\ stored' = [stored EXCEPT ![c] = {}]
  /\ UNCHANGED <<inHand, lock, announced, cacheVars>>

\* A mutation of Open: the wrong status is compared.
OpenAccepted(c) == got[c] = Accepted

Open(c) == got[c] = Pending

\* The guard on the status: a trip that is not pending is left alone.
Guard(c) ==
  /\ Returned(c) /\ stage[c] = "guard"
  /\ \/ outcome[c] # "found" /\ Fail(c)
     \/ /\ outcome[c] = "found" /\ ~Open(c)
        /\ Move(c, "guard", "skipped") /\ lock' = NoCaller
        /\ UNCHANGED <<attempt, waitVars, announced, cacheVars>>
     \/ /\ outcome[c] = "found" /\ Open(c)
        /\ Move(c, "guard", "update") /\ BeginAccept(c)
        /\ UNCHANGED <<attempt, lock, waitVars, announced>>

Updated(c) ==
  /\ Returned(c) /\ stage[c] = "update"
  /\ \/ outcome[c] # "found" /\ Fail(c)
     \/ /\ outcome[c] = "found"
        /\ Move(c, "update", "again") /\ BeginGet(c)
        /\ UNCHANGED <<attempt, lock, waitVars, announced>>

\* The second read is what driver_assigned carries; the lock is released.
Announce(c) ==
  /\ Returned(c) /\ stage[c] = "again"
  /\ \/ outcome[c] # "found" /\ Fail(c)
     \/ /\ outcome[c] = "found" /\ Move(c, "again", "announced")
        /\ announced' = [announced EXCEPT ![c] = got[c]]
        /\ lock' = NoCaller /\ UNCHANGED <<attempt, waitVars, cacheVars>>

Handler(c) ==
  /\ TryLock(c) \/ Guard(c) \/ Updated(c) \/ Announce(c) \/ Wake(c)
  /\ UNCHANGED <<driver, crossed>>

\* The update of an acceptor has reached MongoDB, its answer perhaps not.
Written(c) == At(c, "accept") /\ (At(c, "dropL2")' \/ doc' # doc)

\* An older version is on its way into the local cache that c empties: a
\* caller has it in hand, or it waits to be applied.
Crossed(c) ==
  /\ At(c, "dropL1")
  /\ \/ \E d \in Callers : HomeOf[d] = HomeOf[c] /\ HasForL1(d) /\ got[d] < doc
     \/ buffer[HomeOf[c]] # <<>>

\* A step of the call a caller has made.
Inside(c) ==
  /\ Proceed(c)
  /\ driver' = IF Written(c) THEN c ELSE driver
  /\ crossed' = crossed \cup {d \in {c} \cap Acceptors : Crossed(d)}
  /\ inHand' = [a \in Acceptors |-> inHand[a] \ {c}]
  /\ stored' = [a \in Acceptors |->
       IF stage[a] = "waiting" /\ HasForL1(c) /\ c \notin inHand[a]
       THEN stored[a] \cup {<<HomeOf[c], got[c]>>} ELSE stored[a]]
  /\ UNCHANGED <<stage, attempt, lock, announced>>

\* Whoever else calls: a rider who reads, or the payment's success, which
\* follows the command that goes out with driver_assigned.
Other(c) ==
  /\ \/ BeginGet(c)
     \/ BeginPay(c) /\ \E a \in Acceptors : stage[a] = "announced"
  /\ UNCHANGED acceptVars

\* What time does to a local cache.
Ages(r) == (Apply(r) \/ ExpireL1(r)) /\ UNCHANGED acceptVars

AcceptNext ==
  \/ \E c \in Acceptors : Handler(c)
  \/ \E c \in Callers \ Acceptors : Other(c)
  \/ \E c \in Callers : Inside(c)
  \/ \E r \in Replicas : Ages(r)
  \/ ExpireL2 /\ UNCHANGED acceptVars

AcceptSpec == AcceptInit /\ [][AcceptNext]_vars

\* As long as a handler, a call or ristretto's goroutine can run on, one
\* does, and a TTL ends: all of them are bounded, so no fairness between
\* them is needed.
RunsOn ==
  \/ \E c \in Callers : Inside(c)
  \/ \E c \in Acceptors : Handler(c)
  \/ \E r \in Replicas : Ages(r)

AcceptFairSpec == AcceptSpec /\ WF_vars(RunsOn)

-----------------------------------------------------------------------------

Announced(c) == stage[c] = "announced"

StatusOf ==
  [v \in Versions |-> CASE v = Pending -> "pending" [] v = Accepted -> "accepted" [] v = Paid -> "payed"]

Lifecycle == INSTANCE TripLifecycle WITH
  Drivers  <- Acceptors,
  NoDriver <- NoCaller,
  trip     <- [status |-> StatusOf[doc], driver |-> driver],
  payments <- [c \in Acceptors |-> IF Announced(c) THEN 1 ELSE 0]

(* However stale the caches are, the trip has the life that TripLifecycle  *)
(* promises: one driver, who is the one that is announced and charged for, *)
(* and a payment after that.  The condition on the status in MongoDB is    *)
(* the last line of defence (driver_consumer.go:217, service.go:295).      *)
RefinesLifecycle == Lifecycle!Spec

(* Without a failed call one of the drivers is announced, whatever the     *)
(* caches answer to the others (driver_consumer.go:169-270).               *)
SomebodyWins == <>(fails > 0 \/ \E c \in Acceptors : Announced(c))

(* What stale reads may cost.  An accept that came too late is dead-       *)
(* lettered only where Redis was left with an old version: local caches    *)
(* alone, stale for 2 s, cost a retry (service.go:34-37).  And the handler *)
(* announces a trip without a driver, the version before its own update,   *)
(* only in that case or when a fill of the local cache on its replica was  *)
(* under way as UpdateTrip emptied it (service.go:341, 419, local.go:19-21,*)
(* driver_consumer.go:233).                                                *)
CostOfStaleReads ==
  /\ fails = 0 /\ (\E c \in Acceptors : stage[c] = "dead") => tainted
  /\ \A c \in Acceptors : announced[c] = Pending => tainted \/ c \in crossed
=============================================================================
