------------------------- MODULE TripAcceptProofs -------------------------
(***************************************************************************)
(* What TLAPS proves of TripAccept, for any number of drivers, messages    *)
(* and service instances, and any number of mishaps.                       *)
(***************************************************************************)
EXTENDS TripAccept, TLAPS

USE DEF Unclaimed, IsDone, Free, Open, Matches, Payed

Assumptions == WorkersAssumption /\ DriversAssumption /\ MessagesAssumption /\ BoundsAssumption

\* The constants' assumptions, under one name.
LEMMA Constants == Assumptions
  BY WorkersAssumption, DriversAssumption, MessagesAssumption, BoundsAssumption
     DEF Assumptions

\* Where a handler goes after its claim depends on the kind of its message.
LEMMA FirstStepKind ==
  ASSUME NEW m \in Messages
  PROVE  /\ FirstStep(m) \in {"lock", "getDeclined", "pay", "release"}
         /\ FirstStep(m) = "pay" => KindOf[m] = "payed"
  <1>1. KindOf[m] \in Kinds
    BY MessagesAssumption
  <1>2. QED
    BY <1>1 DEF FirstStep, Kinds

\* Trying again or giving up keeps the types of the control variables.
LEMMA BackoffType ==
  ASSUME TypeOK, NEW w \in Workers, Backoff(w)
  PROVE  /\ pc' = [pc EXCEPT ![w] = pc'[w]]
         /\ pc'[w] \in {"claim", "reject"}
         /\ pc' \in [Workers -> Labels]
         /\ attempt' \in [Workers -> 1..MaxAttempts]
  <1> USE BoundsAssumption
  <1>1. CASE attempt[w] < MaxAttempts
    <2>1. attempt[w] + 1 \in 1..MaxAttempts
      BY <1>1 DEF TypeOK
    <2>2. QED
      BY <1>1, <2>1 DEF Backoff, TypeOK, Labels
  <1>2. CASE ~(attempt[w] < MaxAttempts)
    BY <1>2 DEF Backoff, Goto, TypeOK, Labels
  <1>3. QED
    BY <1>1, <1>2

\* What GetTripByID returns is a trip document.
LEMMA ReadableDocs == TypeOK => Readable \subseteq Docs
  BY DEF TypeOK, Readable

\* A mishap adds to its own count only.
LEMMA MishapType ==
  ASSUME TypeOK, NEW k \in Mishaps, Mishap(k) \/ Smooth
  PROVE  mishaps' \in [Mishaps -> Nat] /\ \A j \in Mishaps : mishaps[j] <= mishaps'[j]
  BY DEF TypeOK, Mishap, Smooth

\* So does a call that fails, and one that does not.
LEMMA CallMishap ==
  ASSUME TypeOK, CallFails \/ Smooth
  PROVE  mishaps' \in [Mishaps -> Nat] /\ \A j \in Mishaps : mishaps[j] <= mishaps'[j]
  BY MishapType, "call" \in Mishaps DEF CallFails, Mishaps

-----------------------------------------------------------------------------
(* Type correctness.                                                       *)

\* The types hold at first.
LEMMA InitType == Init => TypeOK
  BY Constants DEF Assumptions, BoundsAssumption, DriversAssumption, Init, TypeOK, Docs, Pending, Labels, Workers

\* The steps on the idempotency key keep the types.
LEMMA ClaimType ==
  ASSUME TypeOK, NEW w \in Workers, Claim(w) \/ Inspect(w) \/ Mark(w) \/ Release(w)
  PROVE  TypeOK'
  <1>1. CallFails \/ Smooth
    BY DEF Claim, Inspect, Mark, Release
  <1>2. mishaps' \in [Mishaps -> Nat]
    BY <1>1, CallMishap
  <1>3. cur[w] \in Messages
    BY DEF TypeOK, Claim, Inspect, Mark, Release, At
  <1>4. FirstStep(cur[w]) \in Labels
    BY <1>3, FirstStepKind DEF Labels
  <1>5. pc' \in [Workers -> Labels] /\ attempt' \in [Workers -> 1..MaxAttempts]
    <2>1. CASE Backoff(w)
      BY <2>1, BackoffType
    <2>2. CASE \E l \in Labels : Goto(w, l)
      BY <2>2 DEF Goto, TypeOK
    <2>3. QED
      BY <2>1, <2>2, <1>4 DEF Claim, Inspect, Mark, Release, Labels
  <1>6. idem' \in [Messages -> {"none", "processing", "done"}]
    BY <1>3 DEF TypeOK, Claim, Inspect, Mark, Release, redisVars
  <1>7. \A v \in Workers : pc'[v] # "idle" => pc[v] # "idle"
    <2>1. pc[w] # "idle"
      BY DEF Claim, Inspect, Mark, Release, At
    <2>2. \A v \in Workers : v # w => pc'[v] = pc[v]
      BY BackoffType DEF Claim, Inspect, Mark, Release, Goto, TypeOK
    <2>3. QED
      BY <2>1, <2>2
  <1>8. cur' = cur /\ failed' \in [Workers -> BOOLEAN]
    BY DEF Claim, Inspect, Mark, Release, TypeOK
  <1>9. UNCHANGED <<mongoVars, broker, lock, attached, view, outVars>>
    BY DEF Claim, Inspect, Mark, Release, redisVars
  <1>10. QED
    BY <1>2, <1>5, <1>6, <1>7, <1>8, <1>9 DEF TypeOK, mongoVars, outVars

\* So do the steps of handleTripAccepted.
LEMMA AcceptType ==
  ASSUME TypeOK, NEW w \in Workers,
         TryLock(w) \/ Get(w) \/ Update(w) \/ GetAgain(w)
           \/ PublishAssigned(w) \/ PublishPayment(w) \/ Unlock(w)
  PROVE  TypeOK'
  <1> DEFINE Step == TryLock(w) \/ Get(w) \/ Update(w) \/ GetAgain(w)
                       \/ PublishAssigned(w) \/ PublishPayment(w) \/ Unlock(w)
  <1>1. CallFails \/ Smooth
    BY DEF TryLock, Get, Update, GetAgain, PublishAssigned, PublishPayment, Unlock, PublishFails
  <1>2. mishaps' \in [Mishaps -> Nat]
    BY <1>1, CallMishap
  <1>3. cur[w] \in Messages /\ pc[w] # "idle"
    BY DEF TypeOK, TryLock, Get, Update, GetAgain, PublishAssigned, PublishPayment, Unlock, At
  <1>4. DriverOf[cur[w]] \in Drivers
    BY <1>3, MessagesAssumption
  <1>5. \E l \in Labels : Goto(w, l)
    <2>1. Labels = {"idle", "claim", "inspect", "lock", "get", "update", "getAgain",
                    "publishAssigned", "publishPayment", "unlock", "getDeclined",
                    "publishRematch", "pay", "mark", "release", "ack", "reject"}
      BY DEF Labels
    <2>2. QED
      BY <2>1 DEF TryLock, Get, Update, GetAgain, PublishAssigned, PublishPayment, Unlock, Leave
  <1>6. /\ pc' \in [Workers -> Labels]
        /\ attempt' = attempt
        /\ \A v \in Workers : pc'[v] # "idle" => pc[v] # "idle"
    BY <1>3, <1>5 DEF Goto, TypeOK
  <1>7. failed' \in [Workers -> BOOLEAN]
    BY DEF TypeOK, TryLock, Get, Update, GetAgain, PublishAssigned, PublishPayment, Unlock, Leave
  <1>8. view' \in [Workers -> Docs]
    <2>1. Pending \in Docs
      BY DEF Pending, Docs
    <2>2. QED
      BY <2>1, ReadableDocs
         DEF TypeOK, TryLock, Get, Update, GetAgain, PublishAssigned, PublishPayment, Unlock
  <1>9. lock' \in Drivers \cup {NoDriver}
    BY <1>4 DEF TypeOK, TryLock, Get, Update, GetAgain, PublishAssigned, PublishPayment, Unlock, redisVars
  <1>10. trip' \in Docs /\ versions' \subseteq Docs
    <2>1. [status |-> "accepted", driver |-> DriverOf[cur[w]]] \in Docs
      BY <1>4 DEF Docs
    <2>2. QED
      BY <2>1 DEF TypeOK, TryLock, Get, Update, GetAgain, PublishAssigned, PublishPayment,
                  Unlock, mongoVars, Store
  <1>11. /\ assigned' \in [Drivers \cup {NoDriver} -> Nat]
         /\ payments' \in [Drivers -> Nat]
    <2>1. view[w].driver \in Drivers \cup {NoDriver}
      BY DEF TypeOK, Docs
    <2>2. assigned[view[w].driver] + 1 \in Nat /\ payments[DriverOf[cur[w]]] + 1 \in Nat
      BY <1>4, <2>1 DEF TypeOK
    <2>3. QED
      BY <2>1, <2>2, <1>4 DEF TypeOK, TryLock, Get, Update, GetAgain, PublishAssigned,
                              PublishPayment, Unlock, outVars
  <1>12. UNCHANGED <<broker, idem, attached, cur, rematched>>
    BY DEF TryLock, Get, Update, GetAgain, PublishAssigned, PublishPayment, Unlock,
           redisVars, outVars
  <1>13. QED
    BY <1>2, <1>6, <1>7, <1>8, <1>9, <1>10, <1>11, <1>12 DEF TypeOK

\* So do those of handleTripDeclined and of the payment consumer.
LEMMA DeclineAndPayType ==
  ASSUME TypeOK, NEW w \in Workers, GetDeclined(w) \/ PublishRematch(w) \/ Pay(w)
  PROVE  TypeOK'
  <1>1. mishaps' \in [Mishaps -> Nat]
    BY CallMishap DEF GetDeclined, PublishRematch, Pay, PublishFails
  <1>2. cur[w] \in Messages /\ pc[w] # "idle"
    BY DEF TypeOK, GetDeclined, PublishRematch, Pay, At
  <1>3. \E l \in Labels : Goto(w, l)
    BY DEF GetDeclined, PublishRematch, Pay, Labels
  <1>4. /\ pc' \in [Workers -> Labels]
        /\ attempt' = attempt
        /\ \A v \in Workers : pc'[v] # "idle" => pc[v] # "idle"
    BY <1>2, <1>3 DEF Goto, TypeOK
  <1>5. view' \in [Workers -> Docs]
    <2>1. Pending \in Docs
      BY DEF Pending, Docs
    <2>2. QED
      BY <2>1, ReadableDocs DEF TypeOK, GetDeclined, PublishRematch, Pay
  <1>6. trip' \in Docs /\ versions' \subseteq Docs
    <2>1. [trip EXCEPT !.status = "payed"] \in Docs
      BY DEF TypeOK, Docs
    <2>2. QED
      BY <2>1 DEF TypeOK, GetDeclined, PublishRematch, Pay, mongoVars, Store
  <1>7. rematched' \in [Messages -> Nat]
    <2>1. rematched[cur[w]] + 1 \in Nat
      BY <1>2 DEF TypeOK
    <2>2. QED
      BY <2>1 DEF TypeOK, GetDeclined, PublishRematch, Pay, outVars
  <1>8. UNCHANGED <<broker, idem, lock, attached, cur, failed, assigned, payments>>
    BY DEF GetDeclined, PublishRematch, Pay, redisVars, outVars
  <1>9. QED
    BY <1>1, <1>4, <1>5, <1>6, <1>7, <1>8 DEF TypeOK

\* So do deliveries, settlements, crashes and closed channels.
LEMMA BrokerType ==
  ASSUME TypeOK, NEW w \in Workers,
         (\E m \in Messages : Deliver(w, m)) \/ Ack(w) \/ Reject(w)
           \/ Crash(w) \/ ChannelCloses(w)
  PROVE  TypeOK'
  <1>1. Pending \in Docs /\ 1 \in 1..MaxAttempts /\ "idle" \in Labels /\ "claim" \in Labels
    BY BoundsAssumption DEF Pending, Docs, Labels
  <1>2. CASE \E m \in Messages : Deliver(w, m)
    <2>1. PICK m \in Messages : Deliver(w, m)
      BY <1>2
    <2>2. QED
      BY <2>1, <1>1 DEF Deliver, TypeOK, mongoVars, redisVars, outVars
  <1>3. CASE Ack(w) \/ Reject(w)
    <2>1. PICK o \in {"acked", "dead"} : Finish(w, o)
      BY <1>3 DEF Ack, Reject
    <2>2. QED
      BY <2>1, <1>1 DEF Finish, TypeOK, mongoVars, redisVars, outVars
  <1>4. CASE Crash(w)
    <2>1. mishaps' \in [Mishaps -> Nat]
      BY <1>4, MishapType, "crash" \in Mishaps DEF Crash, Mishaps
    <2>2. broker' \in [Messages -> {"unsent", "ready", "held", "acked", "dead"}]
      BY <1>4 DEF Crash, Requeue, TypeOK
    <2>3. QED
      BY <1>4, <2>1, <2>2, <1>1 DEF Crash, TypeOK, mongoVars, redisVars, outVars
  <1>5. CASE ChannelCloses(w)
    <2>1. mishaps' \in [Mishaps -> Nat]
      BY <1>5, MishapType, "channel" \in Mishaps DEF ChannelCloses, Mishaps
    <2>2. broker' \in [Messages -> {"unsent", "ready", "held", "acked", "dead"}]
      BY <1>5 DEF ChannelCloses, Requeue, TypeOK
    <2>3. QED
      BY <1>5, <2>1, <2>2 DEF ChannelCloses, TypeOK, mongoVars, redisVars, workerVars, outVars
  <1>6. QED
    BY <1>2, <1>3, <1>4, <1>5

\* So do the payment and the keys that expire.
LEMMA EnvironmentType ==
  ASSUME TypeOK,
         (\E m \in Messages : PaymentSucceeds(m) \/ ClaimExpires(m)) \/ LockExpires
  PROVE  TypeOK'
  <1>1. CASE \E m \in Messages : PaymentSucceeds(m)
    BY <1>1 DEF PaymentSucceeds, TypeOK, mongoVars, redisVars, workerVars, outVars
  <1>2. CASE \E m \in Messages : ClaimExpires(m)
    <2>1. mishaps' \in [Mishaps -> Nat]
      BY <1>2, MishapType, "claimTtl" \in Mishaps DEF ClaimExpires, Mishaps
    <2>2. QED
      BY <1>2, <2>1 DEF ClaimExpires, TypeOK, mongoVars, workerVars, outVars
  <1>3. CASE LockExpires
    <2>1. mishaps' \in [Mishaps -> Nat]
      BY <1>3, MishapType, "lockTtl" \in Mishaps DEF LockExpires, Mishaps
    <2>2. QED
      BY <1>3, <2>1 DEF LockExpires, TypeOK, mongoVars, workerVars, outVars
  <1>4. QED
    BY <1>1, <1>2, <1>3

\* Every step of the system keeps the types.
LEMMA TypeStep == TypeOK /\ [Next]_vars => TypeOK'
  <1> SUFFICES ASSUME TypeOK, [Next]_vars PROVE TypeOK'
    OBVIOUS
  <1>1. CASE UNCHANGED vars
    BY <1>1 DEF vars, mongoVars, redisVars, workerVars, outVars, TypeOK
  <1>2. CASE \E w \in Workers : Handle(w)
    BY <1>2, ClaimType, AcceptType, DeclineAndPayType, BrokerType DEF Handle
  <1>3. CASE \E w \in Workers : (\E m \in Messages : Deliver(w, m)) \/ Crash(w) \/ ChannelCloses(w)
    BY <1>3, BrokerType
  <1>4. CASE (\E m \in Messages : PaymentSucceeds(m) \/ ClaimExpires(m)) \/ LockExpires
    BY <1>4, EnvironmentType
  <1>5. QED
    BY <1>1, <1>2, <1>3, <1>4 DEF Next

\* Every variable keeps its type, whatever fails.
THEOREM TypeCorrect == Spec => []TypeOK
  BY InitType, TypeStep, PTL DEF Spec

-----------------------------------------------------------------------------
(***************************************************************************)
(* One assignment and one charge.  ChargedOnce is not inductive: that no   *)
(* second payment is asked for rests on there being one handler only that  *)
(* passed MongoDB's condition, on nothing having been announced while it   *)
(* is under way, and on payments arriving only after they were asked for.  *)
(***************************************************************************)

\* Between the update that made the trip accepted and the last publication.
Won == {"getAgain", "publishAssigned", "publishPayment"}

Unannounced == \A d \in Drivers \cup {NoDriver} : assigned[d] = 0
Uncharged == \A d \in Drivers : payments[d] = 0

OneWinner ==
  /\ trip.status = "pending" <=> trip.driver = NoDriver
  /\ \A w \in Workers : pc[w] \in Won => trip.driver = DriverOf[cur[w]]
  /\ \A v, w \in Workers : pc[v] \in Won /\ pc[w] \in Won => v = w

NothingTooEarly ==
  /\ trip.status = "pending" => Unannounced /\ Uncharged
  /\ \A w \in Workers :
       /\ pc[w] \in {"getAgain", "publishAssigned"} => Unannounced
       /\ pc[w] \in Won => Uncharged
       /\ pc[w] = "publishPayment" => ~Unannounced

AtMostOne ==
  /\ \A d \in Drivers : payments[d] > 0 => payments[d] = 1 /\ trip.driver = d
  /\ \A d, e \in Drivers \cup {NoDriver} :
       assigned[d] > 0 /\ assigned[e] > 0 => d = e /\ assigned[d] = 1
  /\ ~Uncharged => ~Unannounced

PaidAfterCharge ==
  /\ \A w \in Workers : pc[w] # "idle" => broker[cur[w]] # "unsent"
  /\ \A w \in Workers : pc[w] = "pay" => KindOf[cur[w]] = "payed"
  /\ \A m \in Messages : KindOf[m] = "payed" /\ broker[m] # "unsent" => ~Uncharged

ChargeInv == OneWinner /\ NothingTooEarly /\ AtMostOne /\ PaidAfterCharge

\* The invariant gives the property.
LEMMA ChargeInvImplies == TypeOK /\ ChargeInv => ChargedOnce
  <1> SUFFICES ASSUME TypeOK, ChargeInv PROVE ChargedOnce
    OBVIOUS
  <1>1. DOMAIN assigned = Drivers \cup {NoDriver}
    BY DEF TypeOK
  <1>2. \A d \in Drivers : payments[d] > 0 => trip.status # "pending"
    BY DEF ChargeInv, NothingTooEarly, Uncharged, TypeOK
  <1>3. (\E d \in Drivers : payments[d] > 0) => \E d \in Drivers \cup {NoDriver} : assigned[d] > 0
    BY DEF ChargeInv, AtMostOne, Uncharged, Unannounced, TypeOK
  <1>4. QED
    BY <1>1, <1>2, <1>3 DEF ChargedOnce, ChargeInv, AtMostOne

\* The invariant holds at first.
LEMMA InitCharge == Init => ChargeInv
  BY DriversAssumption
     DEF Init, ChargeInv, OneWinner, NothingTooEarly, AtMostOne, PaidAfterCharge,
         Unannounced, Uncharged, Won, Pending

\* The steps that leave the document, the outputs and the control of the
\* winners alone.
LEMMA ChargeFrame ==
  ASSUME TypeOK, ChargeInv, UNCHANGED <<trip, assigned, payments>>,
         \A w \in Workers : pc'[w] # "idle" =>
           /\ pc'[w] \in Won \cup {"pay"} => pc[w] = pc'[w] /\ cur'[w] = cur[w]
           /\ broker[cur'[w]] # "unsent" /\ cur'[w] \in Messages,
         \A m \in Messages : broker'[m] = "unsent" <=> broker[m] = "unsent"
  PROVE  ChargeInv'
  <1>1. OneWinner'
    BY DEF ChargeInv, OneWinner, Won
  <1>2. NothingTooEarly'
    BY DEF ChargeInv, NothingTooEarly, Won, Unannounced, Uncharged
  <1>3. AtMostOne'
    BY DEF ChargeInv, AtMostOne, Unannounced, Uncharged
  <1>4. PaidAfterCharge'
    BY DEF ChargeInv, PaidAfterCharge, Uncharged, TypeOK
  <1>5. QED
    BY <1>1, <1>2, <1>3, <1>4 DEF ChargeInv

\* A handler's own step, outside the update, the publications and the
\* payment, that stays out of the winner's section unless it was in it.
LEMMA ChargeHandlerFrame ==
  ASSUME TypeOK, ChargeInv, NEW w \in Workers, pc[w] # "idle",
         UNCHANGED <<trip, assigned, payments, broker, cur>>,
         \A v \in Workers : v # w => pc'[v] = pc[v],
         pc'[w] \notin Won, pc'[w] = "pay" => KindOf[cur[w]] = "payed"
  PROVE  ChargeInv'
  <1>1. OneWinner'
    BY DEF ChargeInv, OneWinner, Won
  <1>2. NothingTooEarly'
    BY DEF ChargeInv, NothingTooEarly, Won, Unannounced, Uncharged
  <1>3. AtMostOne'
    BY DEF ChargeInv, AtMostOne, Unannounced, Uncharged
  <1>4. PaidAfterCharge'
    BY DEF ChargeInv, PaidAfterCharge, Uncharged, TypeOK
  <1>5. QED
    BY <1>1, <1>2, <1>3, <1>4 DEF ChargeInv

\* The steps on the key let nobody past the update.
LEMMA ChargeClaim ==
  ASSUME TypeOK, ChargeInv, NEW w \in Workers, Claim(w) \/ Inspect(w) \/ Mark(w) \/ Release(w)
  PROVE  ChargeInv'
  <1>1. cur[w] \in Messages /\ pc[w] # "idle"
    BY DEF TypeOK, Claim, Inspect, Mark, Release, At
  <1>2. \A v \in Workers : v # w => pc'[v] = pc[v]
    BY BackoffType DEF Claim, Inspect, Mark, Release, Goto, TypeOK
  <1>3. pc'[w] \in {"claim", "reject", "inspect", "ack", FirstStep(cur[w])}
    BY BackoffType DEF Claim, Inspect, Mark, Release, Goto, TypeOK
  <1>4. pc'[w] \notin Won /\ (pc'[w] = "pay" => KindOf[cur[w]] = "payed")
    BY <1>1, <1>3, FirstStepKind DEF Won
  <1>5. UNCHANGED <<trip, assigned, payments, broker, cur>>
    BY DEF Claim, Inspect, Mark, Release, mongoVars, outVars
  <1>6. QED
    BY <1>1, <1>2, <1>4, <1>5, ChargeHandlerFrame

\* Nor do those of a decline, or those around the update.
LEMMA ChargeOther ==
  ASSUME TypeOK, ChargeInv, NEW w \in Workers,
         TryLock(w) \/ Get(w) \/ Unlock(w) \/ GetDeclined(w) \/ PublishRematch(w)
  PROVE  ChargeInv'
  <1>1. pc[w] # "idle"
    BY DEF TryLock, Get, Unlock, GetDeclined, PublishRematch, At
  <1>2. \E l \in Labels \ (Won \cup {"pay"}) : Goto(w, l)
    <2>1. {"get", "mark", "release", "update", "unlock", "publishRematch"} \subseteq Labels \ (Won \cup {"pay"})
      BY DEF Labels, Won
    <2>2. QED
      BY <2>1 DEF TryLock, Get, Unlock, GetDeclined, PublishRematch, Leave
  <1>3. pc'[w] \notin Won \cup {"pay"} /\ \A v \in Workers : v # w => pc'[v] = pc[v]
    BY <1>2 DEF Goto, TypeOK
  <1>4. UNCHANGED <<trip, assigned, payments, broker, cur>>
    BY DEF TryLock, Get, Unlock, GetDeclined, PublishRematch, mongoVars, outVars
  <1>5. QED
    BY <1>1, <1>3, <1>4, ChargeHandlerFrame

\* The update: who finds the trip pending becomes the one winner.
LEMMA ChargeUpdate ==
  ASSUME TypeOK, ChargeInv, NEW w \in Workers, Update(w)
  PROVE  ChargeInv'
  <1> DEFINE accepted == [status |-> "accepted", driver |-> DriverOf[cur[w]]]
  <1>1. cur[w] \in Messages /\ pc[w] = "update"
    BY DEF TypeOK, Update, At
  <1>2. DriverOf[cur[w]] \in Drivers /\ DriverOf[cur[w]] # NoDriver
    BY <1>1, MessagesAssumption, DriversAssumption
  <1>3. UNCHANGED <<assigned, payments, broker, cur>>
    BY DEF Update, outVars
  <1>4. /\ pc'[w] \in {"getAgain", "unlock"}
        /\ \A v \in Workers : v # w => pc'[v] = pc[v]
    BY DEF Update, Goto, Leave, TypeOK
  <1>5. CASE trip' = trip /\ pc'[w] = "unlock"
    BY <1>1, <1>3, <1>4, <1>5, ChargeHandlerFrame DEF Won
  <1>6. CASE trip.status = "pending" /\ trip' = accepted
    <2>1. Unannounced /\ Uncharged
      BY <1>6 DEF ChargeInv, NothingTooEarly
    <2>2. \A v \in Workers : pc[v] \notin Won
      BY <1>6, MessagesAssumption, DriversAssumption DEF ChargeInv, OneWinner, TypeOK, Won
    <2>3. \A v \in Workers : pc'[v] \in Won => v = w /\ pc'[v] = "getAgain"
      BY <2>2, <1>4 DEF Won
    <2>4. OneWinner'
      BY <1>2, <1>3, <1>6, <2>3 DEF OneWinner
    <2>5. NothingTooEarly'
      BY <1>3, <1>6, <2>1, <2>3 DEF NothingTooEarly, Unannounced, Uncharged, Won
    <2>6. AtMostOne'
      BY <1>3, <2>1 DEF AtMostOne, Unannounced, Uncharged
    <2>7. PaidAfterCharge'
      BY <1>1, <1>3, <1>4 DEF ChargeInv, PaidAfterCharge, Uncharged
    <2>8. QED
      BY <2>4, <2>5, <2>6, <2>7 DEF ChargeInv
  <1>7. QED
    BY <1>5, <1>6 DEF Update, Store, Leave, Goto, TypeOK, mongoVars

\* The winner's way to its last publication.
LEMMA ChargeWinner ==
  ASSUME TypeOK, ChargeInv, NEW w \in Workers,
         GetAgain(w) \/ PublishAssigned(w) \/ PublishPayment(w)
  PROVE  ChargeInv'
  <1>1. cur[w] \in Messages /\ pc[w] \in Won
    BY DEF TypeOK, GetAgain, PublishAssigned, PublishPayment, At, Won
  <1>2. DriverOf[cur[w]] \in Drivers
    BY <1>1, MessagesAssumption
  <1>3. UNCHANGED <<trip, broker, cur>>
    BY DEF GetAgain, PublishAssigned, PublishPayment, mongoVars
  <1>4. \A v \in Workers : v # w => pc'[v] = pc[v]
    BY DEF GetAgain, PublishAssigned, PublishPayment, Goto, Leave, TypeOK
  <1>5. trip.status # "pending" /\ trip.driver = DriverOf[cur[w]]
    BY <1>1, <1>2, DriversAssumption DEF ChargeInv, OneWinner
  <1>6. \A v \in Workers : pc'[v] \in Won => v = w
    BY <1>1, <1>4 DEF ChargeInv, OneWinner
  <1>7. Uncharged
    BY <1>1 DEF ChargeInv, NothingTooEarly
  <1>8. pc'[w] \in {"publishAssigned", "publishPayment", "unlock"}
    BY DEF GetAgain, PublishAssigned, PublishPayment, Goto, Leave, TypeOK
  <1>9. OneWinner'
    BY <1>3, <1>5, <1>6 DEF ChargeInv, OneWinner
  <1>10. CASE UNCHANGED <<assigned, payments>> /\ pc'[w] \in {"publishAssigned", "unlock"}
    <2>1. CASE pc'[w] = "unlock"
      BY <1>1, <1>3, <1>4, <1>10, <2>1, ChargeHandlerFrame DEF Won
    <2>2. CASE pc'[w] = "publishAssigned"
      <3>1. pc[w] = "getAgain"
        BY <2>2 DEF GetAgain, PublishAssigned, PublishPayment, Goto, Leave, TypeOK, At
      <3>2. NothingTooEarly'
        BY <1>3, <1>6, <1>10, <2>2, <3>1 DEF ChargeInv, NothingTooEarly, Unannounced, Uncharged, Won
      <3>3. AtMostOne' /\ PaidAfterCharge'
        BY <1>1, <1>3, <1>4, <1>10, <2>2
           DEF ChargeInv, AtMostOne, PaidAfterCharge, Unannounced, Uncharged, Won
      <3>4. QED
        BY <1>9, <3>2, <3>3 DEF ChargeInv
    <2>3. QED
      BY <1>10, <2>1, <2>2
  <1>11. CASE /\ PublishAssigned(w) /\ UNCHANGED payments /\ pc'[w] = "publishPayment"
              /\ assigned' = [assigned EXCEPT ![view[w].driver] = @ + 1]
    <2>1. view[w].driver \in Drivers \cup {NoDriver}
      BY DEF TypeOK, Docs
    <2>2. Unannounced
      BY <1>11 DEF PublishAssigned, At, ChargeInv, NothingTooEarly
    <2>3. \A d \in Drivers \cup {NoDriver} :
            assigned'[d] = IF d = view[w].driver THEN 1 ELSE 0
      BY <1>11, <2>1, <2>2 DEF Unannounced, TypeOK
    <2>4. ~Unannounced' /\ Uncharged'
      BY <1>7, <1>11, <2>1, <2>3 DEF Unannounced, Uncharged
    <2>5. NothingTooEarly'
      BY <1>3, <1>5, <1>6, <1>11, <2>4 DEF NothingTooEarly, Won
    <2>6. AtMostOne'
      BY <1>11, <2>3, <2>4 DEF AtMostOne, Uncharged
    <2>7. PaidAfterCharge'
      BY <1>1, <1>3, <1>4, <1>11 DEF ChargeInv, PaidAfterCharge, Uncharged, Won
    <2>8. QED
      BY <1>9, <2>5, <2>6, <2>7 DEF ChargeInv
  <1>12. CASE /\ PublishPayment(w) /\ UNCHANGED assigned /\ pc'[w] = "unlock"
              /\ payments' = [payments EXCEPT ![DriverOf[cur[w]]] = @ + 1]
    <2>1. ~Unannounced /\ ~Unannounced'
      BY <1>12 DEF PublishPayment, At, ChargeInv, NothingTooEarly, Unannounced
    <2>2. \A d \in Drivers : payments'[d] = IF d = DriverOf[cur[w]] THEN 1 ELSE 0
      BY <1>2, <1>7, <1>12 DEF Uncharged, TypeOK
    <2>3. \A v \in Workers : pc'[v] \notin Won
      BY <1>6, <1>12 DEF Won
    <2>4. NothingTooEarly'
      BY <1>3, <1>5, <2>3 DEF NothingTooEarly, Won
    <2>5. AtMostOne'
      BY <1>3, <1>5, <1>12, <2>1, <2>2 DEF ChargeInv, AtMostOne
    <2>6. ~Uncharged'
      BY <1>2, <2>2 DEF Uncharged
    <2>7. PaidAfterCharge'
      BY <1>1, <1>3, <1>4, <1>12, <2>6 DEF ChargeInv, PaidAfterCharge, Won
    <2>8. QED
      BY <1>9, <2>4, <2>5, <2>7 DEF ChargeInv
  <1>13. QED
    BY <1>10, <1>11, <1>12 DEF GetAgain, PublishAssigned, PublishPayment, Goto, Leave, TypeOK, outVars

\* A payment reaches a trip that a driver was put on and charged for.
LEMMA ChargePay ==
  ASSUME TypeOK, ChargeInv, NEW w \in Workers, Pay(w)
  PROVE  ChargeInv'
  <1>1. cur[w] \in Messages /\ pc[w] = "pay"
    BY DEF TypeOK, Pay, At
  <1>2. UNCHANGED <<assigned, payments, broker, cur>>
    BY DEF Pay, outVars
  <1>3. pc'[w] \in {"mark", "release"} /\ \A v \in Workers : v # w => pc'[v] = pc[v]
    BY DEF Pay, Goto, TypeOK
  <1>4. ~Uncharged /\ trip.status # "pending"
    BY <1>1 DEF ChargeInv, PaidAfterCharge, NothingTooEarly
  <1>5. trip'.driver = trip.driver /\ trip'.status # "pending"
    BY <1>4 DEF Pay, Store, TypeOK, Docs, mongoVars
  <1>6. \A v \in Workers : pc'[v] \in Won => pc[v] = pc'[v]
    BY <1>3 DEF Won
  <1>7. OneWinner'
    BY <1>2, <1>4, <1>5, <1>6 DEF ChargeInv, OneWinner
  <1>8. NothingTooEarly'
    BY <1>2, <1>5, <1>6 DEF ChargeInv, NothingTooEarly, Unannounced, Uncharged, Won
  <1>9. AtMostOne' /\ PaidAfterCharge'
    BY <1>1, <1>2, <1>3, <1>5 DEF ChargeInv, AtMostOne, PaidAfterCharge, Unannounced, Uncharged
  <1>10. QED
    BY <1>7, <1>8, <1>9 DEF ChargeInv

\* The broker, the crashes and the keys that expire.
LEMMA ChargeEnvironment ==
  ASSUME TypeOK, ChargeInv,
         \/ \E w \in Workers :
              (\E m \in Messages : Deliver(w, m)) \/ Ack(w) \/ Reject(w) \/ Crash(w) \/ ChannelCloses(w)
         \/ \E m \in Messages : ClaimExpires(m)
         \/ LockExpires
  PROVE  ChargeInv'
  <1>1. UNCHANGED <<trip, assigned, payments>>
    BY DEF Deliver, Ack, Reject, Finish, Crash, ChannelCloses, ClaimExpires, LockExpires,
           mongoVars, outVars
  <1>2. \A w \in Workers : pc[w] # "idle" => cur[w] \in Messages /\ broker[cur[w]] # "unsent"
    BY DEF TypeOK, ChargeInv, PaidAfterCharge
  <1>3. CASE \E w \in Workers, m \in Messages : Deliver(w, m)
    BY <1>1, <1>2, <1>3, ChargeFrame DEF Deliver, TypeOK, Won
  <1>4. CASE \E w \in Workers : Ack(w) \/ Reject(w)
    <2>1. PICK w \in Workers, o \in {"acked", "dead"} : Finish(w, o) /\ pc[w] # "idle"
      BY <1>4 DEF Ack, Reject, At
    <2>2. \A m \in Messages : broker'[m] = "unsent" <=> broker[m] = "unsent"
      BY <1>2, <2>1 DEF Finish, TypeOK
    <2>3. \A v \in Workers : pc'[v] # "idle" => pc'[v] = pc[v] /\ cur'[v] = cur[v]
      BY <2>1 DEF Finish, TypeOK
    <2>4. QED
      BY <1>1, <1>2, <2>2, <2>3, ChargeFrame
  <1>5. CASE \E w \in Workers : Crash(w) \/ ChannelCloses(w)
    <2>1. PICK w \in Workers : Requeue(w) /\ (Crash(w) \/ ChannelCloses(w))
      BY <1>5 DEF Crash, ChannelCloses
    <2>2. \A m \in Messages : broker'[m] = "unsent" <=> broker[m] = "unsent"
      BY <1>2, <2>1 DEF Requeue, At, TypeOK
    <2>3. \A v \in Workers : pc'[v] # "idle" => pc'[v] = pc[v] /\ cur'[v] = cur[v]
      BY <2>1 DEF Crash, ChannelCloses, workerVars, TypeOK
    <2>4. QED
      BY <1>1, <1>2, <2>2, <2>3, ChargeFrame
  <1>6. CASE (\E m \in Messages : ClaimExpires(m)) \/ LockExpires
    <2>1. UNCHANGED <<broker, pc, cur>>
      BY <1>6 DEF ClaimExpires, LockExpires, workerVars
    <2>2. QED
      BY <1>1, <1>2, <2>1, ChargeFrame
  <1>7. QED
    BY <1>3, <1>4, <1>5, <1>6

\* A payment succeeds only after a charge.
LEMMA ChargePaymentSucceeds ==
  ASSUME TypeOK, ChargeInv, NEW m \in Messages, PaymentSucceeds(m)
  PROVE  ChargeInv'
  <1>1. UNCHANGED <<trip, assigned, payments, pc, cur>> /\ ~Uncharged
    BY DEF PaymentSucceeds, mongoVars, outVars, workerVars, Uncharged, TypeOK
  <1>2. \A k \in Messages : broker[k] # "unsent" => broker'[k] # "unsent"
    BY DEF PaymentSucceeds, TypeOK
  <1>3. OneWinner' /\ NothingTooEarly' /\ AtMostOne'
    BY <1>1 DEF ChargeInv, OneWinner, NothingTooEarly, AtMostOne, Unannounced, Uncharged
  <1>4. PaidAfterCharge'
    BY <1>1, <1>2 DEF ChargeInv, PaidAfterCharge, Uncharged, TypeOK
  <1>5. QED
    BY <1>3, <1>4 DEF ChargeInv

\* Every step keeps the invariant.
LEMMA ChargeStep == TypeOK /\ ChargeInv /\ [Next]_vars => ChargeInv'
  <1> SUFFICES ASSUME TypeOK, ChargeInv, [Next]_vars PROVE ChargeInv'
    OBVIOUS
  <1>1. CASE UNCHANGED vars
    BY <1>1 DEF vars, mongoVars, workerVars, outVars, ChargeInv, OneWinner, NothingTooEarly,
                AtMostOne, PaidAfterCharge, Unannounced, Uncharged
  <1>2. CASE \E w \in Workers : Handle(w)
    BY <1>2, ChargeClaim, ChargeOther, ChargeUpdate, ChargeWinner, ChargePay, ChargeEnvironment
       DEF Handle
  <1>3. CASE \E m \in Messages : PaymentSucceeds(m)
    BY <1>3, ChargePaymentSucceeds
  <1>4. QED
    BY <1>1, <1>2, <1>3, ChargeEnvironment DEF Next

\* So it holds for ever.
LEMMA ChargeInvariant == Spec => [](TypeOK /\ ChargeInv)
  BY InitType, InitCharge, TypeStep, ChargeStep, PTL DEF Spec

\* One driver at most is announced, and one is charged for, whatever locks,
\* claims, caches, processes and channels do.
THEOREM ChargeSafety == Spec => []ChargedOnce
  BY ChargeInvariant, ChargeInvImplies, PTL

-----------------------------------------------------------------------------
(* The status and the driver, and the lifecycle.                           *)

\* The only steps that write the document, and the only one that charges.
LEMMA Writers ==
  ASSUME TypeOK, ChargeInv, [Next]_vars
  PROVE  \/ UNCHANGED <<trip, payments>>
         \/ \E d \in Drivers : /\ trip.status = "pending" /\ UNCHANGED payments
                               /\ trip' = [status |-> "accepted", driver |-> d]
         \/ /\ trip.status # "pending" /\ ~Uncharged /\ UNCHANGED payments
            /\ trip' = [trip EXCEPT !.status = "payed"]
         \/ /\ trip.status # "pending" /\ trip.driver \in Drivers /\ Uncharged /\ UNCHANGED trip
            /\ payments' = [payments EXCEPT ![trip.driver] = @ + 1]
  <1>1. CASE UNCHANGED vars
    BY <1>1 DEF vars, mongoVars, outVars
  <1>2. ASSUME NEW w \in Workers, Handle(w)
        PROVE \/ UNCHANGED <<trip, payments>> \/ Update(w) \/ Pay(w) \/ PublishPayment(w)
    BY <1>2 DEF Handle, Claim, Inspect, Mark, Release, Ack, Reject, Finish, TryLock, Get, GetAgain,
                PublishAssigned, Unlock, GetDeclined, PublishRematch, mongoVars, outVars
  <1>3. ASSUME NEW w \in Workers, Update(w)
        PROVE \/ UNCHANGED <<trip, payments>>
              \/ \E d \in Drivers : /\ trip.status = "pending" /\ UNCHANGED payments
                                    /\ trip' = [status |-> "accepted", driver |-> d]
    <2>1. DriverOf[cur[w]] \in Drivers
      BY <1>3, MessagesAssumption DEF Update, At, TypeOK
    <2>2. QED
      BY <1>3, <2>1 DEF Update, Store, mongoVars, outVars
  <1>4. ASSUME NEW w \in Workers, Pay(w)
        PROVE \/ UNCHANGED <<trip, payments>>
              \/ /\ trip.status # "pending" /\ ~Uncharged /\ UNCHANGED payments
                 /\ trip' = [trip EXCEPT !.status = "payed"]
    <2>1. ~Uncharged /\ trip.status # "pending"
      BY <1>4 DEF Pay, At, TypeOK, ChargeInv, PaidAfterCharge, NothingTooEarly
    <2>2. QED
      BY <1>4, <2>1 DEF Pay, Store, mongoVars, outVars
  <1>5. ASSUME NEW w \in Workers, PublishPayment(w)
        PROVE \/ UNCHANGED <<trip, payments>>
              \/ /\ trip.status # "pending" /\ trip.driver \in Drivers /\ Uncharged /\ UNCHANGED trip
                 /\ payments' = [payments EXCEPT ![trip.driver] = @ + 1]
    <2>1. cur[w] \in Messages /\ pc[w] \in Won
      BY <1>5 DEF PublishPayment, At, TypeOK, Won
    <2>2. trip.driver = DriverOf[cur[w]] /\ trip.driver \in Drivers /\ Uncharged
      BY <2>1, MessagesAssumption DEF ChargeInv, OneWinner, NothingTooEarly
    <2>3. trip.status # "pending"
      BY <2>2, DriversAssumption DEF ChargeInv, OneWinner
    <2>4. QED
      BY <1>5, <2>2, <2>3 DEF PublishPayment, mongoVars
  <1>6. CASE \/ \E w \in Workers : (\E m \in Messages : Deliver(w, m)) \/ Crash(w) \/ ChannelCloses(w)
             \/ \E m \in Messages : PaymentSucceeds(m) \/ ClaimExpires(m)
             \/ LockExpires
    BY <1>6 DEF Deliver, Crash, ChannelCloses, PaymentSucceeds, ClaimExpires, LockExpires,
                mongoVars, outVars
  <1>7. QED
    BY <1>1, <1>2, <1>3, <1>4, <1>5, <1>6 DEF Next

\* Once a driver is on the trip, that driver stays, and the status never
\* goes back.
THEOREM Reassignment == Spec => NeverReassigned
  <1>1. TypeOK /\ ChargeInv /\ [Next]_vars =>
          /\ trip.driver # NoDriver => trip'.driver = trip.driver
          /\ StatusRank[trip'.status] >= StatusRank[trip.status]
    <2> SUFFICES ASSUME TypeOK, ChargeInv, [Next]_vars
                 PROVE  /\ trip.driver # NoDriver => trip'.driver = trip.driver
                        /\ StatusRank[trip'.status] >= StatusRank[trip.status]
      OBVIOUS
    <2>1. trip.status \in {"pending", "accepted", "payed"} /\ trip \in Docs
      BY DEF TypeOK, Docs
    <2>2. trip.status = "pending" <=> trip.driver = NoDriver
      BY DEF ChargeInv, OneWinner
    <2>3. CASE trip' = trip
      BY <2>1, <2>3 DEF StatusRank
    <2>4. CASE trip.status = "pending" /\ \E d \in Drivers : trip' = [status |-> "accepted", driver |-> d]
      BY <2>2, <2>4 DEF StatusRank
    <2>5. CASE trip.status # "pending" /\ trip' = [trip EXCEPT !.status = "payed"]
      <3>1. trip'.status = "payed" /\ trip'.driver = trip.driver
        BY <2>1, <2>5 DEF Docs
      <3>2. QED
        BY <2>1, <3>1 DEF StatusRank
    <2>6. QED
      BY <2>3, <2>4, <2>5, Writers
  <1>2. QED
    BY <1>1, ChargeInvariant, PTL DEF Spec, NeverReassigned

\* The handlers implement the lifecycle: every step of theirs is one of its
\* steps or leaves the trip and its charge alone.
THEOREM Refinement == Spec => RefinesLifecycle
  <1>1. Init => Lifecycle!Init
    BY DEF Init, Lifecycle!Init, Pending, Lifecycle!Pending
  <1>2. TypeOK /\ ChargeInv /\ [Next]_vars => [Lifecycle!Next]_(Lifecycle!vars)
    <2> SUFFICES ASSUME TypeOK, ChargeInv, [Next]_vars
                 PROVE  Lifecycle!Next \/ UNCHANGED <<trip, payments>>
      BY DEF Lifecycle!vars
    <2>1. CASE \E d \in Drivers : /\ trip.status = "pending" /\ UNCHANGED payments
                                  /\ trip' = [status |-> "accepted", driver |-> d]
      BY <2>1 DEF Lifecycle!Next, Lifecycle!Assign
    <2>2. CASE /\ ~Uncharged /\ UNCHANGED payments
               /\ trip' = [trip EXCEPT !.status = "payed"]
      <3>1. \E d \in Drivers : payments[d] = 1
        BY <2>2 DEF Uncharged, ChargeInv, AtMostOne, TypeOK
      <3>2. QED
        BY <2>2, <3>1 DEF Lifecycle!Next, Lifecycle!Settle
    <2>3. CASE /\ trip.status # "pending" /\ trip.driver \in Drivers /\ Uncharged /\ UNCHANGED trip
               /\ payments' = [payments EXCEPT ![trip.driver] = @ + 1]
      <3>1. payments[trip.driver] = 0
        BY <2>3 DEF Uncharged
      <3>2. payments' = [payments EXCEPT ![trip.driver] = 1]
        BY <2>3, <3>1 DEF TypeOK
      <3>3. QED
        BY <2>3, <3>1, <3>2 DEF Lifecycle!Next, Lifecycle!RequestPayment
    <2>4. QED
      BY <2>1, <2>2, <2>3, Writers
  <1>3. QED
    BY <1>1, <1>2, ChargeInvariant, PTL DEF Spec, RefinesLifecycle, Lifecycle!Spec

-----------------------------------------------------------------------------
(***************************************************************************)
(* The lock.  As long as no handler outlives its lock, whoever is in the   *)
(* critical section has its own driver's id in it.                         *)
(***************************************************************************)

LockHeld ==
  mishaps["lockTtl"] = 0 =>
    \A w \in Workers : pc[w] \in Critical => lock = DriverOf[cur[w]]

LockInv == LockHeld /\ LockExclusive

\* Steps that free no lock and let nobody into the critical section.
LEMMA LockFrame ==
  ASSUME TypeOK, LockInv, lock' = lock, mishaps' \in [Mishaps -> Nat],
         mishaps["lockTtl"] <= mishaps'["lockTtl"],
         \A w \in Workers : pc'[w] \in Critical => pc[w] \in Critical /\ cur'[w] = cur[w]
  PROVE  LockInv'
  <1>1. mishaps'["lockTtl"] = 0 => mishaps["lockTtl"] = 0
    BY DEF TypeOK, Mishaps
  <1>2. QED
    BY <1>1 DEF LockInv, LockHeld, LockExclusive

\* A handler's own step.
LEMMA LockHandle ==
  ASSUME TypeOK, LockInv, NEW w \in Workers, Handle(w)
  PROVE  LockInv'
  <1> USE DEF Mishaps
  <1>1. mishaps' \in [Mishaps -> Nat] /\ mishaps["lockTtl"] <= mishaps'["lockTtl"]
    <2>1. CallFails \/ Smooth
      BY DEF Handle, Claim, Inspect, Mark, Release, Ack, Reject, Finish, TryLock, Get, Update, GetAgain,
             PublishAssigned, PublishPayment, Unlock, GetDeclined, PublishRematch, Pay, PublishFails, Smooth
    <2>2. mishaps' \in [Mishaps -> Nat] /\ \A j \in Mishaps : mishaps[j] <= mishaps'[j]
      BY <2>1, CallMishap
    <2>3. mishaps["lockTtl"] <= mishaps'["lockTtl"]
      BY <2>2
    <2>4. mishaps'["lockTtl"] \in Nat /\ mishaps["lockTtl"] \in Nat
      BY <2>2 DEF TypeOK
    <2>5. QED
      BY <2>2, <2>3, <2>4
  <1>2. mishaps'["lockTtl"] = 0 => mishaps["lockTtl"] = 0
    BY <1>1 DEF TypeOK
  <1>3. cur[w] \in Messages /\ DriverOf[cur[w]] \in Drivers /\ DriverOf[cur[w]] # NoDriver
    <2>1. pc[w] # "idle"
      BY DEF Handle, Claim, Inspect, Mark, Release, Ack, Reject, TryLock, Get, Update, GetAgain,
             PublishAssigned, PublishPayment, Unlock, GetDeclined, PublishRematch, Pay, At
    <2>2. cur[w] \in Messages
      BY <2>1 DEF TypeOK
    <2>3. QED
      BY <2>2, MessagesAssumption, DriversAssumption
  <1>4. CASE TryLock(w)
    <2>1. cur' = cur /\ \A v \in Workers : v # w => pc'[v] = pc[v]
      BY <1>4 DEF TryLock, Goto, TypeOK
    <2>2. CASE lock = NoDriver /\ lock' = DriverOf[cur[w]] /\ pc'[w] = "get"
      <3>1. mishaps["lockTtl"] = 0 => \A v \in Workers : pc[v] \notin Critical
        BY <2>2, MessagesAssumption, DriversAssumption DEF LockInv, LockHeld, TypeOK, Critical
      <3>2. QED
        BY <1>2, <2>1, <2>2, <3>1 DEF LockInv, LockHeld, LockExclusive
    <2>3. CASE lock = NoDriver /\ lock' = DriverOf[cur[w]] /\ pc'[w] = "release"
      <3>1. mishaps["lockTtl"] = 0 => \A v \in Workers : pc[v] \notin Critical
        BY <2>3, MessagesAssumption, DriversAssumption DEF LockInv, LockHeld, TypeOK, Critical
      <3>2. mishaps["lockTtl"] = 0 => \A v \in Workers : pc'[v] \notin Critical
        BY <2>1, <2>3, <3>1 DEF Critical
      <3>3. QED
        BY <1>2, <3>2 DEF LockInv, LockHeld, LockExclusive
    <2>4. CASE lock' = lock /\ pc'[w] \in {"mark", "release"}
      BY <1>1, <2>1, <2>4, LockFrame DEF Critical
    <2>5. QED
      BY <1>4, <2>2, <2>3, <2>4 DEF TryLock, Goto, TypeOK
  <1>5. CASE Unlock(w)
    <2>1. pc[w] \in Critical /\ cur' = cur /\ pc'[w] \in {"release", "mark"}
      BY <1>5 DEF Unlock, At, Goto, TypeOK, Critical
    <2>2. \A v \in Workers : v # w => pc'[v] = pc[v]
      BY <1>5 DEF Unlock, Goto, TypeOK
    <2>3. mishaps["lockTtl"] = 0 => \A v \in Workers : pc'[v] \notin Critical
      BY <2>1, <2>2 DEF LockInv, LockExclusive, Critical
    <2>4. QED
      BY <1>2, <2>3 DEF LockInv, LockHeld, LockExclusive
  <1>6. CASE Get(w) \/ Update(w) \/ GetAgain(w) \/ PublishAssigned(w) \/ PublishPayment(w)
    <2>1. pc[w] \in Critical /\ UNCHANGED <<lock, cur>>
      BY <1>6 DEF Get, Update, GetAgain, PublishAssigned, PublishPayment, At, Critical, redisVars
    <2>2. \A v \in Workers : v # w => pc'[v] = pc[v]
      BY <1>6 DEF Get, Update, GetAgain, PublishAssigned, PublishPayment, Leave, Goto, TypeOK
    <2>3. QED
      BY <1>1, <2>1, <2>2, LockFrame
  <1>7. CASE Claim(w) \/ Inspect(w) \/ Mark(w) \/ Release(w)
    <2>1. UNCHANGED <<lock, cur>>
      BY <1>7 DEF Claim, Inspect, Mark, Release, redisVars
    <2>2. pc'[w] \in {"claim", "reject", "inspect", "ack", FirstStep(cur[w])}
      BY <1>7, BackoffType DEF Claim, Inspect, Mark, Release, Goto, TypeOK
    <2>3. \A v \in Workers : v # w => pc'[v] = pc[v]
      BY <1>7, BackoffType DEF Claim, Inspect, Mark, Release, Goto, TypeOK
    <2>4. pc'[w] \notin Critical
      BY <1>3, <2>2, FirstStepKind DEF Critical
    <2>5. QED
      BY <1>1, <2>1, <2>3, <2>4, LockFrame
  <1>8. CASE GetDeclined(w) \/ PublishRematch(w) \/ Pay(w) \/ Ack(w) \/ Reject(w)
    <2>1. lock' = lock
      BY <1>8 DEF GetDeclined, PublishRematch, Pay, Ack, Reject, Finish, redisVars
    <2>2. pc'[w] \in {"publishRematch", "release", "mark", "idle"}
      BY <1>8 DEF GetDeclined, PublishRematch, Pay, Ack, Reject, Finish, Goto, TypeOK
    <2>3. \A v \in Workers : v # w => pc'[v] = pc[v] /\ cur'[v] = cur[v]
      BY <1>8 DEF GetDeclined, PublishRematch, Pay, Ack, Reject, Finish, Goto, TypeOK
    <2>4. QED
      BY <1>1, <2>1, <2>2, <2>3, LockFrame DEF Critical
  <1>9. QED
    BY <1>4, <1>5, <1>6, <1>7, <1>8 DEF Handle

\* Every step keeps the lock with whoever is in the critical section.
LEMMA LockStep == TypeOK /\ LockInv /\ [Next]_vars => LockInv'
  <1> SUFFICES ASSUME TypeOK, LockInv, [Next]_vars PROVE LockInv'
    OBVIOUS
  <1> USE DEF Mishaps
  <1>1. CASE UNCHANGED vars
    BY <1>1 DEF vars, redisVars, workerVars, LockInv, LockHeld, LockExclusive
  <1>2. CASE \E w \in Workers : Handle(w)
    BY <1>2, LockHandle
  <1>3. CASE LockExpires
    <2>1. UNCHANGED <<pc, cur>>
      BY <1>3 DEF LockExpires, workerVars
    <2>2. CASE LockInUse
      <3>1. mishaps'["lockTtl"] # 0
        BY <1>3, <2>2 DEF LockExpires, Mishap, TypeOK
      <3>2. QED
        BY <3>1 DEF LockInv, LockHeld, LockExclusive
    <2>3. CASE ~LockInUse
      <3>1. mishaps' = mishaps
        BY <1>3, <2>3 DEF LockExpires, Smooth
      <3>2. mishaps["lockTtl"] = 0 => \A w \in Workers : pc[w] \notin Critical
        BY <2>3 DEF LockInUse, LockInv, LockHeld
      <3>3. QED
        BY <2>1, <3>1, <3>2 DEF LockInv, LockHeld, LockExclusive
    <2>4. QED
      BY <2>2, <2>3
  <1>4. CASE \/ \E w \in Workers : (\E m \in Messages : Deliver(w, m)) \/ Crash(w) \/ ChannelCloses(w)
             \/ \E m \in Messages : PaymentSucceeds(m) \/ ClaimExpires(m)
    <2>1. lock' = lock
      BY <1>4 DEF Deliver, Crash, ChannelCloses, PaymentSucceeds, ClaimExpires, redisVars
    <2>2. mishaps' \in [Mishaps -> Nat] /\ mishaps["lockTtl"] <= mishaps'["lockTtl"]
      BY <1>4, MishapType DEF Deliver, Crash, ChannelCloses, PaymentSucceeds, ClaimExpires, TypeOK
    <2>3. \A w \in Workers : pc'[w] \in Critical => pc[w] \in Critical /\ cur'[w] = cur[w]
      BY <1>4 DEF Deliver, Crash, ChannelCloses, PaymentSucceeds, ClaimExpires, workerVars, TypeOK, Critical
    <2>4. QED
      BY <2>1, <2>2, <2>3, LockFrame
  <1>5. QED
    BY <1>1, <1>2, <1>3, <1>4 DEF Next

\* While no handler outlives its lock, at most one works on the trip: the
\* lock is released by whoever took it, though it names the driver only.
THEOREM LockSafety == Spec => []LockExclusive
  <1>1. Init => LockInv
    BY DEF Init, LockInv, LockHeld, LockExclusive, Critical
  <1>2. LockInv => LockExclusive
    BY DEF LockInv
  <1>3. QED
    BY <1>1, <1>2, LockStep, TypeCorrect, PTL DEF Spec

-----------------------------------------------------------------------------
(***************************************************************************)
(* The claims.  As long as no key outlives its TTL, a handler with a claim *)
(* has its message's key at "processing", and nobody else has that claim.  *)
(***************************************************************************)

KeysLast == mishaps["claimTtl"] = 0

ClaimedOnce ==
  /\ \A w \in Workers : pc[w] \in Claimed => idem[cur[w]] = "processing"
  /\ \A v, w \in Workers :
       pc[v] \in Claimed /\ pc[w] \in Claimed /\ cur[v] = cur[w] => v = w

DoneOnce ==
  /\ \A m \in Messages : rematched[m] <= 1 /\ (idem[m] = "none" => rematched[m] = 0)
  /\ \A w \in Workers : pc[w] \in Claimed \ {"mark"} => rematched[cur[w]] = 0
  /\ \A w \in Workers : pc[w] = "ack" => idem[cur[w]] = "done"
  /\ \A m \in Messages : broker[m] = "acked" => idem[m] = "done"

ClaimInv == KeysLast => ClaimedOnce /\ DoneOnce

\* The invariant gives both properties.
LEMMA ClaimInvImplies == ClaimInv => ClaimExclusive /\ EffectOnce
  BY DEF ClaimInv, KeysLast, ClaimedOnce, DoneOnce, ClaimExclusive, EffectOnce

\* Steps that write no idempotency key and start no handler.
LEMMA ClaimFrame ==
  ASSUME TypeOK, ClaimInv, KeysLast' => KeysLast, UNCHANGED <<idem, rematched>>,
         \A w \in Workers : pc'[w] \in Claimed =>
           pc[w] \in Claimed /\ cur'[w] = cur[w] /\ (pc[w] = "mark" => pc'[w] = "mark"),
         KeysLast => \A w \in Workers : pc'[w] = "ack" => idem[cur'[w]] = "done",
         KeysLast => \A m \in Messages : broker'[m] = "acked" => idem[m] = "done"
  PROVE  ClaimInv'
  <1>1. ClaimedOnce /\ KeysLast => ClaimedOnce'
    BY DEF ClaimedOnce
  <1>2. ClaimedOnce /\ DoneOnce /\ KeysLast => DoneOnce'
    BY DEF DoneOnce
  <1>3. QED
    BY <1>1, <1>2 DEF ClaimInv

\* Mishaps are only ever added, so keys that last so far lasted before.
LEMMA KeysLasted ==
  ASSUME TypeOK, [Next]_vars
  PROVE  KeysLast' => KeysLast
  <1>1. CASE UNCHANGED vars
    BY <1>1 DEF vars, KeysLast
  <1>2. \A k \in Mishaps : Mishap(k) => (KeysLast' => KeysLast)
    BY MishapType DEF KeysLast, TypeOK, Mishaps
  <1>3. CASE CallFails \/ Smooth
    BY <1>2, <1>3 DEF CallFails, Smooth, KeysLast, Mishaps
  <1>4. CASE \E w \in Workers : Handle(w)
    <2>1. CallFails \/ Smooth
      BY <1>4 DEF Handle, Claim, Inspect, Mark, Release, Ack, Reject, Finish, TryLock, Get, Update,
             GetAgain, PublishAssigned, PublishPayment, Unlock, GetDeclined, PublishRematch, Pay,
             PublishFails, Smooth
    <2>2. QED
      BY <1>3, <2>1
  <1>5. CASE \/ \E w \in Workers : (\E m \in Messages : Deliver(w, m)) \/ Crash(w) \/ ChannelCloses(w)
             \/ \E m \in Messages : PaymentSucceeds(m) \/ ClaimExpires(m)
             \/ LockExpires
    <2>1. UNCHANGED mishaps \/ \E k \in Mishaps : Mishap(k)
      BY <1>5 DEF Deliver, Crash, ChannelCloses, PaymentSucceeds, ClaimExpires, LockExpires,
                  Smooth, Mishaps
    <2>2. QED
      BY <1>2, <2>1 DEF KeysLast
  <1>6. QED
    BY <1>1, <1>4, <1>5 DEF Next

\* The steps that write the key of the handler's own message.
LEMMA ClaimWrites ==
  ASSUME TypeOK, ClaimInv, KeysLast, NEW w \in Workers,
         Claim(w) \/ Inspect(w) \/ Mark(w) \/ Release(w)
  PROVE  ClaimedOnce' /\ DoneOnce'
  <1>1. cur[w] \in Messages
    BY DEF TypeOK, Claim, Inspect, Mark, Release, At
  <1>2. \A v \in Workers : v # w => pc'[v] = pc[v]
    BY BackoffType DEF Claim, Inspect, Mark, Release, Goto, TypeOK
  <1>3. UNCHANGED <<broker, cur, rematched>>
    BY DEF Claim, Inspect, Mark, Release, outVars
  <1>4. ClaimedOnce /\ DoneOnce
    BY DEF ClaimInv
  <1>5. \A m \in Messages : m # cur[w] => idem'[m] = idem[m]
    BY <1>1 DEF Claim, Inspect, Mark, Release, TypeOK, redisVars
  <1>6. CASE pc'[w] = FirstStep(cur[w]) /\ idem[cur[w]] = "none" /\ idem'[cur[w]] = "processing"
    <2>1. \A v \in Workers : pc[v] \in Claimed => cur[v] # cur[w]
      BY <1>4, <1>6 DEF ClaimedOnce
    <2>2. pc'[w] \in {"lock", "getDeclined", "pay", "release"} /\ pc'[w] \in Claimed
      BY <1>1, <1>6, FirstStepKind DEF Claimed, Labels
    <2>3. ClaimedOnce'
      BY <1>2, <1>3, <1>4, <1>5, <1>6, <2>1, <2>2 DEF ClaimedOnce, TypeOK, Claimed
    <2>4. rematched[cur[w]] = 0
      BY <1>1, <1>4, <1>6 DEF DoneOnce
    <2>5. \A m \in Messages : idem[m] = "done" => idem'[m] = "done"
      BY <1>5, <1>6
    <2>6. DoneOnce'
      BY <1>1, <1>2, <1>3, <1>4, <1>5, <1>6, <2>2, <2>4, <2>5 DEF DoneOnce, TypeOK
    <2>7. QED
      BY <2>3, <2>6
  <1>7. CASE /\ pc'[w] \in {"claim", "reject", "inspect", "ack"}
             /\ pc'[w] = "ack" => idem'[cur[w]] = "done"
             /\ \/ idem' = idem
                \/ idem[cur[w]] = "none" /\ idem'[cur[w]] = "processing"
                \/ idem'[cur[w]] = "done" /\ pc[w] \in Claimed
    <2>1. \A v \in Workers : pc'[v] \in Claimed => v # w /\ pc[v] \in Claimed
      BY <1>2, <1>7 DEF Claimed
    <2>2. \A v \in Workers : pc'[v] \in Claimed => idem'[cur[v]] = "processing"
      BY <1>4, <1>5, <1>7, <2>1 DEF ClaimedOnce, TypeOK, Claimed
    <2>3. ClaimedOnce'
      BY <1>2, <1>3, <1>4, <2>1, <2>2 DEF ClaimedOnce
    <2>4. \A m \in Messages : /\ idem[m] = "done" => idem'[m] = "done"
                              /\ idem'[m] = "none" => idem[m] = "none"
      BY <1>5, <1>7
    <2>5. \A v \in Workers : pc'[v] = "ack" => idem'[cur[v]] = "done"
      BY <1>2, <1>4, <1>7, <2>4 DEF DoneOnce, TypeOK
    <2>6. DoneOnce'
      BY <1>2, <1>3, <1>4, <2>1, <2>4, <2>5 DEF DoneOnce
    <2>7. QED
      BY <2>3, <2>6
  <1>8. CASE Release(w)
    <2>1. pc[w] \in Claimed /\ pc[w] # "mark" /\ pc'[w] \in {"claim", "reject"}
      BY <1>8, BackoffType DEF Release, At, Claimed, Labels
    <2>2. idem[cur[w]] = "processing" /\ rematched[cur[w]] = 0
      BY <1>4, <2>1 DEF ClaimedOnce, DoneOnce
    <2>3. \A v \in Workers : pc'[v] \in Claimed => v # w /\ pc[v] \in Claimed /\ cur[v] # cur[w]
      BY <1>2, <1>4, <2>1 DEF ClaimedOnce, Claimed
    <2>4. ClaimedOnce'
      BY <1>2, <1>3, <1>4, <1>5, <2>3 DEF ClaimedOnce, TypeOK, Claimed
    <2>5. \A m \in Messages : idem[m] = "done" => idem'[m] = "done"
      BY <1>5, <2>2
    <2>6. \A m \in Messages : idem'[m] = "none" => rematched[m] = 0
      BY <1>4, <1>5, <2>2 DEF DoneOnce
    <2>7. \A v \in Workers : pc'[v] = "ack" => idem'[cur[v]] = "done"
      BY <1>2, <1>4, <2>1, <2>5 DEF DoneOnce, TypeOK
    <2>8. DoneOnce'
      BY <1>2, <1>3, <1>4, <2>3, <2>5, <2>6, <2>7 DEF DoneOnce
    <2>9. QED
      BY <2>4, <2>8
  <1>9. QED
    <2>1. CASE Claim(w)
      <3>1. CASE idem[cur[w]] = "none" /\ Goto(w, FirstStep(cur[w])) /\ idem' = [idem EXCEPT ![cur[w]] = "processing"]
        BY <1>1, <1>6, <3>1 DEF Goto, TypeOK
      <3>2. CASE Goto(w, "inspect") /\ idem' = idem
        BY <1>7, <3>2 DEF Goto, TypeOK
      <3>3. CASE Backoff(w) /\ (idem' = idem \/ (idem[cur[w]] = "none" /\ idem' = [idem EXCEPT ![cur[w]] = "processing"]))
        BY <1>1, <1>7, <3>3, BackoffType DEF TypeOK
      <3>4. QED
        BY <2>1, <3>1, <3>2, <3>3 DEF Claim
    <2>2. CASE Inspect(w)
      <3>1. idem' = idem
        BY <2>2 DEF Inspect, redisVars
      <3>2. CASE idem[cur[w]] = "done" /\ Goto(w, "ack")
        BY <1>7, <3>1, <3>2 DEF Goto, TypeOK
      <3>3. CASE Backoff(w)
        BY <1>7, <3>1, <3>3, BackoffType
      <3>4. QED
        BY <2>2, <3>2, <3>3 DEF Inspect
    <2>3. CASE Mark(w)
      <3>1. idem[cur[w]] = "processing" /\ pc[w] \in Claimed
        BY <1>4, <2>3 DEF Mark, At, ClaimedOnce, Claimed, Labels
      <3>2. QED
        BY <1>1, <1>7, <2>3, <3>1, BackoffType DEF Mark, At, Goto, TypeOK, Claimed
    <2>4. QED
      BY <1>8, <2>1, <2>2, <2>3

\* A handler that has its claim works on, up to its mark or release.
LEMMA ClaimWork ==
  ASSUME TypeOK, ClaimInv, KeysLast' => KeysLast, NEW w \in Workers,
         TryLock(w) \/ Get(w) \/ Update(w) \/ GetAgain(w) \/ PublishAssigned(w)
           \/ PublishPayment(w) \/ Unlock(w) \/ GetDeclined(w) \/ Pay(w)
  PROVE  ClaimInv'
  <1>1. pc[w] \in Claimed \ {"mark"}
    BY DEF TryLock, Get, Update, GetAgain, PublishAssigned, PublishPayment, Unlock, GetDeclined,
           Pay, At, Claimed, Labels
  <1>2. pc'[w] # "ack" /\ \A v \in Workers : v # w => pc'[v] = pc[v]
    BY DEF TryLock, Get, Update, GetAgain, PublishAssigned, PublishPayment, Unlock, GetDeclined,
           Pay, Leave, Goto, TypeOK
  <1>3. UNCHANGED <<idem, rematched, broker, cur>>
    BY DEF TryLock, Get, Update, GetAgain, PublishAssigned, PublishPayment, Unlock, GetDeclined,
           Pay, redisVars, outVars
  <1>4. KeysLast => DoneOnce
    BY DEF ClaimInv
  <1>5. QED
    BY <1>1, <1>2, <1>3, <1>4, ClaimFrame DEF DoneOnce

\* A decline takes effect under its claim, and once.
LEMMA ClaimRematch ==
  ASSUME TypeOK, ClaimInv, KeysLast, NEW w \in Workers, PublishRematch(w)
  PROVE  ClaimedOnce' /\ DoneOnce'
  <1>1. cur[w] \in Messages /\ pc[w] \in Claimed \ {"mark"}
    BY DEF TypeOK, PublishRematch, At, Claimed, Labels
  <1>2. UNCHANGED <<idem, broker, cur>> /\ pc'[w] \in {"mark", "release"}
    BY DEF PublishRematch, redisVars, Goto, TypeOK
  <1>3. \A v \in Workers : v # w => pc'[v] = pc[v]
    BY DEF PublishRematch, Goto, TypeOK
  <1>4. ClaimedOnce /\ DoneOnce
    BY DEF ClaimInv
  <1>5. idem[cur[w]] = "processing" /\ rematched[cur[w]] = 0
    BY <1>1, <1>4 DEF ClaimedOnce, DoneOnce
  <1>6. ClaimedOnce'
    BY <1>1, <1>2, <1>3, <1>4 DEF ClaimedOnce
  <1>7. \A m \in Messages : m # cur[w] => rematched'[m] = rematched[m]
    BY <1>1 DEF PublishRematch, TypeOK, outVars
  <1>8. rematched'[cur[w]] \in {0, 1} /\ (pc'[w] # "mark" => rematched'[cur[w]] = 0)
    BY <1>1, <1>5 DEF PublishRematch, Goto, TypeOK, outVars
  <1>9. \A v \in Workers : v # w /\ pc[v] \in Claimed => cur[v] # cur[w]
    BY <1>1, <1>4 DEF ClaimedOnce
  <1>10. \A m \in Messages : rematched'[m] <= 1 /\ (idem'[m] = "none" => rematched'[m] = 0)
    BY <1>2, <1>4, <1>5, <1>7, <1>8 DEF DoneOnce
  <1>11. \A v \in Workers : pc'[v] \in Claimed \ {"mark"} => rematched'[cur'[v]] = 0
    <2>1. ASSUME NEW v \in Workers, pc'[v] \in Claimed \ {"mark"}, v # w
          PROVE  rematched'[cur'[v]] = 0
      <3>1. pc[v] \in Claimed \ {"mark"} /\ cur[v] # cur[w] /\ cur[v] \in Messages
        BY <1>3, <1>9, <2>1 DEF TypeOK, Claimed
      <3>2. QED
        BY <1>2, <1>4, <1>7, <3>1 DEF DoneOnce
    <2>2. QED
      BY <1>2, <1>8, <2>1
  <1>12. QED
    BY <1>2, <1>3, <1>4, <1>6, <1>10, <1>11 DEF DoneOnce

\* The broker, the crashes and the keys that expire.
LEMMA ClaimEnvironment ==
  ASSUME TypeOK, ClaimInv, KeysLast' => KeysLast,
         \/ \E w \in Workers :
              (\E m \in Messages : Deliver(w, m)) \/ Ack(w) \/ Reject(w) \/ Crash(w) \/ ChannelCloses(w)
         \/ \E m \in Messages : PaymentSucceeds(m)
         \/ LockExpires
  PROVE  ClaimInv'
  <1>1. UNCHANGED <<idem, rematched>>
    BY DEF Deliver, Ack, Reject, Finish, Crash, ChannelCloses, PaymentSucceeds, LockExpires,
           redisVars, outVars
  <1>2. KeysLast => DoneOnce
    BY DEF ClaimInv
  <1>3. \A w \in Workers :
          \/ pc'[w] = pc[w] /\ cur'[w] = cur[w]
          \/ pc'[w] \in {"idle", "claim"}
    BY DEF Deliver, Ack, Reject, Finish, Crash, ChannelCloses, PaymentSucceeds, LockExpires,
           workerVars, TypeOK
  <1>4. KeysLast => \A m \in Messages : broker'[m] = "acked" => idem[m] = "done"
    <2>1. CASE \E w \in Workers : Ack(w)
      BY <1>2, <2>1 DEF Ack, At, Finish, DoneOnce, TypeOK
    <2>2. CASE \E w \in Workers : Reject(w)
      BY <1>2, <2>2 DEF Reject, Finish, DoneOnce, TypeOK
    <2>3. CASE \E w \in Workers : Crash(w) \/ ChannelCloses(w)
      BY <1>2, <2>3 DEF Crash, ChannelCloses, Requeue, DoneOnce, TypeOK
    <2>4. CASE (\E w \in Workers, m \in Messages : Deliver(w, m))
                 \/ (\E m \in Messages : PaymentSucceeds(m)) \/ LockExpires
      BY <1>2, <2>4 DEF Deliver, PaymentSucceeds, LockExpires, DoneOnce, TypeOK
    <2>5. QED
      BY <2>1, <2>2, <2>3, <2>4
  <1>5. KeysLast => \A w \in Workers : pc'[w] = "ack" => idem[cur'[w]] = "done"
    BY <1>2, <1>3 DEF DoneOnce
  <1>6. \A w \in Workers : pc'[w] \in Claimed =>
           pc[w] \in Claimed /\ cur'[w] = cur[w] /\ (pc[w] = "mark" => pc'[w] = "mark")
    BY <1>3 DEF Claimed
  <1>7. QED
    BY <1>1, <1>4, <1>5, <1>6, ClaimFrame

\* Every step keeps the invariant of the claims.
LEMMA ClaimStep == TypeOK /\ ClaimInv /\ [Next]_vars => ClaimInv'
  <1> SUFFICES ASSUME TypeOK, ClaimInv, [Next]_vars PROVE ClaimInv'
    OBVIOUS
  <1>1. KeysLast' => KeysLast
    BY KeysLasted
  <1>2. CASE UNCHANGED vars
    BY <1>2 DEF vars, redisVars, workerVars, outVars, ClaimInv, KeysLast, ClaimedOnce, DoneOnce
  <1>3. CASE \E m \in Messages : ClaimExpires(m)
    <2>1. ~KeysLast'
      BY <1>3 DEF ClaimExpires, Mishap, KeysLast, TypeOK, Mishaps
    <2>2. QED
      BY <2>1 DEF ClaimInv
  <1>4. ASSUME NEW w \in Workers, Handle(w)
        PROVE ClaimInv'
    <2>1. CASE Claim(w) \/ Inspect(w) \/ Mark(w) \/ Release(w)
      BY <1>1, <2>1, ClaimWrites DEF ClaimInv
    <2>2. CASE PublishRematch(w)
      BY <1>1, <2>2, ClaimRematch DEF ClaimInv
    <2>3. QED
      BY <1>1, <1>4, <2>1, <2>2, ClaimWork, ClaimEnvironment DEF Handle
  <1>5. QED
    BY <1>1, <1>2, <1>3, <1>4, ClaimEnvironment DEF Next

\* While no key outlives its TTL, no message is worked on by two handlers at
\* once, a decline takes effect once at most, and what is acknowledged stays
\* recorded as done, over crashes, redeliveries and closed channels.
THEOREM ClaimSafety == Spec => [](ClaimExclusive /\ EffectOnce)
  <1>1. Init => ClaimInv
    BY DEF Init, ClaimInv, ClaimedOnce, DoneOnce, Claimed
  <1>2. QED
    BY <1>1, ClaimStep, ClaimInvImplies, TypeCorrect, PTL DEF Spec
-----------------------------------------------------------------------------
(***************************************************************************)
(* No accept is lost in silence.  NotSilentlyLost speaks of idle consumers *)
(* only; what leads there is that the first accept to lock the trip never  *)
(* gives its key back: its handler goes on to the update, which ends the   *)
(* wait, or dies and leaves its key at "processing", so that no redelivery *)
(* of it is ever acknowledged.                                             *)
(***************************************************************************)

\* As long as no call fails, no key expires and nobody has the trip.
Undisturbed == mishaps["call"] = 0 /\ KeysLast /\ trip.status = "pending"

\* An accept that took the lock: only its own handler has its key.
Stuck(m) ==
  /\ KindOf[m] = "accept" /\ idem[m] = "processing"
  /\ \A w \in Workers : pc[w] \in Claimed /\ cur[w] = m => pc[w] \in {"get", "update"}

\* Some accept has found the trip locked or has locked it.
LockTried ==
  \/ lock # NoDriver
  \/ \E m \in Accepts : idem[m] = "done"
  \/ \E w \in Workers : pc[w] \in {"mark", "get", "update"} /\ KindOf[cur[w]] = "accept"

Unwon ==
  /\ trip = Pending /\ versions = {Pending}
  /\ \A w \in Workers : pc[w] \in {"lock"} \cup Critical => KindOf[cur[w]] = "accept"
  /\ \A w \in Workers : pc[w] \in Claimed /\ KindOf[cur[w]] = "accept" =>
       pc[w] \in {"lock", "get", "update", "mark"}
  /\ LockTried => \E m \in Messages : Stuck(m)

LostInv == Undisturbed => Unwon

\* When every accept is acknowledged, every key is at "done": none is stuck.
LEMMA LostInvImplies ==
  ASSUME TypeOK, ClaimInv, LostInv, Accepts # {}
  PROVE  NotSilentlyLost
  <1> SUFFICES ASSUME Undisturbed, \A m \in Accepts : Settled(m) /\ broker[m] # "dead"
               PROVE  FALSE
    BY DEF NotSilentlyLost, Undisturbed, KeysLast
  <1>1. \A m \in Accepts : m \in Messages /\ broker[m] = "acked"
    BY DEF Settled, Accepts
  <1>2. \A m \in Accepts : idem[m] = "done"
    BY <1>1 DEF Undisturbed, ClaimInv, DoneOnce
  <1>3. \E m \in Messages : Stuck(m)
    BY <1>2 DEF LostInv, Unwon, LockTried
  <1>4. QED
    BY <1>2, <1>3 DEF Stuck, Accepts

\* What a consumer's step may do other than take the lock.
Harmless(w) ==
  \/ pc'[w] = pc[w] /\ cur'[w] = cur[w]
  \/ pc'[w] \notin Claimed
  \/ KindOf[cur[w]] # "accept" /\ cur'[w] = cur[w] /\ pc'[w] \notin {"lock"} \cup Critical
  \/ /\ KindOf[cur[w]] = "accept" /\ cur'[w] = cur[w]
     /\ \/ pc[w] = "get" /\ pc'[w] = "update"
        \/ pc[w] = "lock" /\ pc'[w] = "mark" /\ lock # NoDriver
        \/ idem[cur[w]] = "none" /\ pc'[w] = "lock"

\* What may become of the key of an accept.
KeyKept(m) ==
  \/ idem'[m] = idem[m]
  \/ idem[m] = "none" /\ idem'[m] = "processing"
  \/ \E w \in Workers : pc[w] = "mark" /\ cur[w] = m

\* Harmless steps lose no accept: who is stuck stays so.
LEMMA UnwonFrame ==
  ASSUME TypeOK, Unwon, UNCHANGED mongoVars, lock' \in {lock, NoDriver},
         \A w \in Workers : Harmless(w), \A m \in Accepts : KeyKept(m)
  PROVE  Unwon'
  <1> USE DEF Claimed, Labels, Critical
  <1>1. (trip = Pending /\ versions = {Pending})'
    BY DEF Unwon, mongoVars
  <1>2. \A w \in Workers : pc'[w] \in {"lock"} \cup Critical => KindOf[cur'[w]] = "accept"
    BY DEF Unwon, Harmless
  <1>3. \A w \in Workers : pc'[w] \in Claimed /\ KindOf[cur'[w]] = "accept" =>
          pc'[w] \in {"lock", "get", "update", "mark"}
    BY DEF Unwon, Harmless
  <1>4. LockTried' => LockTried
    <2>1. ASSUME NEW m \in Accepts, idem'[m] = "done"
          PROVE  LockTried
      BY <2>1 DEF KeyKept, LockTried, Accepts
    <2>2. ASSUME NEW w \in Workers, pc'[w] \in {"mark", "get", "update"}, KindOf[cur'[w]] = "accept"
          PROVE  LockTried
      BY <2>2 DEF Harmless, LockTried
    <2>3. QED
      BY <2>1, <2>2 DEF LockTried
  <1>5. ASSUME NEW m \in Messages, Stuck(m)
        PROVE  Stuck(m)'
    <2>1. m \in Accepts /\ idem'[m] = "processing"
      BY <1>5 DEF Stuck, KeyKept, Accepts
    <2>2. \A w \in Workers : pc'[w] \in Claimed /\ cur'[w] = m => pc'[w] \in {"get", "update"}
      BY <1>5 DEF Stuck, Harmless
    <2>3. QED
      BY <1>5, <2>1, <2>2 DEF Stuck
  <1>6. QED
    BY <1>1, <1>2, <1>3, <1>4, <1>5 DEF Unwon

\* The accept that takes the lock is the one that is stuck from now on.
LEMMA UnwonLock ==
  ASSUME TypeOK, ClaimedOnce, Unwon, NEW w \in Workers,
         At(w, "lock"), lock = NoDriver, Goto(w, "get"), UNCHANGED <<mongoVars, idem, cur>>
  PROVE  Unwon'
  <1> USE DEF Claimed, Labels, Critical
  <1>1. cur[w] \in Messages /\ KindOf[cur[w]] = "accept"
    BY DEF TypeOK, At, Unwon
  <1>2. pc'[w] = "get" /\ \A v \in Workers : v # w => pc'[v] = pc[v]
    BY DEF Goto, TypeOK
  <1>3. idem[cur[w]] = "processing" /\ \A v \in Workers : v # w /\ pc[v] \in Claimed => cur[v] # cur[w]
    BY DEF ClaimedOnce, At
  <1>4. Stuck(cur[w])'
    BY <1>1, <1>2, <1>3 DEF Stuck
  <1>5. QED
    BY <1>1, <1>2, <1>4 DEF Unwon, mongoVars

\* Nothing is undone: what is undisturbed now was before, and no call failed.
LEMMA UndisturbedBefore ==
  ASSUME TypeOK, ChargeInv, [Next]_vars, Undisturbed'
  PROVE  Undisturbed /\ ~CallFails /\ trip' = trip
  <1> USE DEF Mishaps
  <1>1. ~CallFails
    BY DEF Undisturbed, CallFails, Mishap, TypeOK
  <1>2. mishaps["call"] = 0
    <2>1. UNCHANGED mishaps \/ \E k \in Mishaps : Mishap(k)
      BY DEF Next, Handle, Claim, Inspect, Mark, Release, Ack, Reject, Finish, TryLock, Get, Update,
             GetAgain, PublishAssigned, PublishPayment, Unlock, GetDeclined, PublishRematch, Pay,
             PublishFails, Smooth, CallFails, Deliver, Crash, ChannelCloses, PaymentSucceeds,
             ClaimExpires, LockExpires, vars
    <2>2. ASSUME NEW k \in Mishaps, Mishap(k)
          PROVE  mishaps["call"] = 0
      <3>1. mishaps["call"] <= mishaps'["call"] /\ mishaps["call"] \in Nat
        BY <2>2, MishapType DEF TypeOK
      <3>2. QED
        BY <3>1 DEF Undisturbed
    <2>3. QED
      BY <2>1, <2>2 DEF Undisturbed
  <1>3. trip' = trip /\ trip.status = "pending"
    <2>1. trip'.status = "pending" /\ trip \in Docs
      BY DEF Undisturbed, TypeOK
    <2>2. [trip EXCEPT !.status = "payed"].status = "payed"
      BY <2>1 DEF Docs
    <2>3. trip' # [trip EXCEPT !.status = "payed"]
      BY <2>1, <2>2
    <2>4. \A d \in Drivers : trip' # [status |-> "accepted", driver |-> d]
      BY <2>1
    <2>5. trip' = trip
      BY <2>3, <2>4, Writers
    <2>6. QED
      BY <2>1, <2>5
  <1>4. QED
    BY <1>1, <1>2, <1>3, KeysLasted DEF Undisturbed

\* A handler's step, while no call fails and the trip waits.
LEMMA LostHandle ==
  ASSUME TypeOK, ClaimedOnce, Unwon, ~CallFails, trip' = trip, NEW w \in Workers, Handle(w)
  PROVE  Unwon'
  <1> USE DEF Claimed, Labels, Critical
  <1>0. trip.status = "pending" /\ trip'.status = "pending" /\ Readable = {Pending}
    BY DEF Unwon, Pending, Readable
  <1>1. cur[w] \in Messages
    BY DEF Handle, Claim, Inspect, Mark, Release, Ack, Reject, TryLock, Get, Update, GetAgain,
           PublishAssigned, PublishPayment, Unlock, GetDeclined, PublishRematch, Pay, At, TypeOK
  <1>2. ASSUME \A v \in Workers : v # w => pc'[v] = pc[v] /\ cur'[v] = cur[v],
               Harmless(w), UNCHANGED mongoVars, lock' = lock, \A m \in Accepts : KeyKept(m)
        PROVE  Unwon'
    <2>1. \A v \in Workers : Harmless(v)
      BY <1>2 DEF Harmless
    <2>2. QED
      BY <1>2, <2>1, UnwonFrame
  <1>3. CASE Claim(w)
    <2>1. UNCHANGED <<mongoVars, lock, cur>> /\ \A v \in Workers : v # w => pc'[v] = pc[v]
      BY <1>3 DEF Claim, Goto, TypeOK
    <2>2. \/ idem[cur[w]] = "none" /\ pc'[w] = FirstStep(cur[w])
          \/ pc'[w] = "inspect"
      BY <1>3 DEF Claim, Goto, TypeOK
    <2>3. \A m \in Accepts : KeyKept(m)
      BY <1>1, <1>3 DEF Claim, KeyKept, Accepts, TypeOK
    <2>4. KindOf[cur[w]] = "accept" => FirstStep(cur[w]) = "lock"
      BY <1>1, MessagesAssumption DEF FirstStep, Kinds
    <2>5. KindOf[cur[w]] # "accept" => FirstStep(cur[w]) \notin {"lock"} \cup Critical
      BY <1>1, MessagesAssumption DEF FirstStep, Kinds
    <2>6. Harmless(w)
      BY <2>1, <2>2, <2>4, <2>5 DEF Harmless
    <2>7. QED
      BY <1>2, <2>1, <2>3, <2>6
  <1>4. CASE Inspect(w)
    <2>1. UNCHANGED <<mongoVars, lock, cur, idem>>
      BY <1>4 DEF Inspect, redisVars
    <2>2. pc'[w] \notin Claimed /\ \A v \in Workers : v # w => pc'[v] = pc[v]
      BY <1>4, BackoffType DEF Inspect, Goto, TypeOK
    <2>3. QED
      BY <1>2, <2>1, <2>2 DEF Harmless, KeyKept
  <1>5. CASE Mark(w)
    <2>1. UNCHANGED <<mongoVars, lock, cur>>
      BY <1>5 DEF Mark
    <2>2. pc'[w] \notin Claimed /\ \A v \in Workers : v # w => pc'[v] = pc[v]
      BY <1>5 DEF Mark, Goto, TypeOK
    <2>3. \A m \in Accepts : KeyKept(m)
      BY <1>1, <1>5 DEF Mark, At, KeyKept, Accepts, TypeOK
    <2>4. QED
      BY <1>2, <2>1, <2>2, <2>3 DEF Harmless
  <1>6. CASE Release(w)
    <2>1. UNCHANGED <<mongoVars, lock, cur>> /\ KindOf[cur[w]] # "accept"
      BY <1>6 DEF Release, At, Unwon
    <2>2. pc'[w] \notin Claimed /\ \A v \in Workers : v # w => pc'[v] = pc[v]
      BY <1>6, BackoffType DEF Release, TypeOK
    <2>3. \A m \in Accepts : KeyKept(m)
      BY <1>1, <1>6, <2>1 DEF Release, KeyKept, Accepts, TypeOK
    <2>4. QED
      BY <1>2, <2>1, <2>2, <2>3 DEF Harmless
  <1>7. CASE Ack(w) \/ Reject(w)
    <2>1. UNCHANGED <<mongoVars, lock, idem>> /\ pc'[w] \notin Claimed
      BY <1>7 DEF Ack, Reject, Finish, redisVars, TypeOK
    <2>2. \A v \in Workers : v # w => pc'[v] = pc[v] /\ cur'[v] = cur[v]
      BY <1>7 DEF Ack, Reject, Finish, TypeOK
    <2>3. QED
      BY <1>2, <2>1, <2>2 DEF Harmless, KeyKept
  <1>8. CASE TryLock(w)
    <2>1. UNCHANGED <<mongoVars, idem, cur>> /\ KindOf[cur[w]] = "accept"
      BY <1>8 DEF TryLock, At, Unwon
    <2>2. CASE lock = NoDriver /\ Goto(w, "get")
      BY <1>8, <2>1, <2>2, UnwonLock DEF TryLock
    <2>3. CASE lock # NoDriver /\ lock' = lock /\ Goto(w, "mark")
      <3>1. pc[w] = "lock" /\ pc'[w] = "mark" /\ \A v \in Workers : v # w => pc'[v] = pc[v]
        BY <1>8, <2>3 DEF TryLock, At, Goto, TypeOK
      <3>2. Harmless(w)
        BY <2>1, <2>3, <3>1 DEF Harmless
      <3>3. QED
        BY <1>2, <2>1, <2>3, <3>1, <3>2 DEF KeyKept
    <2>4. QED
      BY <1>8, <2>2, <2>3 DEF TryLock
  <1>9. CASE Get(w)
    <2>1. UNCHANGED <<mongoVars, idem, lock, cur>> /\ KindOf[cur[w]] = "accept"
      BY <1>9 DEF Get, At, Unwon, redisVars
    <2>2. pc[w] = "get" /\ Goto(w, "update")
      <3>1. PICK doc \in Readable : IF Open(doc) THEN Goto(w, "update") ELSE Leave(w, FALSE)
        BY <1>9 DEF Get
      <3>2. doc.status = "pending"
        BY <1>0, <3>1 DEF Pending
      <3>3. QED
        BY <1>9, <3>1, <3>2 DEF Get, At
    <2>3. pc'[w] = "update" /\ \A v \in Workers : v # w => pc'[v] = pc[v]
      BY <2>2 DEF Goto, TypeOK
    <2>4. Harmless(w)
      BY <2>1, <2>2, <2>3 DEF Harmless
    <2>5. QED
      BY <1>2, <2>1, <2>3, <2>4 DEF KeyKept
  <1>10. CASE Update(w) \/ Pay(w)
    <2>1. [trip EXCEPT !.status = "payed"].status = "payed"
      BY DEF TypeOK, Docs
    <2>2. CASE Update(w)
      <3>1. trip' = [status |-> "accepted", driver |-> DriverOf[cur[w]]]
        BY <1>0, <2>2 DEF Update, Store
      <3>2. QED
        BY <1>0, <3>1
    <2>3. CASE Pay(w)
      <3>1. trip' = [trip EXCEPT !.status = "payed"]
        BY <2>3 DEF Pay, Store
      <3>2. QED
        BY <1>0, <2>1, <3>1
    <2>4. QED
      BY <1>10, <2>2, <2>3
  <1>11. CASE GetAgain(w) \/ PublishAssigned(w) \/ PublishPayment(w) \/ Unlock(w)
    BY <1>11 DEF GetAgain, PublishAssigned, PublishPayment, Unlock, At, Unwon
  <1>12. CASE GetDeclined(w) \/ PublishRematch(w)
    <2>1. UNCHANGED <<mongoVars, idem, lock, cur>> /\ KindOf[cur[w]] # "accept"
      BY <1>12 DEF GetDeclined, PublishRematch, At, Unwon, redisVars
    <2>2. /\ pc'[w] \in {"publishRematch", "mark", "release"}
          /\ \A v \in Workers : v # w => pc'[v] = pc[v]
      BY <1>12 DEF GetDeclined, PublishRematch, Goto, TypeOK
    <2>3. QED
      BY <1>2, <2>1, <2>2 DEF Harmless, KeyKept
  <1>13. QED
    BY <1>3, <1>4, <1>5, <1>6, <1>7, <1>8, <1>9, <1>10, <1>11, <1>12 DEF Handle

\* Every step keeps it that no accept is lost in silence.
LEMMA LostStep ==
  ASSUME TypeOK, ChargeInv, ClaimInv, LostInv, [Next]_vars
  PROVE  LostInv'
  <1> SUFFICES ASSUME Undisturbed' PROVE Unwon'
    BY DEF LostInv
  <1>1. Undisturbed /\ ~CallFails /\ trip' = trip
    BY UndisturbedBefore
  <1>2. Unwon /\ ClaimedOnce
    BY <1>1 DEF LostInv, ClaimInv, Undisturbed
  <1>3. CASE \E w \in Workers : Handle(w)
    BY <1>1, <1>2, <1>3, LostHandle
  <1>4. CASE \E m \in Messages : ClaimExpires(m)
    BY <1>4 DEF ClaimExpires, Mishap, Undisturbed, KeysLast, TypeOK, Mishaps
  <1>5. CASE \/ \E w \in Workers : (\E m \in Messages : Deliver(w, m)) \/ Crash(w) \/ ChannelCloses(w)
             \/ \E m \in Messages : PaymentSucceeds(m)
             \/ LockExpires
             \/ UNCHANGED vars
    <2>1. UNCHANGED <<mongoVars, idem>> /\ lock' \in {lock, NoDriver}
      BY <1>5 DEF Deliver, Crash, ChannelCloses, PaymentSucceeds, LockExpires, vars, redisVars
    <2>2. \A w \in Workers : \/ pc'[w] = pc[w] /\ cur'[w] = cur[w]
                             \/ pc'[w] \in {"idle", "claim"}
      BY <1>5 DEF Deliver, Crash, ChannelCloses, PaymentSucceeds, LockExpires, vars, workerVars, TypeOK
    <2>3. QED
      BY <1>2, <2>1, <2>2, UnwonFrame DEF Harmless, KeyKept, Claimed
  <1>6. QED
    BY <1>3, <1>4, <1>5 DEF Next

\* Whoever dies holding the trip's lock, the accepts are not all acknowledged
\* while the trip waits: one at least is not settled or is dead-lettered,
\* unless a call failed or a key outlived its TTL.
THEOREM NobodyIsForgotten == ASSUME Accepts # {} PROVE Spec => []NotSilentlyLost
  <1>1. Init => ClaimInv /\ LostInv
    <2>1. Init => ClaimInv
      BY DEF Init, ClaimInv, ClaimedOnce, DoneOnce, Claimed
    <2>2. Init => ~LockTried
      BY DEF Init, LockTried, Accepts
    <2>3. Init => Unwon
      BY <2>2 DEF Init, Unwon, Claimed, Critical
    <2>4. QED
      BY <2>1, <2>3 DEF LostInv
  <1>2. TypeOK /\ ChargeInv /\ ClaimInv /\ LostInv /\ [Next]_vars => ClaimInv' /\ LostInv'
    BY ClaimStep, LostStep
  <1>3. TypeOK /\ ClaimInv /\ LostInv => NotSilentlyLost
    BY LostInvImplies
  <1>4. QED
    BY <1>1, <1>2, <1>3, ChargeInvariant, PTL DEF Spec
=============================================================================
