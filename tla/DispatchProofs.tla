--------------------------- MODULE DispatchProofs ---------------------------
(***************************************************************************)
(* What TLAPS proves of Dispatch, for any number of drivers, consumers,    *)
(* candidates, runs of a handler, declines and mishaps.                    *)
(***************************************************************************)
EXTENDS Dispatch, FiniteSetTheorems, TLAPS

\* A consumer offers the trip to no more drivers than it found, and begins a
\* search, or ends without one, only when it has offered it to nobody.
OfferInv ==
  \A w \in Consumers :
    /\ pc[w] \in {"idle", "search", "tell", "reject"} => published[w] = 0
    /\ pc[w] = "offer" => published[w] + Cardinality(left[w]) <= Fanout

\* Every decline that waits was counted.
DeclineInv == declines <= declined

TypeInv == TypeOK /\ OfferInv /\ DeclineInv

-----------------------------------------------------------------------------
(* Types.                                                                  *)

\* No search has more candidates than the fan-out allows.
LEMMA CandidatesFit ==
  ASSUME online \subseteq Drivers, NEW C \in Candidates
  PROVE  C \subseteq Drivers /\ Cardinality(C) <= Fanout
  <1>1. IsFiniteSet(online) /\ Cardinality(online) \in Nat
    BY BoundsAssumption, FS_Subset, FS_CardinalityType
  <1>2. QED
    BY <1>1, BoundsAssumption DEF Candidates

\* Striking off a candidate leaves one fewer.
LEMMA OneFewer ==
  ASSUME NEW S \in SUBSET Drivers, NEW d \in S
  PROVE  /\ Cardinality(S) \in Nat /\ Cardinality(S \ {d}) = Cardinality(S) - 1
         /\ Cardinality(S) >= 1
  <1>1. IsFiniteSet(S) /\ IsFiniteSet(S \ {d})
    BY BoundsAssumption, FS_Subset
  <1>2. Cardinality(S) \in Nat /\ Cardinality(S \ {d}) \in Nat
    BY <1>1, FS_CardinalityType
  <1>3. Cardinality(S \ {d}) = Cardinality(S) - 1
    BY <1>1, FS_RemoveElement
  <1>4. QED
    BY <1>2, <1>3

\* A run that failed is followed by another, or by the rejection.
LEMMA BackoffMoves ==
  ASSUME TypeOK, NEW w \in Consumers, Backoff(w)
  PROVE  /\ attempt' \in [Consumers -> 1..MaxAttempts]
         /\ \E l \in {"search", "reject"} : pc' = [pc EXCEPT ![w] = l]
  BY BoundsAssumption DEF TypeOK, Backoff, Goto

\* A mishap is counted.
LEMMA MishapTypes ==
  ASSUME TypeOK, Mishap \/ Smooth
  PROVE  mishaps' \in 0..MaxMishaps
  BY BoundsAssumption DEF TypeOK, Mishap, Smooth

\* The types hold at first.
LEMMA TypeInit == Init => TypeInv
  <1> SUFFICES ASSUME Init PROVE TypeInv
    OBVIOUS
  <1>1. 0 \in 0..Fanout /\ 1 \in 1..MaxAttempts /\ 0 \in 0..MaxDeclines /\ 0 \in 0..MaxMishaps
    BY BoundsAssumption
  <1>2. {told, dead, lost, again, toldLate, locked} \subseteq BOOLEAN
    BY DEF Init
  <1>3. QED
    BY <1>1, <1>2 DEF Init, TypeInv, TypeOK, OfferInv, DeclineInv

\* A search keeps the types.
LEMMA SearchTypes ==
  ASSUME TypeInv, NEW w \in Consumers, Search(w)
  PROVE  TypeInv'
  <1>1. mishaps' \in 0..MaxMishaps
    BY MishapTypes DEF Search, TypeInv
  <1>2. ASSUME NEW C \in Candidates, left' = [left EXCEPT ![w] = C],
               Goto(w, IF C = {} THEN "tell" ELSE "offer"), UNCHANGED attempt
        PROVE  TypeInv'
    <2>1. C \subseteq Drivers /\ Cardinality(C) <= Fanout /\ pc[w] = "search"
      BY CandidatesFit DEF TypeInv, TypeOK, Search
    <2>2. published[w] = 0 /\ published \in [Consumers -> 0..Fanout]
      BY <2>1 DEF TypeInv, OfferInv, TypeOK
    <2>3. Cardinality(C) \in Nat
      BY <2>1, BoundsAssumption, FS_Subset, FS_CardinalityType
    <2>4. OfferInv'
      BY <1>2, <2>1, <2>2, <2>3 DEF TypeInv, TypeOK, OfferInv, Goto, Search
    <2>5. TypeOK'
      BY <1>1, <1>2, <2>1 DEF TypeInv, TypeOK, Goto, Search, order, answers, result
    <2>6. QED
      BY <2>4, <2>5 DEF TypeInv, DeclineInv, Search, answers, result
  <1>3. ASSUME Backoff(w), UNCHANGED left PROVE TypeInv'
    <2>1. attempt' \in [Consumers -> 1..MaxAttempts]
          /\ \E l \in {"search", "reject"} : pc' = [pc EXCEPT ![w] = l]
      BY <1>3, BackoffMoves DEF TypeInv
    <2>2. TypeOK'
      BY <1>1, <1>3, <2>1 DEF TypeInv, TypeOK, Search, order, answers, result
    <2>3. OfferInv'
      BY <1>3, <2>1 DEF TypeInv, TypeOK, OfferInv, Search
    <2>4. QED
      BY <2>2, <2>3 DEF TypeInv, DeclineInv, Search, answers, result
  <1>4. QED
    BY <1>2, <1>3 DEF Search

\* So does an offer.
LEMMA OfferTypes ==
  ASSUME TypeInv, NEW w \in Consumers, Offer(w)
  PROVE  TypeInv'
  <1>1. mishaps' \in 0..MaxMishaps
    BY MishapTypes DEF Offer, PublishFails, TypeInv
  <1>2. PICK d \in left[w] :
          /\ left' = [left EXCEPT ![w] = @ \ {d}]
          /\ \/ /\ offers' = [offers EXCEPT ![d] = @ + 1]
                /\ published' = [published EXCEPT ![w] = @ + 1]
             \/ UNCHANGED <<offers, published>>
    BY DEF Offer
  <1>3. left[w] \in SUBSET Drivers /\ d \in Drivers /\ pc[w] = "offer"
    BY <1>2 DEF TypeInv, TypeOK, Offer
  <1>4. /\ Cardinality(left[w]) \in Nat /\ Cardinality(left[w]) >= 1
        /\ Cardinality(left[w] \ {d}) = Cardinality(left[w]) - 1
    BY <1>2, <1>3, OneFewer
  <1>5. /\ published[w] + Cardinality(left[w]) <= Fanout /\ published[w] \in 0..Fanout
        /\ Fanout \in Nat
    BY <1>3, BoundsAssumption DEF TypeInv, OfferInv, TypeOK
  <1>6. left' \in [Consumers -> SUBSET Drivers] /\ offers' \in [Drivers -> Nat]
    BY <1>2, <1>3 DEF TypeInv, TypeOK
  <1>7. published'[w] + Cardinality(left'[w]) <= Fanout /\ published'[w] \in 0..Fanout
    BY <1>2, <1>4, <1>5 DEF TypeInv, TypeOK
  <1>8. published' \in [Consumers -> 0..Fanout]
    BY <1>2, <1>7 DEF TypeInv, TypeOK
  <1>9. TypeOK'
    BY <1>1, <1>6, <1>8 DEF TypeInv, TypeOK, Offer, order, result
  <1>10. OfferInv'
    BY <1>2, <1>3, <1>7 DEF TypeInv, TypeOK, OfferInv, Offer
  <1>11. QED
    BY <1>9, <1>10 DEF TypeInv, DeclineInv, Offer, result

\* So does every other step of a consumer.
LEMMA ConsumerTypes ==
  ASSUME TypeInv, NEW w \in Consumers,
         Deliver(w) \/ TellNone(w) \/ Offered(w) \/ Settle(w) \/ Breaks(w)
  PROVE  TypeInv'
  <1> USE DEF TypeInv, TypeOK
  <1>1. 0 \in 0..Fanout /\ 1 \in 1..MaxAttempts /\ {} \subseteq Drivers
    BY BoundsAssumption
  <1>2. mishaps' \in 0..MaxMishaps
    <2>1. Mishap \/ Smooth
      BY DEF Deliver, TellNone, Offered, Settle, Breaks, ChannelCloses, TellUnheard, OfferUnheard, Detach, Crash,
             PublishFails, Smooth
    <2>2. QED
      BY <2>1, MishapTypes
  <1>3. CASE Deliver(w)
    BY <1>3 DEF Deliver, Goto, OfferInv, DeclineInv, order, answers, result
  <1>4. CASE TellNone(w)
    <2>1. \E l \in {"ack", "search", "reject"} : pc' = [pc EXCEPT ![w] = l]
      BY <1>4, BackoffMoves DEF TellNone, Goto
    <2>2. attempt' \in [Consumers -> 1..MaxAttempts]
      BY <1>4, BackoffMoves DEF TellNone
    <2>3. told' \in BOOLEAN /\ toldLate' \in BOOLEAN
      BY <1>4 DEF TellNone
    <2>4. OfferInv'
      BY <1>4, <2>1 DEF TellNone, OfferInv
    <2>5. QED
      BY <1>2, <1>4, <2>1, <2>2, <2>3, <2>4 DEF TellNone, DeclineInv, order, answers
  <1>5. CASE Offered(w)
    <2>1. \/ \E l \in {"search", "reject"} : pc' = [pc EXCEPT ![w] = l] /\ published[w] = 0
          \/ pc' = [pc EXCEPT ![w] = "ack"]
      BY <1>5, BackoffMoves DEF Offered, Goto, Reached
    <2>2. attempt' \in [Consumers -> 1..MaxAttempts]
      BY <1>5, BackoffMoves DEF Offered
    <2>3. OfferInv'
      BY <1>5, <2>1 DEF Offered, OfferInv
    <2>4. QED
      BY <1>2, <1>5, <2>1, <2>2, <2>3 DEF Offered, DeclineInv, order, answers, result
  <1>6. CASE Settle(w)
    <2>1. dead' \in BOOLEAN
      BY <1>6 DEF Settle
    <2>2. OfferInv'
      BY <1>6 DEF Settle, Goto, OfferInv
    <2>3. QED
      BY <1>1, <1>2, <1>6, <2>1, <2>2 DEF Settle, Goto, DeclineInv, order, answers
  <1>7. CASE ChannelCloses(w)
    <2>1. again' \in BOOLEAN
      BY <1>7 DEF ChannelCloses, Detach, Return
    <2>2. QED
      BY <1>2, <1>7, <2>1 DEF ChannelCloses, Detach, Return, OfferInv, DeclineInv, order, answers
  <1>8. CASE Crash(w)
    <2>1. again' \in BOOLEAN
      BY <1>8 DEF Crash, Return
    <2>2. OfferInv'
      BY <1>8 DEF Crash, Goto, OfferInv
    <2>3. QED
      BY <1>1, <1>2, <1>8, <2>1, <2>2 DEF Crash, Return, Goto, DeclineInv, order, answers
  <1>9. CASE TellUnheard(w)
    <2>1. again' \in BOOLEAN
      BY <1>9 DEF TellUnheard, Detach, Return
    <2>2. OfferInv'
      BY <1>9 DEF TellUnheard, Goto, OfferInv
    <2>3. QED
      BY <1>2, <1>9, <2>1, <2>2 DEF TellUnheard, Detach, Return, Goto, DeclineInv, order, answers
  <1>10. CASE OfferUnheard(w)
    <2>1. again' \in BOOLEAN
      BY <1>10 DEF OfferUnheard, Detach, Return
    <2>2. PICK d \in left[w] : left' = [left EXCEPT ![w] = @ \ {d}]
      BY <1>10 DEF OfferUnheard
    <2>3. /\ Cardinality(left[w]) \in Nat /\ Cardinality(left[w]) >= 1
          /\ Cardinality(left[w] \ {d}) = Cardinality(left[w]) - 1
      BY <2>2, OneFewer
    <2>4. /\ published[w] + Cardinality(left[w]) <= Fanout /\ published[w] \in 0..Fanout
          /\ Fanout \in Nat
      BY <1>10, BoundsAssumption DEF OfferUnheard, OfferInv
    <2>5. published' = [published EXCEPT ![w] = @ + 1] /\ pc' = pc /\ pc[w] = "offer"
      BY <1>10 DEF OfferUnheard
    <2>6. published'[w] + Cardinality(left'[w]) <= Fanout /\ published'[w] \in 0..Fanout
      BY <2>2, <2>3, <2>4, <2>5
    <2>7. published' \in [Consumers -> 0..Fanout] /\ left' \in [Consumers -> SUBSET Drivers]
      BY <2>2, <2>5, <2>6
    <2>8. OfferInv'
      BY <2>2, <2>5, <2>6 DEF OfferInv
    <2>9. QED
      BY <1>2, <1>10, <2>1, <2>7, <2>8 DEF OfferUnheard, Detach, Return, DeclineInv, order, answers
  <1>11. QED
    BY <1>3, <1>4, <1>5, <1>6, <1>7, <1>8, <1>9, <1>10 DEF Breaks

\* So do the rider's, the drivers' and their answers' steps.
LEMMA AnswerTypes ==
  ASSUME TypeInv,
         CreateTrip \/ Decline \/ LockExpires \/ \E d \in Drivers : Move(d) \/ Respond(d) \/ Accept(d)
  PROVE  TypeInv'
  <1> USE DEF TypeInv, TypeOK
  <1>1. mishaps' \in 0..MaxMishaps
    <2>1. Mishap \/ Smooth
      BY DEF CreateTrip, Decline, LockExpires, Move, Respond, Accept, Smooth
    <2>2. QED
      BY <2>1, MishapTypes
  <1>2. CASE CreateTrip
    <2>1. lost' \in BOOLEAN
      BY <1>2 DEF CreateTrip
    <2>2. QED
      BY <1>1, <1>2, <2>1 DEF CreateTrip, rest, consumer, answers, OfferInv, DeclineInv
  <1>3. CASE Decline
    <2>1. declines' \in 0..MaxDeclines /\ declines' <= declined
      <3>1. declines \in 0..MaxDeclines /\ declined \in 0..MaxDeclines /\ MaxDeclines \in Nat
            /\ declines <= declined /\ declines > 0 /\ declines' = declines - 1
        BY <1>3, BoundsAssumption DEF Decline, DeclineInv
      <3>2. QED
        BY <3>1
    <2>2. dead' \in BOOLEAN /\ lost' \in BOOLEAN
      BY <1>3 DEF Decline
    <2>3. events' \in Nat
      BY <1>3 DEF Decline
    <2>4. QED
      BY <1>1, <1>3, <2>1, <2>2, <2>3 DEF Decline, order, consumer, OfferInv, DeclineInv
  <1>4. ASSUME NEW d \in Drivers, Move(d) PROVE TypeInv'
    BY <1>4 DEF Move, others, order, consumer, answers, result, OfferInv, DeclineInv
  <1>5. ASSUME NEW d \in Drivers, Respond(d) PROVE TypeInv'
    <2>1. offers' \in [Drivers -> Nat]
      BY <1>5 DEF Respond
    <2>2. declines' \in 0..MaxDeclines /\ declined' \in 0..MaxDeclines /\ declines' <= declined'
      BY <1>5, BoundsAssumption DEF Respond, DeclineInv
    <2>3. accepts' \subseteq Drivers /\ lost' \in BOOLEAN
      BY <1>5 DEF Respond
    <2>4. QED
      BY <1>1, <1>5, <2>1, <2>2, <2>3 DEF Respond, others, order, consumer, OfferInv, DeclineInv
  <1>6. ASSUME NEW d \in Drivers, Accept(d) PROVE TypeInv'
    <2>1. dead' \in BOOLEAN /\ lost' \in BOOLEAN /\ locked' \in BOOLEAN
      BY <1>6 DEF Accept
    <2>2. trip' \in {"none", "pending", "accepted"}
      BY <1>6 DEF Accept
    <2>3. QED
      BY <1>1, <1>6, <2>1, <2>2 DEF Accept, consumer, OfferInv, DeclineInv
  <1>7. CASE LockExpires
    BY <1>1, <1>7 DEF LockExpires, order, consumer, answers, result, OfferInv, DeclineInv
  <1>8. QED
    BY <1>2, <1>3, <1>4, <1>5, <1>6, <1>7

\* Every step keeps the types.
LEMMA TypeStep == TypeInv /\ [Next]_vars => TypeInv'
  <1> SUFFICES ASSUME TypeInv, [Next]_vars PROVE TypeInv'
    OBVIOUS
  <1>1. CASE UNCHANGED vars
    BY <1>1 DEF vars, order, consumer, answers, result, TypeInv, TypeOK, OfferInv, DeclineInv
  <1>2. QED
    BY <1>1, SearchTypes, OfferTypes, ConsumerTypes, AnswerTypes DEF Next, Work

-----------------------------------------------------------------------------
(* The order is in somebody's hands.                                       *)

\* What carries the order on without a consumer.
Carried ==
  \/ events > 0 \/ Offering \/ accepts # {} \/ declines > 0
  \/ told \/ dead \/ lost

\* A consumer that has the event, and has offered the trip to nobody yet.  A
\* lock is left behind only with a message that is dead or lost.
Searching(w) == holding[w] /\ pc[w] \in {"search", "tell", "offer", "reject"} /\ published[w] = 0

HandsInv ==
  /\ locked => dead \/ lost
  /\ rider = "created" /\ trip = "pending" => Carried \/ \E w \in Consumers : Searching(w)

\* A flag that is up stays up.
LEMMA FlagsStay ==
  ASSUME TypeOK, [Next]_vars
  PROVE  (told => told') /\ (dead => dead') /\ (lost => lost') /\ (again => again') /\ (toldLate => toldLate')
  <1>1. /\ told \in BOOLEAN /\ dead \in BOOLEAN /\ lost \in BOOLEAN
        /\ again \in BOOLEAN /\ toldLate \in BOOLEAN
    BY DEF TypeOK
  <1>2. ASSUME NEW w \in Consumers, Work(w) \/ Breaks(w)
        PROVE  (told => told') /\ (dead => dead') /\ (lost => lost') /\ (again => again') /\ (toldLate => toldLate')
    BY <1>1, <1>2, Zenon DEF Work, Deliver, Search, TellNone, Offer, Offered, Settle, Breaks, ChannelCloses,
             TellUnheard, OfferUnheard, Detach, Crash,
                      Return, result
  <1>3. ASSUME NEW d \in Drivers, Move(d) \/ Respond(d) \/ Accept(d)
        PROVE  (told => told') /\ (dead => dead') /\ (lost => lost') /\ (again => again') /\ (toldLate => toldLate')
    BY <1>1, <1>3 DEF Move, Respond, Accept, result
  <1>4. CASE CreateTrip \/ Decline \/ LockExpires
    BY <1>1, <1>4 DEF CreateTrip, Decline, LockExpires, rest, result
  <1>5. CASE UNCHANGED vars
    BY <1>5 DEF vars, result
  <1>6. QED
    BY <1>2, <1>3, <1>4, <1>5 DEF Next

\* A consumer's step never takes from the order what carries it.
LEMMA ConsumerCarries ==
  ASSUME TypeInv, [Next]_vars, NEW w \in Consumers, Work(w) \/ Breaks(w)
  PROVE  Carried => Carried' \/ Searching(w)'
  <1> USE DEF TypeInv, TypeOK
  <1>1. (told => told') /\ (dead => dead') /\ (lost => lost')
    BY FlagsStay
  <1>2. accepts' = accepts /\ declines' = declines
    BY DEF Work, Deliver, Search, TellNone, Offer, Offered, Settle, Breaks, ChannelCloses,
             TellUnheard, OfferUnheard, Detach, Crash, Return, answers
  <1>3. Offering => Offering'
    <2>1. CASE offers' = offers
      BY <2>1 DEF Offering
    <2>2. ASSUME NEW d \in Drivers, offers' = [offers EXCEPT ![d] = @ + 1] PROVE Offering'
      BY <2>2 DEF Offering
    <2>3. CASE Offer(w)
      BY <2>1, <2>2, <2>3 DEF Offer
    <2>4. QED
      BY <2>1, <2>3 DEF Work, Deliver, Search, TellNone, Offered, Settle, Breaks, ChannelCloses,
             TellUnheard, OfferUnheard, Detach, Crash,
                        Return, answers
  <1>4. events > 0 => events' > 0 \/ Searching(w)'
    <2>1. CASE Deliver(w)
      BY <2>1 DEF Deliver, Goto, Searching, OfferInv
    <2>2. CASE ~Deliver(w)
      BY <2>2 DEF Work, Search, TellNone, Offer, Offered, Settle, Breaks, ChannelCloses,
             TellUnheard, OfferUnheard, Detach, Crash, Return
    <2>3. QED
      BY <2>1, <2>2
  <1>5. QED
    BY <1>1, <1>2, <1>3, <1>4 DEF Carried

\* A consumer that was searching still is, or has handed the order on.
LEMMA SearchingCarries ==
  ASSUME TypeInv, NEW w \in Consumers, Searching(w), Work(w) \/ Breaks(w)
  PROVE  Carried' \/ Searching(w)'
  <1> USE DEF TypeInv, TypeOK, Searching
  <1>1. CASE Deliver(w)
    BY <1>1 DEF Deliver
  <1>2. CASE Search(w)
    BY <1>2, BackoffMoves DEF Search, Goto
  <1>3. CASE TellNone(w)
    BY <1>3, BackoffMoves DEF TellNone, Goto, Carried
  <1>4. CASE Offer(w)
    <2>1. PICK d \in left[w] :
            \/ offers' = [offers EXCEPT ![d] = @ + 1]
            \/ UNCHANGED published
      BY <1>4 DEF Offer
    <2>2. CASE offers' = [offers EXCEPT ![d] = @ + 1]
      <3>1. d \in Drivers /\ offers'[d] > 0
        BY <2>1, <2>2
      <3>2. QED
        BY <3>1 DEF Carried, Offering
    <2>3. QED
      BY <1>4, <2>1, <2>2 DEF Offer
  <1>5. CASE Offered(w)
    BY <1>5, BackoffMoves DEF Offered, Reached, Goto
  <1>6. CASE Settle(w)
    BY <1>6 DEF Settle, Goto, Carried
  <1>7. CASE Breaks(w)
    <2>1. events' = events + 1 /\ events \in Nat
      BY <1>7 DEF Breaks, ChannelCloses, TellUnheard, OfferUnheard, Detach, Crash, Return
    <2>2. QED
      BY <2>1 DEF Carried
  <1>8. QED
    BY <1>1, <1>2, <1>3, <1>4, <1>5, <1>6, <1>7 DEF Work

\* A step of one consumer leaves the others where they are.
LEMMA OthersStay ==
  ASSUME TypeInv, NEW w \in Consumers, Work(w) \/ Breaks(w),
         NEW v \in Consumers, v # w
  PROVE  pc'[v] = pc[v] /\ holding'[v] = holding[v] /\ published'[v] = published[v]
  <1> USE DEF TypeInv, TypeOK
  <1>1. pc'[v] = pc[v]
    BY BackoffMoves DEF Work, Deliver, Search, TellNone, Offer, Offered, Settle, Breaks, ChannelCloses,
             TellUnheard, OfferUnheard, Detach, Crash, Goto
  <1>2. holding'[v] = holding[v]
    BY DEF Work, Deliver, Search, TellNone, Offer, Offered, Settle, Breaks, ChannelCloses,
             TellUnheard, OfferUnheard, Detach, Crash, Return
  <1>3. published'[v] = published[v]
    BY DEF Work, Deliver, Search, TellNone, Offer, Offered, Settle, Breaks, ChannelCloses,
           TellUnheard, OfferUnheard, Detach, Return, Crash
  <1>4. QED
    BY <1>1, <1>2, <1>3

\* Every step leaves the order in somebody's hands.
LEMMA HandsStep == TypeInv /\ HandsInv /\ [Next]_vars => HandsInv'
  <1> SUFFICES ASSUME TypeInv, HandsInv, [Next]_vars
               PROVE  /\ locked' => dead' \/ lost'
                      /\ rider' = "created" /\ trip' = "pending" =>
                           Carried' \/ \E w \in Consumers : Searching(w)'
    BY DEF HandsInv
  <1>1. locked' => dead' \/ lost'
    <2>1. (dead => dead') /\ (lost => lost')
      BY FlagsStay DEF TypeInv
    <2>2. locked' => locked \/ dead' \/ lost'
      <3>1. ASSUME NEW d \in Drivers, Move(d) \/ Respond(d) \/ Accept(d) PROVE locked' => locked \/ dead' \/ lost'
        BY <3>1 DEF Move, Respond, Accept
      <3>2. ASSUME NEW w \in Consumers, Work(w) \/ Breaks(w) PROVE locked' = locked
        BY <3>2 DEF Work, Deliver, Search, TellNone, Offer, Offered, Settle, Breaks, ChannelCloses,
                    TellUnheard, OfferUnheard, Detach, Crash, Return
      <3>3. CASE CreateTrip \/ Decline \/ LockExpires \/ UNCHANGED vars
        BY <3>3 DEF CreateTrip, Decline, LockExpires, rest, vars
      <3>4. QED
        BY <3>1, <3>2, <3>3 DEF Next
    <2>3. QED
      BY <2>1, <2>2 DEF HandsInv
  <1>2. SUFFICES ASSUME rider' = "created", trip' = "pending"
                 PROVE  Carried' \/ \E w \in Consumers : Searching(w)'
    BY <1>1
  <1>3. ASSUME NEW w \in Consumers, Work(w) \/ Breaks(w)
        PROVE  Carried' \/ \E v \in Consumers : Searching(v)'
    <2>1. UNCHANGED order
      BY <1>3 DEF Work, Deliver, Search, TellNone, Offer, Offered, Settle, Breaks, ChannelCloses,
                  TellUnheard, OfferUnheard, Detach, Crash, Return
    <2>2. Carried \/ \E v \in Consumers : Searching(v)
      BY <1>2, <2>1 DEF HandsInv, order
    <2>3. CASE Carried
      BY <1>3, <2>3, ConsumerCarries
    <2>4. ASSUME NEW v \in Consumers, Searching(v), v # w PROVE Searching(v)'
      BY <1>3, <2>4, OthersStay DEF Searching
    <2>5. CASE Searching(w)
      BY <1>3, <2>5, SearchingCarries
    <2>6. QED
      BY <2>2, <2>3, <2>4, <2>5
  <1>4. CASE CreateTrip
    BY <1>2, <1>4 DEF CreateTrip, Carried, TypeInv, TypeOK
  <1>5. CASE Decline
    BY <1>5 DEF Decline, Carried, TypeInv, TypeOK
  <1>6. ASSUME NEW d \in Drivers, Respond(d) PROVE Carried'
    BY <1>6 DEF Respond, Carried, TypeInv, TypeOK
  <1>7. ASSUME NEW d \in Drivers, Accept(d) PROVE Carried'
    <2>1. CASE dead' \/ lost'
      BY <2>1 DEF Carried
    <2>2. CASE /\ locked \/ accepts # {d}
               /\ UNCHANGED <<dead, lost>>
      <3>1. CASE locked
        BY <2>1, <2>2, <3>1 DEF HandsInv
      <3>2. CASE accepts # {d}
        <4>1. d \in accepts /\ accepts' = accepts \ {d}
          BY <1>7 DEF Accept
        <4>2. accepts' # {}
          BY <3>2, <4>1
        <4>3. QED
          BY <4>2 DEF Carried
      <3>3. QED
        BY <2>2, <3>1, <3>2
    <2>3. QED
      BY <1>2, <1>7, <2>1, <2>2 DEF Accept
  <1>8. CASE \/ LockExpires \/ UNCHANGED vars \/ \E d \in Drivers : Move(d)
    <2>1. UNCHANGED <<order, events, consumer, answers, told, dead, lost>>
      BY <1>8 DEF LockExpires, Move, others, result, vars
    <2>2. QED
      BY <1>2, <2>1 DEF order, consumer, answers, HandsInv, Carried, Offering, Searching
  <1>9. QED
    BY <1>3, <1>4, <1>5, <1>6, <1>7, <1>8 DEF Next

-----------------------------------------------------------------------------
(* Nobody is told in vain.                                                 *)

\* As long as no driver has the trip or could yet have it.
Untouched == trip # "accepted" /\ accepts = {} /\ \A d \in Drivers : offers[d] = 0

\* One delivery of one event: the consumer that has it.
Busy(w) == pc[w] # "idle"
Before(w) == pc[w] \in {"search", "tell"} \/ (pc[w] = "offer" /\ published[w] = 0)

OneSearch ==
  /\ declines = 0 /\ events \in 0..1
  /\ \A w \in Consumers : holding[w] <=> Busy(w)
  /\ rider = "idle" => events = 0 /\ Untouched /\ \A w \in Consumers : ~Busy(w)
  /\ events > 0 => Untouched /\ \A w \in Consumers : ~Busy(w)
  /\ \A w, v \in Consumers : Busy(w) /\ Busy(v) => w = v
  /\ \A w \in Consumers : Before(w) => Untouched

VainInv == declined > 0 \/ again \/ (OneSearch /\ ~toldLate)

\* Every step keeps it that nobody was told "nobody" in vain.
LEMMA VainStep == TypeInv /\ VainInv /\ [Next]_vars => VainInv'
  <1> SUFFICES ASSUME TypeInv, VainInv, [Next]_vars, ~(declined' > 0), ~again'
               PROVE  OneSearch' /\ ~toldLate'
    BY DEF VainInv
  <1> USE DEF TypeInv, TypeOK
  <1>1. declined = 0 /\ ~again
    <2>1. ~again
      BY FlagsStay
    <2>2. declined \in Nat /\ (declined' = declined \/ declined' = declined + 1)
      <3>1. ASSUME NEW w \in Consumers, Work(w) \/ Breaks(w) PROVE declined' = declined
        BY <3>1 DEF Work, Deliver, Search, TellNone, Offer, Offered, Settle, Breaks, ChannelCloses,
                    TellUnheard, OfferUnheard, Detach, Crash, Return, result
      <3>2. ASSUME NEW d \in Drivers, Move(d) \/ Respond(d) \/ Accept(d)
            PROVE  declined' = declined \/ declined' = declined + 1
        BY <3>2 DEF Move, Respond, Accept, result
      <3>3. CASE CreateTrip \/ Decline \/ LockExpires \/ UNCHANGED vars
        BY <3>3 DEF CreateTrip, Decline, LockExpires, rest, result, vars
      <3>4. QED
        BY <3>1, <3>2, <3>3 DEF Next
    <2>3. QED
      BY <2>1, <2>2
  <1>2. OneSearch /\ ~toldLate
    BY <1>1 DEF VainInv
  <1>3. ASSUME NEW w \in Consumers, Work(w) \/ Breaks(w)
        PROVE  OneSearch' /\ ~toldLate'
    <2>1. UNCHANGED <<order, accepts, declines>>
      BY <1>3 DEF Work, Deliver, Search, TellNone, Offer, Offered, Settle, Breaks, ChannelCloses,
             TellUnheard, OfferUnheard, Detach, Crash, Return, answers
    <2>2. \A v \in Consumers : v # w =>
            pc'[v] = pc[v] /\ holding'[v] = holding[v] /\ published'[v] = published[v]
      BY <1>3, OthersStay
    <2>3. rider # "idle" \/ Breaks(w)
      BY <1>2, <1>3 DEF OneSearch, Busy, Work, Deliver, Search, TellNone, Offer, Offered, Settle
    <2>4. CASE Deliver(w)
      <3>1. Untouched /\ events = 1 /\ \A v \in Consumers : ~Busy(v)
        BY <1>2, <2>4 DEF Deliver, OneSearch
      <3>2. Untouched' /\ events' = 0 /\ pc'[w] = "search" /\ holding'[w] /\ toldLate' = toldLate
        BY <2>1, <2>4, <3>1 DEF Deliver, Goto, Untouched, answers, order, result
      <3>3. QED
        BY <1>2, <2>1, <2>2, <2>3, <2>4, <3>1, <3>2 DEF OneSearch, Busy, Before, order, Deliver
    <2>5. CASE Breaks(w)
      <3>1. ~holding[w] /\ ~Busy(w)
        BY <1>2, <2>5 DEF Breaks, ChannelCloses, TellUnheard, OfferUnheard, Detach, Crash, Return, OneSearch
      <3>2. ChannelCloses(w) \/ Crash(w)
        BY <2>5, <3>1 DEF Breaks, TellUnheard, OfferUnheard, Busy
      <3>3. /\ events' = events /\ offers' = offers /\ toldLate' = toldLate
            /\ pc'[w] = "idle" /\ ~holding'[w]
        BY <3>1, <3>2 DEF ChannelCloses, Detach, Crash, Return, Goto, Busy, answers
      <3>4. QED
        BY <1>2, <2>1, <2>2, <3>1, <3>3 DEF OneSearch, Busy, Before, Untouched, order
    <2>6. CASE Search(w) \/ TellNone(w) \/ Offer(w) \/ Offered(w) \/ Settle(w)
      <3>1. Busy(w) /\ events = 0 /\ events' = events
        BY <1>2, <2>6 DEF Search, TellNone, Offer, Offered, Settle, OneSearch, Busy
      <3>2. holding'[w] <=> Busy(w)'
        <4>1. CASE Settle(w)
          BY <4>1 DEF Settle, Goto, Busy
        <4>2. CASE Search(w) \/ TellNone(w) \/ Offer(w) \/ Offered(w)
          <5>1. holding' = holding /\ holding[w] /\ pc'[w] # "idle"
            BY <1>2, <3>1, <4>2, BackoffMoves
               DEF Search, TellNone, Offer, Offered, Goto, OneSearch, Busy
          <5>2. QED
            BY <5>1 DEF Busy
        <4>3. QED
          BY <2>6, <4>1, <4>2
      <3>3. Before(w)' => Before(w) /\ UNCHANGED offers
        <4>1. CASE Search(w)
          BY <4>1 DEF Search, Before, answers
        <4>2. CASE TellNone(w)
          BY <4>2 DEF TellNone, Before, answers
        <4>3. CASE Offer(w)
          BY <4>3 DEF Offer, Before
        <4>4. CASE Offered(w)
          BY <4>4, BackoffMoves DEF Offered, Before, Reached, Goto, answers
        <4>5. CASE Settle(w)
          BY <4>5 DEF Settle, Goto, Before
        <4>6. QED
          BY <2>6, <4>1, <4>2, <4>3, <4>4, <4>5
      <3>4. ~toldLate'
        BY <1>2, <2>6 DEF Search, TellNone, Offer, Offered, Settle, OneSearch, Before, Untouched, result
      <3>5. QED
        BY <1>2, <2>1, <2>2, <2>3, <3>1, <3>2, <3>3, <3>4 DEF OneSearch, Busy, Before, Untouched, order
    <2>7. QED
      BY <1>3, <2>4, <2>5, <2>6 DEF Work
  <1>4. CASE CreateTrip
    <2>1. Untouched' /\ events' \in 0..1 /\ rider' # "idle" /\ UNCHANGED <<consumer, declines, toldLate>>
      BY <1>2, <1>4 DEF CreateTrip, OneSearch, Untouched, rest, answers
    <2>2. QED
      BY <1>2, <1>4, <2>1 DEF OneSearch, Busy, Before, CreateTrip, consumer
  <1>5. CASE Decline
    BY <1>2, <1>5 DEF Decline, OneSearch
  <1>6. ASSUME NEW d \in Drivers, Move(d) PROVE OneSearch' /\ ~toldLate'
    BY <1>2, <1>6 DEF Move, others, order, consumer, answers, result, OneSearch, Busy, Before, Untouched
  <1>7. ASSUME NEW d \in Drivers, Respond(d) \/ Accept(d) PROVE OneSearch' /\ ~toldLate'
    <2>1. ~Untouched /\ UNCHANGED <<rider, events, consumer, toldLate>>
      <3>1. CASE Respond(d)
        BY <3>1 DEF Respond, Untouched, others, order
      <3>2. CASE Accept(d)
        <4>1. d \in accepts /\ UNCHANGED <<rider, events, consumer, toldLate>>
          BY <3>2 DEF Accept
        <4>2. QED
          BY <4>1 DEF Untouched
      <3>3. QED
        BY <1>7, <3>1, <3>2
    <2>2. declines' = declines
      <3>1. CASE Respond(d)
        BY <1>1, <3>1 DEF Respond
      <3>2. CASE Accept(d)
        BY <3>2 DEF Accept
      <3>3. QED
        BY <1>7, <3>1, <3>2
    <2>3. QED
      BY <1>2, <2>1, <2>2 DEF OneSearch, Busy, Before, consumer
  <1>8. CASE LockExpires \/ UNCHANGED vars
    BY <1>2, <1>8 DEF LockExpires, vars, order, consumer, answers, result, OneSearch, Busy, Before, Untouched
  <1>9. QED
    BY <1>3, <1>4, <1>5, <1>6, <1>7, <1>8 DEF Next

-----------------------------------------------------------------------------

\* The inductive invariant: who holds the order, what a lock that was left
\* behind has cost already, and, as long as nothing was declined or delivered
\* twice, that one consumer is at work.
THEOREM DispatchInvariance == Spec => [](TypeInv /\ HandsInv /\ VainInv)
  <1>1. Init => HandsInv /\ VainInv
    BY DEF Init, HandsInv, VainInv, OneSearch, Untouched, Busy, Before
  <1>2. QED
    BY <1>1, TypeInit, TypeStep, HandsStep, VainStep, PTL DEF Spec

\* Every variable keeps its type: the runs of a handler and the offers of
\* one event stay within maxRetries and maxFanoutCandidates.
THEOREM DispatchTypeCorrect == Spec => []TypeOK
  BY DispatchInvariance, PTL DEF TypeInv

\* A confirmed order is never out of everybody's hands, unless one of its
\* messages is dead or lost: also when accepts are acknowledged without effect
\* because the lock is taken, or was left behind.
THEOREM OrderIsKept == Spec => []InSomebodysHands
  <1>1. HandsInv => InSomebodysHands
    BY DEF HandsInv, InSomebodysHands, Carried, Searching
  <1>2. QED
    BY <1>1, DispatchInvariance, PTL

\* A rider who has a driver is told there is none only after a decline or a
\* second delivery.
THEOREM NobodyMeansNobody == Spec => []NoneMeansNobody
  <1>1. VainInv => NoneMeansNobody
    BY DEF VainInv, NoneMeansNobody
  <1>2. QED
    BY <1>1, DispatchInvariance, PTL
=============================================================================
