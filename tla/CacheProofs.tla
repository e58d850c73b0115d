---------------------------- MODULE CacheProofs ----------------------------
(***************************************************************************)
(* What TLAPS proves of TripCache and of AcceptThroughCache, for any       *)
(* number of replicas and callers, and any number of failed calls.         *)
(*                                                                         *)
(* The accept handler takes the steps of TripCache, and one of its own: it *)
(* waits until the local caches have expired.  The invariants of the       *)
(* caches are proved for both at once.                                     *)
(***************************************************************************)
EXTENDS AcceptThroughCache, TLAPS

Answered == Versions \cup {Nothing}

\* Where the leader of a flight may be.
Leading == {"check", "read", "feed", "storeL2", "storeL1"}

\* A step of the caches, whoever calls.
CacheStep == Next

StoreTypes ==
  /\ doc \in Answered /\ l2 \in Answered /\ bloom \subseteq Positions
  /\ l1 \in [Replicas -> Answered] /\ buffer \in [Replicas -> Seq(Answered)]

CallTypes ==
  /\ pc \in [Callers -> Labels]
  /\ got \in [Callers -> Answered]
  /\ outcome \in [Callers -> {"none", "found", "notFound", "failed"}]
  /\ \A c \in Callers : calls[c] \in 0..MaxCalls[c]
  /\ fails \in 0..MaxFails
  /\ tainted \in BOOLEAN /\ unindexed \in BOOLEAN

\* A replica's flight is led by one of its own callers, who is at work, and
\* nobody waits without one.
FlightInv ==
  /\ flight \in [Replicas -> Callers \cup {NoCaller}]
  /\ \A r \in Replicas : flight[r] # NoCaller => pc[flight[r]] \in Leading /\ HomeOf[flight[r]] = r
  /\ \A c \in Callers : pc[c] \in Leading => flight[HomeOf[c]] = c
  /\ \A c \in Callers : pc[c] = "wait" => flight[HomeOf[c]] # NoCaller

Typed == StoreTypes /\ CallTypes /\ FlightInv

-----------------------------------------------------------------------------
(* The calls.                                                              *)

\* A caller who neither begins nor ends a flight, and does not wait.
LEMMA FlightSolo ==
  ASSUME FlightInv, CallTypes, NEW c \in Callers, NEW l \in Labels,
         pc' = [pc EXCEPT ![c] = l], UNCHANGED flight,
         l # "wait", l \in Leading <=> pc[c] \in Leading
  PROVE  FlightInv'
  BY CacheAssumption DEF FlightInv, CallTypes

\* A flight that lands wakes all who wait for it, and leaves no leader.
LEMMA FlightLands ==
  ASSUME FlightInv, CallTypes, NEW c \in Callers, NEW how, NEW v,
         pc[c] \in Leading, Land(c, how, v)
  PROVE  FlightInv'
  <1>1. HomeOf[c] \in Replicas /\ flight[HomeOf[c]] = c
    BY CacheAssumption DEF FlightInv
  <1>2. \A r \in Replicas : r # HomeOf[c] => flight'[r] = flight[r]
    BY DEF Land, FlightInv
  <1>3. flight'[HomeOf[c]] = NoCaller /\ flight' \in [Replicas -> Callers \cup {NoCaller}]
    BY <1>1 DEF Land, FlightInv
  <1>4. \A d \in Callers : pc'[d] = IF d \in Woken(c) THEN "idle" ELSE pc[d]
    BY DEF Land
  <1>5. \A d \in Callers : pc[d] \in Leading /\ d # c => d \notin Woken(c)
    BY DEF Woken, At, Leading
  <1>6. \A d \in Callers : pc'[d] \in Leading => d # c /\ pc[d] \in Leading
    BY <1>4 DEF Woken, Leading
  <1>7. \A d \in Callers : pc'[d] = "wait" => pc[d] = "wait" /\ HomeOf[d] # HomeOf[c]
    BY <1>4 DEF Woken, At
  <1>8. \A d \in Callers : HomeOf[d] \in Replicas
    BY CacheAssumption
  <1>9. \A r \in Replicas : flight'[r] # NoCaller =>
          pc'[flight'[r]] \in Leading /\ HomeOf[flight'[r]] = r
    BY <1>1, <1>2, <1>3, <1>4, <1>5, <1>8 DEF FlightInv
  <1>10. \A d \in Callers : pc'[d] \in Leading => flight'[HomeOf[d]] = d
    BY <1>1, <1>2, <1>6, <1>8, CacheAssumption DEF FlightInv
  <1>11. \A d \in Callers : pc'[d] = "wait" => flight'[HomeOf[d]] # NoCaller
    BY <1>2, <1>7, <1>8 DEF FlightInv
  <1>12. QED
    BY <1>3, <1>9, <1>10, <1>11 DEF FlightInv

\* Whoever joins leads a flight or finds one that has a leader.
LEMMA FlightJoins ==
  ASSUME FlightInv, CallTypes, NEW c \in Callers, Join(c)
  PROVE  FlightInv'
  <1>1. HomeOf[c] \in Replicas /\ NoCaller \notin Callers /\ pc[c] = "join"
    BY CacheAssumption DEF Join, At
  <1>2. CASE flight[HomeOf[c]] = NoCaller
    <2>1. pc' = [pc EXCEPT ![c] = "check"] /\ flight' = [flight EXCEPT ![HomeOf[c]] = c]
      BY <1>2 DEF Join, Goto
    <2>2. QED
      BY <1>1, <1>2, <2>1, CacheAssumption DEF FlightInv, CallTypes, Leading
  <1>3. CASE flight[HomeOf[c]] # NoCaller
    <2>1. pc' = [pc EXCEPT ![c] = "wait"] /\ flight' = flight
      BY <1>3 DEF Join, Goto
    <2>2. QED
      BY <1>1, <1>3, <2>1, CacheAssumption DEF FlightInv, CallTypes, Leading
  <1>4. QED
    BY <1>2, <1>3

\* The actions of a call, by what they do to the flight.
Landing(c) == Check(c) \/ Read(c) \/ StoreL1(c)
Walking(c) ==
  \/ BeginGet(c) \/ BeginAccept(c) \/ BeginPay(c) \/ BeginCreate(c)
  \/ AskBloom(c) \/ ReadL2(c) \/ FillL1(c) \/ Feed(c) \/ StoreL2(c)
  \/ Write(c) \/ DropL2(c) \/ DropL1(c) \/ Index(c)

\* A caller walks on alone, joins a flight, or lands one.
LEMMA CallerSteps ==
  ASSUME NEW c \in Callers,
         BeginGet(c) \/ BeginAccept(c) \/ BeginPay(c) \/ BeginCreate(c) \/ Proceed(c)
  PROVE  Walking(c) \/ Join(c) \/ Landing(c)
  BY DEF Proceed, Walking, Landing

\* Failed calls are counted, and no more than MaxFails of them.
LEMMA FailTypes ==
  ASSUME CallTypes, CallFails \/ Smooth
  PROVE  fails' \in 0..MaxFails
  BY CacheAssumption DEF CallTypes, CallFails, Smooth

\* No caller begins more calls than it may.
LEMMA BeginTypes ==
  ASSUME CallTypes, NEW c \in Callers, Begin(c)
  PROVE  \A d \in Callers : calls'[d] \in 0..MaxCalls[d]
  BY CacheAssumption DEF CallTypes, Begin

\* Where a step of a walking caller leads.
LEMMA WalkingMoves ==
  ASSUME CallTypes, NEW c \in Callers, Walking(c)
  PROVE  /\ UNCHANGED flight
         /\ \E l \in Labels : /\ pc' = [pc EXCEPT ![c] = l] /\ l # "wait"
                              /\ l \in Leading <=> pc[c] \in Leading
  <1> USE DEF At, Goto, Return, Begin, BeginUpdate, Labels, Leading
  <1>1. CASE BeginGet(c) \/ BeginAccept(c) \/ BeginPay(c) \/ BeginCreate(c)
    BY <1>1 DEF BeginGet, BeginAccept, BeginPay, BeginCreate
  <1>2. CASE AskBloom(c) \/ ReadL2(c) \/ FillL1(c)
    BY <1>2 DEF AskBloom, ReadL2, FillL1
  <1>3. CASE Feed(c) \/ StoreL2(c)
    BY <1>3 DEF Feed, StoreL2
  <1>4. CASE Write(c) \/ DropL2(c) \/ DropL1(c) \/ Index(c)
    BY <1>4 DEF Write, DropL2, DropL1, Index
  <1>5. QED
    BY <1>1, <1>2, <1>3, <1>4 DEF Walking

\* What it makes of the version in hand, of the outcome and of the counts.
LEMMA WalkingTypes ==
  ASSUME Typed, NEW c \in Callers, Walking(c)
  PROVE  CallTypes'
  <1> USE DEF Goto, Return, Carry
  <1>1. pc' \in [Callers -> Labels]
    BY WalkingMoves DEF Typed, CallTypes
  <1>2. doc \in Answered /\ l2 \in Answered /\ Local(c) \in Answered /\ Pending \in Answered
        /\ Nothing \in Answered
    BY CacheAssumption DEF Typed, StoreTypes, Local, Answered, Versions
  <1>3. got' \in [Callers -> Answered]
    BY <1>2 DEF Typed, CallTypes, Walking, BeginGet, BeginAccept, BeginPay, BeginUpdate, BeginCreate,
                AskBloom, ReadL2, FillL1, Feed, StoreL2, Write, DropL2, DropL1, Index
  <1>4. outcome' \in [Callers -> {"none", "found", "notFound", "failed"}]
    BY DEF Typed, CallTypes, Walking, BeginGet, BeginAccept, BeginPay, BeginUpdate, BeginCreate,
           AskBloom, ReadL2, FillL1, Feed, StoreL2, Write, DropL2, DropL1, Index
  <1>5. \A d \in Callers : calls'[d] \in 0..MaxCalls[d]
    <2>1. Begin(c) \/ calls' = calls
      BY DEF Walking, BeginGet, BeginAccept, BeginPay, BeginUpdate, BeginCreate,
             AskBloom, ReadL2, FillL1, Feed, StoreL2, Write, DropL2, DropL1, Index
    <2>2. QED
      BY <2>1, BeginTypes DEF Typed, CallTypes
  <1>6. fails' \in 0..MaxFails
    <2>1. CallFails \/ Smooth
      BY DEF Walking, BeginGet, BeginAccept, BeginPay, BeginUpdate, BeginCreate, Smooth, BloomAdd,
             AskBloom, ReadL2, FillL1, Feed, StoreL2, Write, DropL2, DropL1, Index
    <2>2. QED
      BY <2>1, FailTypes DEF Typed
  <1>7. tainted' \in BOOLEAN /\ unindexed' \in BOOLEAN
    BY DEF Typed, CallTypes, Walking, BeginGet, BeginAccept, BeginPay, BeginUpdate, BeginCreate,
           AskBloom, ReadL2, FillL1, Feed, StoreL2, Write, DropL2, DropL1, Index, history
  <1>8. QED
    BY <1>1, <1>3, <1>4, <1>5, <1>6, <1>7 DEF CallTypes

\* Joining and landing keep the types of the calls.
LEMMA JoinAndLandTypes ==
  ASSUME Typed, NEW c \in Callers, Join(c) \/ Landing(c)
  PROVE  CallTypes'
  <1>1. doc \in Answered /\ l2 \in Answered /\ got[c] \in Answered /\ Nothing \in Answered
    BY DEF Typed, StoreTypes, CallTypes, Answered
  <1>2. pc' \in [Callers -> Labels]
    BY DEF Typed, CallTypes, Join, Landing, Check, Read, StoreL1, Land, Goto, Labels
  <1>3. got' \in [Callers -> Answered]
    BY <1>1 DEF Typed, CallTypes, Join, Landing, Check, Read, StoreL1, Land, Carry
  <1>4. outcome' \in [Callers -> {"none", "found", "notFound", "failed"}]
    BY DEF Typed, CallTypes, Join, Landing, Check, Read, StoreL1, Land
  <1>5. UNCHANGED <<calls, history>>
    BY DEF Join, Landing, Check, Read, StoreL1
  <1>6. fails' \in 0..MaxFails
    <2>1. CallFails \/ Smooth
      BY DEF Join, Landing, Check, Read, StoreL1, Smooth
    <2>2. QED
      BY <2>1, FailTypes DEF Typed
  <1>7. QED
    BY <1>2, <1>3, <1>4, <1>5, <1>6 DEF Typed, CallTypes, history

-----------------------------------------------------------------------------
(* The stores.                                                             *)

\* A Set and a Del keep the types of the local cache and its buffer.
LEMMA LocalTypes ==
  ASSUME StoreTypes, NEW c \in Callers, NEW v \in Answered, SetLocal(c, v) \/ DelLocal(c)
  PROVE  l1' \in [Replicas -> Answered] /\ buffer' \in [Replicas -> Seq(Answered)]
  <1>1. HomeOf[c] \in Replicas /\ Nothing \in Answered
    BY CacheAssumption DEF Answered
  <1>2. \A w \in Answered : Append(buffer[HomeOf[c]], w) \in Seq(Answered)
    BY <1>1 DEF StoreTypes
  <1>3. l1' \in [Replicas -> Answered]
    BY <1>1 DEF StoreTypes, SetLocal, DelLocal
  <1>4. buffer' = buffer \/ \E w \in Answered : buffer' = [buffer EXCEPT ![HomeOf[c]] = Append(@, w)]
    BY <1>1 DEF SetLocal, DelLocal, Buffer
  <1>5. QED
    BY <1>2, <1>3, <1>4 DEF StoreTypes

\* Every step keeps the types of the stores.
LEMMA StoreTypesStep ==
  ASSUME Typed, [CacheStep]_cacheVars
  PROVE  StoreTypes'
  <1> USE DEF Answered, Versions, Pending, Accepted, Paid
  <1>1. CASE UNCHANGED storeVars
    BY <1>1 DEF storeVars, Typed, StoreTypes
  <1>2. ASSUME NEW c \in Callers, FillL1(c) \/ StoreL1(c) \/ DropL1(c)
        PROVE  StoreTypes'
    <2>1. got[c] \in Answered /\ UNCHANGED <<doc, bloom, l2>>
      BY <1>2 DEF Typed, CallTypes, FillL1, StoreL1, DropL1
    <2>2. QED
      BY <1>2, <2>1, LocalTypes DEF Typed, StoreTypes, FillL1, StoreL1, DropL1
  <1>3. ASSUME NEW c \in Callers, Feed(c) \/ Index(c)
        PROVE  StoreTypes'
    BY <1>3 DEF Feed, Index, BloomAdd, Typed, StoreTypes
  <1>4. ASSUME NEW c \in Callers, BeginCreate(c) \/ StoreL2(c) \/ Write(c) \/ DropL2(c)
        PROVE  StoreTypes'
    BY <1>4 DEF BeginCreate, StoreL2, Write, DropL2, Target, Typed, StoreTypes, CallTypes
  <1>5. CASE AddOther \/ ExpireL2
    BY <1>5 DEF AddOther, ExpireL2, Typed, StoreTypes
  <1>6. ASSUME NEW r \in Replicas, Apply(r) \/ ExpireL1(r)
        PROVE  StoreTypes'
    <2>1. UNCHANGED <<doc, bloom, l2>> /\ buffer[r] \in Seq(Answered)
      BY <1>6 DEF Apply, ExpireL1, Typed, StoreTypes
    <2>2. CASE Apply(r)
      <3>1. Head(buffer[r]) \in Answered /\ Tail(buffer[r]) \in Seq(Answered)
        BY <2>1, <2>2 DEF Apply
      <3>2. QED
        BY <2>1, <2>2, <3>1 DEF Apply, Typed, StoreTypes
    <2>3. CASE ExpireL1(r)
      BY <2>1, <2>3 DEF ExpireL1, Typed, StoreTypes
    <2>4. QED
      BY <1>6, <2>2, <2>3
  <1>7. ASSUME NEW c \in Callers, BeginGet(c) \/ BeginAccept(c) \/ BeginPay(c) \/ AskBloom(c)
                                    \/ ReadL2(c) \/ Join(c) \/ Check(c) \/ Read(c)
        PROVE  UNCHANGED storeVars
    BY <1>7 DEF BeginGet, BeginAccept, BeginPay, BeginUpdate, AskBloom, ReadL2, Join, Check, Read
  <1>8. CASE Next
    BY <1>8, <1>1, <1>2, <1>3, <1>4, <1>5, <1>6, <1>7 DEF Next, Proceed
  <1>9. QED
    BY <1>1, <1>8 DEF CacheStep, cacheVars

\* Every step keeps the types.
LEMMA TypedStep == Typed /\ [CacheStep]_cacheVars => Typed'
  <1> SUFFICES ASSUME Typed, [CacheStep]_cacheVars PROVE Typed'
    OBVIOUS
  <1>1. StoreTypes'
    BY StoreTypesStep
  <1>2. CASE UNCHANGED <<flight, callVars, fails, history>>
    BY <1>1, <1>2 DEF Typed, CallTypes, FlightInv, callVars, history
  <1>3. ASSUME NEW c \in Callers, Walking(c) PROVE Typed'
    BY <1>1, <1>3, WalkingMoves, WalkingTypes, FlightSolo DEF Typed
  <1>4. ASSUME NEW c \in Callers, Join(c) PROVE Typed'
    BY <1>1, <1>4, FlightJoins, JoinAndLandTypes DEF Typed
  <1>5. ASSUME NEW c \in Callers, Landing(c) PROVE Typed'
    <2>1. pc[c] \in Leading
      BY <1>5 DEF Landing, Check, Read, StoreL1, At, Leading
    <2>2. CASE \E how, v : Land(c, how, v)
      BY <1>1, <1>5, <2>1, <2>2, FlightLands, JoinAndLandTypes DEF Typed
    <2>3. CASE UNCHANGED flight /\ \E l \in {"read", "feed"} : pc' = [pc EXCEPT ![c] = l]
      <3>1. FlightInv'
        BY <2>1, <2>3, FlightSolo DEF Typed, Labels, Leading
      <3>2. QED
        BY <1>1, <1>5, <3>1, JoinAndLandTypes DEF Typed
    <2>4. QED
      BY <1>5, <2>2, <2>3 DEF Landing, Check, Read, StoreL1, Goto
  <1>6. CASE AddOther \/ ExpireL2 \/ \E r \in Replicas : Apply(r) \/ ExpireL1(r)
    BY <1>2, <1>6 DEF AddOther, ExpireL2, Apply, ExpireL1
  <1>7. CASE Next
    BY <1>3, <1>4, <1>5, <1>6, <1>7, CallerSteps DEF Next
  <1>8. QED
    BY <1>2, <1>6, <1>7 DEF CacheStep, cacheVars

-----------------------------------------------------------------------------
(* Who moves whom.                                                         *)

CallStep(c) == BeginGet(c) \/ BeginAccept(c) \/ BeginPay(c) \/ BeginCreate(c) \/ Proceed(c)

\* The steps nobody calls for.
Ambient == AddOther \/ ExpireL2 \/ \E r \in Replicas : Apply(r) \/ ExpireL1(r)

\* A step is the environment's or some caller's.
LEMMA StepCases ==
  [CacheStep]_cacheVars <=>
    UNCHANGED cacheVars \/ Ambient \/ \E c \in Callers : CallStep(c)
  BY DEF CacheStep, Next, Ambient, CallStep

\* The environment leaves the document and the calls alone.
LEMMA AmbientFrame == Ambient => UNCHANGED <<doc, flight, callVars, fails, history>>
  BY DEF Ambient, AddOther, ExpireL2, Apply, ExpireL1

\* A caller's step moves nobody else, but for those who wait and are woken.
LEMMA OthersFrame ==
  ASSUME Typed, NEW c \in Callers, CallStep(c), NEW d \in Callers, d # c
  PROVE  \/ pc'[d] = pc[d] /\ got'[d] = got[d] /\ outcome'[d] = outcome[d]
         \/ pc[d] = "wait" /\ pc'[d] = "idle"
  <1>1. CASE Walking(c)
    <2>1. pc'[d] = pc[d]
      BY <1>1, WalkingMoves DEF Typed, CallTypes
    <2>2. got'[d] = got[d] /\ outcome'[d] = outcome[d]
      BY <1>1 DEF Typed, CallTypes, Walking, Return, Carry, BeginGet, BeginAccept, BeginPay,
                  BeginUpdate, BeginCreate, AskBloom, ReadL2, FillL1, Feed, StoreL2, Write, DropL2,
                  DropL1, Index
    <2>3. QED
      BY <2>1, <2>2
  <1>2. CASE Join(c)
    BY <1>2 DEF Typed, CallTypes, Join, Goto
  <1>3. CASE Landing(c)
    <2>1. CASE \E how, v : Land(c, how, v)
      BY <2>1 DEF Land, Woken, At, Typed, CallTypes
    <2>2. CASE UNCHANGED outcome /\ \E l, v : Goto(c, l) /\ (Carry(c, v) \/ UNCHANGED got)
      BY <2>2 DEF Goto, Carry, Typed, CallTypes
    <2>3. QED
      BY <1>3, <2>1, <2>2 DEF Landing, Check, Read, StoreL1
  <1>4. QED
    BY <1>1, <1>2, <1>3, CallerSteps DEF CallStep

\* What the caller itself has in hand where it goes.
LEMMA OwnStep ==
  ASSUME Typed, NEW c \in Callers, CallStep(c)
  PROVE  /\ pc'[c] \in {"feed"} => pc[c] = "read" /\ got'[c] = doc /\ doc # Nothing /\ doc' = doc
         /\ pc'[c] \in {"storeL2"} => pc[c] = "feed" /\ got'[c] = got[c] /\ doc' = doc
         /\ pc'[c] \in {"storeL1"} => pc[c] = "storeL2" /\ got'[c] = got[c]
         /\ pc'[c] \in {"fillL1"} => got'[c] = l2 /\ l2 # Nothing
         /\ pc'[c] \in {"accept", "pay"} => doc' # Nothing
         /\ pc'[c] = "index" => doc' # Nothing
         /\ pc'[c] = "dropL2" => doc' # Nothing
         /\ pc'[c] = "dropL1" => pc[c] = "dropL2" /\ doc' = doc
  <1> USE DEF Goto, Return, Carry, At, Begin, BeginUpdate
  <1>1. c \in DOMAIN pc /\ c \in DOMAIN got
    BY DEF Typed, CallTypes
  <1>2. CASE BeginGet(c) \/ BeginAccept(c) \/ BeginPay(c) \/ BeginCreate(c)
    BY <1>1, <1>2 DEF BeginGet, BeginAccept, BeginPay, BeginCreate, storeVars,
                      Pending, Nothing, Accepted, Paid
  <1>3. CASE AskBloom(c) \/ ReadL2(c) \/ FillL1(c) \/ Join(c)
    BY <1>1, <1>3 DEF AskBloom, ReadL2, FillL1, Join
  <1>4. CASE Landing(c)
    <2>1. c \in Woken(c)
      BY DEF Woken
    <2>2. QED
      BY <1>1, <1>4, <2>1 DEF Landing, Check, Read, StoreL1, Land, storeVars
  <1>5. CASE Feed(c) \/ StoreL2(c)
    BY <1>1, <1>5 DEF Feed, StoreL2
  <1>6. CASE Write(c) \/ DropL2(c) \/ DropL1(c) \/ Index(c)
    BY <1>1, <1>6 DEF Write, DropL2, DropL1, Index, Target, Pending, Nothing, Accepted, Paid
  <1>7. QED
    BY <1>2, <1>3, <1>4, <1>5, <1>6 DEF CallStep, Proceed, Landing

-----------------------------------------------------------------------------
(* Nothing from the future.                                                *)

\* Those who are about to fill a cache have a version in hand, and those who
\* update, or have just created, a document to do it to.
HandInv ==
  /\ \A c \in Callers : pc[c] \in {"fillL1", "feed", "storeL2", "storeL1"} => got[c] \in Versions
  /\ \A c \in Callers : pc[c] \in {"index", "accept", "pay", "dropL2", "dropL1"} => doc # Nothing

\* The document only ever moves on to a later version.
LEMMA DocGrows ==
  ASSUME Typed, [CacheStep]_cacheVars
  PROVE  doc <= doc' /\ (doc # Nothing => doc' # Nothing)
  <1> USE DEF Answered, Versions, Nothing, Pending, Accepted, Paid
  <1>1. doc \in Answered
    BY DEF Typed, StoreTypes
  <1>2. ASSUME NEW c \in Callers, BeginCreate(c) PROVE doc <= doc' /\ (doc # Nothing => doc' # Nothing)
    BY <1>1, <1>2 DEF BeginCreate
  <1>3. ASSUME NEW c \in Callers, Write(c) PROVE doc <= doc' /\ (doc # Nothing => doc' # Nothing)
    BY <1>1, <1>3 DEF Write, Admits, Target
  <1>4. ASSUME NEW c \in Callers, CallStep(c), ~BeginCreate(c), ~Write(c) PROVE doc' = doc
    BY <1>4 DEF CallStep, Proceed, BeginGet, BeginAccept, BeginPay, BeginUpdate, AskBloom, ReadL2,
                FillL1, Join, Check, Read, Feed, StoreL2, StoreL1, DropL2, DropL1, Index, storeVars
  <1>5. QED
    BY <1>1, <1>2, <1>3, <1>4, StepCases, AmbientFrame DEF cacheVars, storeVars

\* Every step keeps a document in the hands of whoever fills a cache.
LEMMA HandStep ==
  ASSUME Typed, HandInv, [CacheStep]_cacheVars
  PROVE  HandInv'
  <1>1. CASE UNCHANGED <<doc, callVars>>
    BY <1>1 DEF HandInv, callVars
  <1>2. ASSUME NEW c \in Callers, CallStep(c) PROVE HandInv'
    <2> SUFFICES ASSUME NEW d \in Callers
                 PROVE  /\ pc'[d] \in {"fillL1", "feed", "storeL2", "storeL1"} => got'[d] \in Versions
                        /\ pc'[d] \in {"index", "accept", "pay", "dropL2", "dropL1"} => doc' # Nothing
      BY DEF HandInv
    <2>1. CASE d # c
      BY <1>2, <2>1, OthersFrame, DocGrows DEF HandInv
    <2>2. CASE d = c
      <3>1. doc \in Answered /\ l2 \in Answered
        BY DEF Typed, StoreTypes
      <3>2. QED
        BY <1>2, <2>2, <3>1, OwnStep, DocGrows DEF HandInv, Answered
    <2>3. QED
      BY <2>1, <2>2
  <1>3. QED
    BY <1>1, <1>2, StepCases, AmbientFrame DEF cacheVars, storeVars

\* A version that is in hand, in a cache or in MongoDB, or none.
Known(v) == v \in Answered /\ v <= doc

\* A version the document has had is one it has had after the step.
LEMMA KnownStaysKnown ==
  ASSUME Typed, [CacheStep]_cacheVars, NEW v \in Answered, v <= doc
  PROVE  v <= doc'
  BY DocGrows, TypedStep DEF Typed, StoreTypes, Answered, Versions, Nothing, Pending, Accepted, Paid

\* The absence of a document and the version in MongoDB are known.
LEMMA SomethingKnown == Typed => Known(Nothing) /\ Known(doc)
  BY DEF Typed, StoreTypes, Known, Answered, Versions, Nothing, Pending, Accepted, Paid

\* NothingFromTheFuture, place by place.
LEMMA FutureInPlaces ==
  Typed => (NothingFromTheFuture <=>
    /\ Known(l2) /\ \A c \in Callers : Known(got[c])
    /\ \A r \in Replicas : Known(l1[r]) /\ \A i \in DOMAIN buffer[r] : Known(buffer[r][i]))
  <1> SUFFICES ASSUME Typed
               PROVE  /\ l2 \in Answered /\ \A c \in Callers : got[c] \in Answered
                      /\ \A r \in Replicas : /\ l1[r] \in Answered
                                             /\ \A i \in DOMAIN buffer[r] : buffer[r][i] \in Answered
    BY Zenon DEF NothingFromTheFuture, Known
  <1>1. \A r \in Replicas : buffer[r] \in Seq(Answered)
    BY DEF Typed, StoreTypes
  <1>2. QED
    BY <1>1 DEF Typed, StoreTypes, CallTypes

\* What a step puts into a caller's hand was known.
LEMMA GotKnown ==
  ASSUME Typed, HandInv, NothingFromTheFuture, NEW c \in Callers, CallStep(c), NEW d \in Callers
  PROVE  got'[d] = got[d] \/ Known(got'[d])
  <1>1. Known(l2) /\ Known(doc) /\ Known(Nothing) /\ Known(Local(c)) /\ Known(got[c])
    BY FutureInPlaces, SomethingKnown, CacheAssumption DEF Local
  <1>2. \A v : Carry(c, v) /\ Known(v) => got'[d] = got[d] \/ Known(got'[d])
    BY DEF Carry, Typed, CallTypes
  <1>3. \A how, v : Land(c, how, v) /\ Known(v) => got'[d] = got[d] \/ Known(got'[d])
    BY DEF Land
  <1>4. pc[c] = "index" => Known(Pending)
    BY DEF HandInv, Known, Typed, StoreTypes, Answered, Versions, Nothing, Pending, Accepted, Paid
  <1>5. CASE BeginGet(c) \/ BeginAccept(c) \/ BeginPay(c) \/ BeginCreate(c) \/ Join(c)
    BY <1>1, <1>2, <1>5 DEF BeginGet, BeginAccept, BeginPay, BeginUpdate, BeginCreate, Join, Return
  <1>6. CASE AskBloom(c) \/ ReadL2(c) \/ FillL1(c) \/ Feed(c) \/ StoreL2(c)
    BY <1>1, <1>2, <1>6 DEF AskBloom, ReadL2, FillL1, Feed, StoreL2, Return
  <1>7. CASE Check(c) \/ Read(c) \/ StoreL1(c)
    BY <1>1, <1>2, <1>3, <1>7 DEF Check, Read, StoreL1
  <1>8. CASE Write(c) \/ DropL2(c) \/ DropL1(c) \/ Index(c)
    BY <1>1, <1>2, <1>4, <1>8 DEF Write, DropL2, DropL1, Index, Return, At
  <1>9. QED
    BY <1>5, <1>6, <1>7, <1>8 DEF CallStep, Proceed

\* And what it puts into Redis.
LEMMA RedisKnown ==
  ASSUME Typed, NothingFromTheFuture, [CacheStep]_cacheVars
  PROVE  Known(l2')
  <1>1. Known(l2) /\ Known(Nothing) /\ \A c \in Callers : Known(got[c])
    BY FutureInPlaces, SomethingKnown
  <1>2. l2' \in {l2, Nothing} \cup {got[c] : c \in Callers}
    <2>1. ASSUME NEW c \in Callers, StoreL2(c) \/ DropL2(c) PROVE l2' \in {l2, Nothing, got[c]}
      BY <2>1 DEF StoreL2, DropL2
    <2>2. ASSUME NEW c \in Callers, CallStep(c), ~StoreL2(c), ~DropL2(c) PROVE l2' = l2
      BY <2>2 DEF CallStep, Proceed, BeginGet, BeginAccept, BeginPay, BeginUpdate, BeginCreate,
                  AskBloom, ReadL2, FillL1, Join, Check, Read, Feed, StoreL1, Write, DropL1, Index, storeVars
    <2>3. CASE Ambient
      BY <2>3 DEF Ambient, AddOther, ExpireL2, Apply, ExpireL1
    <2>4. QED
      BY <2>1, <2>2, <2>3, StepCases DEF cacheVars, storeVars
  <1>3. QED
    BY <1>1, <1>2

\* And into a local cache or its buffer.
LEMMA LocalKnown ==
  ASSUME Typed, NothingFromTheFuture, [CacheStep]_cacheVars, NEW r \in Replicas
  PROVE  Known(l1'[r]) /\ \A i \in DOMAIN buffer'[r] : Known(buffer'[r][i])
  <1>1. /\ Known(l1[r]) /\ \A i \in DOMAIN buffer[r] : Known(buffer[r][i])
        /\ Known(Nothing) /\ \A c \in Callers : Known(got[c])
    BY FutureInPlaces, SomethingKnown
  <1>2. /\ buffer[r] \in Seq(Answered)
        /\ r \in DOMAIN l1 /\ r \in DOMAIN buffer
    BY DEF Typed, StoreTypes
  <1>3. \A v \in Answered : Known(v) =>
          \A i \in DOMAIN Append(buffer[r], v) : Known(Append(buffer[r], v)[i])
    BY <1>1, <1>2
  <1>4. ASSUME NEW c \in Callers, SetLocal(c, got[c]) \/ DelLocal(c)
        PROVE  Known(l1'[r]) /\ \A i \in DOMAIN buffer'[r] : Known(buffer'[r][i])
    <2>1. l1'[r] \in {l1[r], Nothing, got[c]}
      BY <1>2, <1>4 DEF SetLocal, DelLocal
    <2>2. buffer'[r] \in {buffer[r], Append(buffer[r], got[c]), Append(buffer[r], Nothing)}
      BY <1>2, <1>4 DEF SetLocal, DelLocal, Buffer
    <2>3. QED
      BY <1>1, <1>3, <2>1, <2>2 DEF Known
  <1>5. ASSUME NEW c \in Callers, CallStep(c), ~FillL1(c), ~StoreL1(c), ~DropL1(c)
        PROVE  UNCHANGED <<l1, buffer>>
    BY <1>5 DEF CallStep, Proceed, BeginGet, BeginAccept, BeginPay, BeginUpdate, BeginCreate,
                AskBloom, ReadL2, Join, Check, Read, Feed, StoreL2, Write, DropL2, Index, storeVars
  <1>6. CASE \E c \in Callers : CallStep(c)
    BY <1>1, <1>4, <1>5, <1>6 DEF FillL1, StoreL1, DropL1
  <1>7. CASE \E q \in Replicas : Apply(q) \/ ExpireL1(q)
    <2>1. PICK q \in Replicas : Apply(q) \/ ExpireL1(q)
      BY <1>7
    <2>2. CASE q # r
      BY <1>1, <1>2, <2>1, <2>2 DEF Apply, ExpireL1
    <2>3. CASE q = r /\ Apply(q)
      <3>1. buffer[r] # <<>> /\ buffer'[r] = Tail(buffer[r]) /\ l1'[r] \in {l1[r], Head(buffer[r])}
        BY <1>2, <2>3 DEF Apply
      <3>2. Known(Head(buffer[r]))
        BY <1>1, <1>2, <3>1
      <3>3. \A i \in DOMAIN Tail(buffer[r]) : Tail(buffer[r])[i] = buffer[r][i + 1]
                                               /\ i + 1 \in DOMAIN buffer[r]
        BY <1>2, <3>1
      <3>4. QED
        BY <1>1, <3>1, <3>2, <3>3
    <2>4. CASE q = r /\ ExpireL1(q)
      BY <1>1, <1>2, <2>4 DEF ExpireL1
    <2>5. QED
      BY <2>1, <2>2, <2>3, <2>4
  <1>8. CASE AddOther \/ ExpireL2
    BY <1>1, <1>8 DEF AddOther, ExpireL2
  <1>9. CASE UNCHANGED cacheVars
    BY <1>1, <1>9 DEF cacheVars, storeVars
  <1>10. QED
    BY <1>6, <1>7, <1>8, <1>9, StepCases DEF Ambient

\* No step puts a version into a cache or a hand that the document has not had.
LEMMA FutureStep ==
  ASSUME Typed, HandInv, NothingFromTheFuture, [CacheStep]_cacheVars
  PROVE  NothingFromTheFuture'
  <1>1. \A v : Known(v) => v <= doc'
    BY KnownStaysKnown DEF Known
  <1>2. l2' <= doc'
    BY <1>1, RedisKnown
  <1>3. \A r \in Replicas : l1'[r] <= doc' /\ \A i \in DOMAIN buffer'[r] : buffer'[r][i] <= doc'
    BY <1>1, LocalKnown
  <1>4. \A c \in Callers : got'[c] <= doc'
    <2>1. \A c \in Callers : Known(got[c])
      BY FutureInPlaces
    <2>2. \A c \in Callers : Known(got'[c])
      BY <2>1, GotKnown, StepCases, AmbientFrame DEF cacheVars, callVars
    <2>3. QED
      BY <1>1, <2>2
  <1>5. QED
    BY <1>2, <1>3, <1>4 DEF NothingFromTheFuture

-----------------------------------------------------------------------------
(* Staleness.                                                              *)

\* A leader who has yet to store what it read has the last version, unless
\* an update was seen to overlap a fill.
FreshFills ==
  tainted \/ \A c \in Callers : pc[c] \in {"feed", "storeL2"} => got[c] = doc

\* What is tainted stays so.
LEMMA TaintStays ==
  ASSUME Typed, [CacheStep]_cacheVars, tainted
  PROVE  tainted'
  <1>1. tainted = TRUE
    BY DEF Typed, CallTypes
  <1>2. ASSUME NEW c \in Callers, Write(c) \/ DropL2(c) PROVE tainted'
    BY <1>1, <1>2 DEF Write, DropL2
  <1>3. ASSUME NEW c \in Callers, CallStep(c), ~Write(c), ~DropL2(c) PROVE tainted' = tainted
    BY <1>3 DEF history, CallStep, Proceed, BeginGet, BeginAccept, BeginPay, BeginUpdate, BeginCreate,
                AskBloom, ReadL2, FillL1, Join, Check, Read, Feed, StoreL2, StoreL1, DropL1, Index
  <1>4. QED
    BY <1>1, <1>2, <1>3, StepCases, AmbientFrame DEF cacheVars, history

\* The document changes by an update or by its creation.
LEMMA OnlyWritersWrite ==
  ASSUME NEW c \in Callers, CallStep(c), ~BeginCreate(c), ~Write(c)
  PROVE  doc' = doc
  BY DEF CallStep, Proceed, BeginGet, BeginAccept, BeginPay, BeginUpdate, AskBloom, ReadL2, FillL1,
         Join, Check, Read, Feed, StoreL2, StoreL1, DropL2, DropL1, Index, storeVars

\* Only a creation or an update writes the document.
LEMMA DocWriters ==
  ASSUME [CacheStep]_cacheVars, doc' # doc
  PROVE  \E c \in Callers : BeginCreate(c) \/ Write(c)
  BY OnlyWritersWrite, StepCases, AmbientFrame DEF cacheVars, storeVars

\* As long as nothing is tainted, a leader on its way to Redis has the
\* latest version in hand.
LEMMA FreshStep ==
  ASSUME Typed, HandInv, NothingFromTheFuture, FreshFills, [CacheStep]_cacheVars
  PROVE  FreshFills'
  <1> SUFFICES ASSUME ~tainted', NEW d \in Callers, pc'[d] \in {"feed", "storeL2"}
               PROVE  got'[d] = doc'
    BY DEF FreshFills
  <1>1. ~tainted
    BY TaintStays
  <1>2. CASE pc[d] \in {"feed", "storeL2"} /\ got'[d] = got[d]
    <2>1. got[d] = doc /\ doc # Nothing
      BY <1>1, <1>2 DEF FreshFills, HandInv, Versions, Nothing, Pending, Accepted, Paid
    <2>2. doc' = doc
      <3> SUFFICES ASSUME doc' # doc PROVE FALSE
        OBVIOUS
      <3>1. PICK c \in Callers : BeginCreate(c) \/ Write(c)
        BY DocWriters
      <3>2. FillUnderWay
        BY <1>2 DEF FillUnderWay
      <3>3. QED
        BY <2>1, <3>1, <3>2 DEF BeginCreate, Write
    <2>3. QED
      BY <1>2, <2>1, <2>2
  <1>3. ASSUME NEW c \in Callers, CallStep(c) PROVE got'[d] = doc'
    <2>1. CASE d = c
      BY <1>2, <1>3, <2>1, OwnStep
    <2>2. CASE d # c
      BY <1>2, <1>3, <2>2, OthersFrame
    <2>3. QED
      BY <2>1, <2>2
  <1>4. QED
    BY <1>2, <1>3, StepCases, AmbientFrame DEF cacheVars, callVars

\* A caller leaves the DEL in Redis with the key gone, or tainted.
LEMMA DropLeaves ==
  ASSUME Typed, [CacheStep]_cacheVars, NEW c \in Callers, pc[c] = "dropL2", pc'[c] # "dropL2"
  PROVE  l2' = Nothing \/ tainted'
  <1>1. ASSUME NEW d \in Callers, CallStep(d) PROVE d = c
    BY <1>1, OthersFrame
  <1>2. CallStep(c)
    BY <1>1, StepCases, AmbientFrame DEF cacheVars, callVars
  <1>3. QED
    BY <1>2 DEF CallStep, Proceed, BeginGet, BeginAccept, BeginPay, BeginUpdate, BeginCreate, Begin, At,
                AskBloom, ReadL2, FillL1, Join, Check, Read, Feed, StoreL2, StoreL1, Write, DropL2, DropL1, Index

\* An old version gets into Redis, or stays there, with a known cause only.
LEMMA StaleStep ==
  ASSUME Typed, HandInv, NothingFromTheFuture, FreshFills, StaleOnlyAfterRace, [CacheStep]_cacheVars
  PROVE  StaleOnlyAfterRace'
  <1> SUFFICES ASSUME ~tainted', l2' \in Versions, l2' < doc'
               PROVE  \E c \in Callers : pc'[c] = "dropL2"
    BY DEF StaleOnlyAfterRace, At
  <1>1. ~tainted
    BY TaintStays
  <1>2. CASE l2' = l2 /\ doc' = doc
    <2>1. PICK c \in Callers : pc[c] = "dropL2"
      BY <1>1, <1>2 DEF StaleOnlyAfterRace, At
    <2>2. l2' # Nothing
      BY DEF Versions, Nothing, Pending, Accepted, Paid
    <2>3. QED
      BY <2>1, <2>2, DropLeaves
  <1>3. CASE doc' # doc
    <2>1. PICK c \in Callers : BeginCreate(c) \/ Write(c)
      BY <1>3, DocWriters
    <2>2. CASE BeginCreate(c)
      <3>1. doc = Nothing /\ l2' = l2 /\ l2 <= doc /\ l2 \in Answered
        BY <2>2 DEF BeginCreate, NothingFromTheFuture, Typed, StoreTypes
      <3>2. QED
        BY <3>1 DEF Answered, Versions, Nothing, Pending, Accepted, Paid
    <2>3. CASE Write(c)
      BY <1>3, <2>3 DEF Write, Goto, Typed, CallTypes
    <2>4. QED
      BY <2>1, <2>2, <2>3
  <1>4. CASE doc' = doc /\ l2' # l2
    <2>1. ASSUME NEW c \in Callers, CallStep(c), ~StoreL2(c), ~DropL2(c) PROVE l2' = l2
      BY <2>1 DEF CallStep, Proceed, BeginGet, BeginAccept, BeginPay, BeginUpdate, BeginCreate,
                  AskBloom, ReadL2, FillL1, Join, Check, Read, Feed, StoreL1, Write, DropL1, Index, storeVars
    <2>2. ASSUME Ambient PROVE l2' \in {l2, Nothing}
      BY <2>2 DEF Ambient, AddOther, ExpireL2, Apply, ExpireL1
    <2>3. l2' # Nothing
      BY DEF Versions, Nothing, Pending, Accepted, Paid
    <2>4. PICK c \in Callers : StoreL2(c) \/ DropL2(c)
      BY <1>4, <2>1, <2>2, <2>3, StepCases DEF cacheVars, storeVars
    <2>5. CASE StoreL2(c)
      <3>1. got[c] = doc
        BY <1>1, <2>5 DEF StoreL2, At, FreshFills
      <3>2. l2' = doc'
        BY <1>4, <2>5, <3>1 DEF StoreL2
      <3>3. doc \in Answered
        BY DEF Typed, StoreTypes
      <3>4. QED
        BY <1>4, <3>2, <3>3 DEF Answered, Versions, Nothing, Pending, Accepted, Paid
    <2>6. CASE DropL2(c)
      BY <1>4, <2>3, <2>6 DEF DropL2, Typed, CallTypes
    <2>7. QED
      BY <2>4, <2>5, <2>6
  <1>5. QED
    BY <1>2, <1>3, <1>4

-----------------------------------------------------------------------------
(* What the filter hides.                                                  *)

Indexed == doc # Nothing /\ ~unindexed /\ (\A c \in Callers : pc[c] # "index") => BloomExists

\* No step clears a bit of the filter.
LEMMA BitsStay ==
  ASSUME Typed, [CacheStep]_cacheVars
  PROVE  bloom \subseteq bloom' /\ bloom' \subseteq Positions
  <1>1. bloom \subseteq bloom'
    <2>1. ASSUME NEW c \in Callers, CallStep(c), ~Feed(c), ~Index(c) PROVE bloom' = bloom
      BY <2>1 DEF CallStep, Proceed, BeginGet, BeginAccept, BeginPay, BeginUpdate, BeginCreate, StoreL2,
                  AskBloom, ReadL2, FillL1, Join, Check, Read, StoreL1, Write, DropL2, DropL1, storeVars
    <2>2. BloomAdd => bloom \subseteq bloom'
      BY DEF BloomAdd, Typed, StoreTypes
    <2>3. Ambient => bloom \subseteq bloom'
      BY DEF Ambient, AddOther, ExpireL2, Apply, ExpireL1
    <2>4. QED
      BY <2>1, <2>2, <2>3, StepCases DEF Feed, Index, cacheVars, storeVars
  <1>2. QED
    BY <1>1, TypedStep DEF Typed, StoreTypes

\* A trip that was indexed stays so.
LEMMA IndexedStep ==
  ASSUME Typed, HandInv, Indexed, [CacheStep]_cacheVars
  PROVE  Indexed'
  <1> SUFFICES ASSUME doc' # Nothing, ~unindexed', \A c \in Callers : pc'[c] # "index"
               PROVE  BloomExists'
    BY DEF Indexed
  <1>1. ~unindexed
    BY StepCases, AmbientFrame
       DEF cacheVars, history, CallStep, Proceed, BeginGet, BeginAccept, BeginPay, BeginUpdate,
           BeginCreate, AskBloom, ReadL2, FillL1, Join, Check, Read, Feed, StoreL2, StoreL1, Write,
           DropL2, DropL1, Index, Typed, CallTypes
  <1>2. CASE BloomExists
    BY <1>2, BitsStay DEF BloomExists
  <1>3. CASE doc = Nothing
    <2>1. PICK c \in Callers : BeginCreate(c) \/ Write(c)
      BY <1>3, DocWriters
    <2>2. CASE BeginCreate(c)
      BY <1>3, <2>2 DEF BeginCreate, Goto, Typed, CallTypes
    <2>3. CASE Write(c)
      BY <1>3, <2>3 DEF Write, HandInv
    <2>4. QED
      BY <2>1, <2>2, <2>3
  <1>4. ASSUME NEW c \in Callers, pc[c] = "index" PROVE BloomExists'
    <2>1. ASSUME NEW d \in Callers, CallStep(d) PROVE d = c
      BY <1>4, <2>1, OthersFrame
    <2>2. CallStep(c)
      BY <1>4, <2>1, StepCases, AmbientFrame DEF cacheVars, callVars
    <2>3. Index(c)
      BY <1>4, <2>2 DEF CallStep, Proceed, BeginGet, BeginAccept, BeginPay, BeginUpdate, BeginCreate,
                        Begin, At, AskBloom, ReadL2, FillL1, Join, Check, Read, Feed, StoreL2, StoreL1,
                        Write, DropL2, DropL1
    <2>4. fails' = fails
      BY <2>3 DEF Index
    <2>5. QED
      BY <2>3, <2>4, FailTypes DEF Index, BloomAdd, CallFails, BloomExists, Typed, CallTypes
  <1>5. QED
    BY <1>1, <1>2, <1>3, <1>4 DEF Indexed

-----------------------------------------------------------------------------
(* The invariants of the caches.                                           *)

CacheInv == Typed /\ HandInv /\ NothingFromTheFuture /\ FreshFills /\ StaleOnlyAfterRace /\ Indexed

\* The invariant holds at first, before the trip and just after its creation.
LEMMA CacheInit ==
  ASSUME NEW version \in {Nothing, Pending}, NEW indexed \in SUBSET SUBSET Positions,
         Stores(version, indexed), version # Nothing => indexed = {Positions}
  PROVE  CacheInv
  <1> USE DEF Stores
  <1>1. StoreTypes
    BY DEF StoreTypes, Answered, Versions, Pending
  <1>2. CallTypes
    <2>1. 0 \in 0..MaxFails /\ \A c \in Callers : 0 \in 0..MaxCalls[c]
      BY CacheAssumption
    <2>2. tainted \in BOOLEAN /\ unindexed \in BOOLEAN
      OBVIOUS
    <2>3. pc \in [Callers -> Labels] /\ got \in [Callers -> Answered]
          /\ outcome \in [Callers -> {"none", "found", "notFound", "failed"}]
      BY DEF Labels, Answered
    <2>4. QED
      BY <2>1, <2>2, <2>3 DEF CallTypes
  <1>3. FlightInv
    BY CacheAssumption DEF FlightInv, Leading
  <1>4. HandInv /\ FreshFills /\ StaleOnlyAfterRace
    BY DEF HandInv, FreshFills, StaleOnlyAfterRace, Versions, Nothing, Pending, Accepted, Paid
  <1>5. NothingFromTheFuture
    BY DEF NothingFromTheFuture, Nothing, Pending
  <1>6. Indexed
    BY DEF Indexed, BloomExists
  <1>7. QED
    BY <1>1, <1>2, <1>3, <1>4, <1>5, <1>6 DEF CacheInv, Typed

\* Every step of the caches keeps the invariant, whoever calls.
LEMMA CacheInvStep == CacheInv /\ [CacheStep]_cacheVars => CacheInv'
  BY TypedStep, HandStep, FutureStep, FreshStep, StaleStep, IndexedStep DEF CacheInv

\* CacheInv holds of the caches on their own.
THEOREM CacheInvariance == Spec => []CacheInv
  <1>1. Init => CacheInv
    BY CacheInit DEF Init
  <1>2. CacheInv /\ [Next]_cacheVars => CacheInv'
    BY CacheInvStep DEF CacheStep
  <1>3. QED
    BY <1>1, <1>2, PTL DEF Spec

\* Every variable keeps its type; a flight has a leader who is at work, and
\* nobody waits without one (singleflight's Do).
THEOREM CacheTypeCorrect == Spec => []TypeOK
  <1>1. CacheInv => TypeOK
    BY DEF CacheInv, Typed, StoreTypes, CallTypes, FlightInv, TypeOK, Answered, Leading
  <1>2. QED
    BY <1>1, CacheInvariance, PTL

\* No cache, flight or answer has a version MongoDB has not had: UpdateTrip
\* writes MongoDB first, whatever fails and whoever reads meanwhile.
THEOREM CachesNeverLead == Spec => []NothingFromTheFuture
  BY CacheInvariance, PTL DEF CacheInv

\* Redis is left with an old version only by an update that overlapped a
\* fill or lost its DEL.
THEOREM StaleHasCause == Spec => []StaleOnlyAfterRace
  BY CacheInvariance, PTL DEF CacheInv

\* Who returns from the filter's check has been told of a missing bit.
LEMMA MissIsAbsent ==
  ASSUME CacheInv, [CacheStep]_cacheVars, NEW c \in Callers, At(c, "bloom"), At(c, "idle")'
  PROVE  doc = Nothing \/ unindexed \/ \E d \in Callers : At(d, "index")
  <1>1. pc[c] = "bloom" /\ pc'[c] = "idle"
    BY DEF At
  <1>2. ASSUME NEW d \in Callers, CallStep(d) PROVE d = c
    BY <1>1, <1>2, OthersFrame DEF CacheInv
  <1>3. CallStep(c)
    BY <1>1, <1>2, StepCases, AmbientFrame DEF cacheVars, callVars
  <1>4. AskBloom(c)
    BY <1>1, <1>3 DEF CallStep, Proceed, BeginGet, BeginAccept, BeginPay, BeginUpdate, BeginCreate,
                      Begin, At, ReadL2, FillL1, Join, Check, Read, Feed, StoreL2, StoreL1,
                      Write, DropL2, DropL1, Index
  <1>5. ~BloomExists
    BY <1>1, <1>4 DEF AskBloom, Goto, CacheInv, Typed, CallTypes
  <1>6. QED
    BY <1>5 DEF CacheInv, Indexed, At

\* A 404 tells the truth about a trip whose creation has returned and was
\* put into the Bloom filter (service.go:322).
THEOREM MissHolds == Spec => MissMeansAbsent
  <1>1. CacheInv /\ [Next]_cacheVars =>
          [\A c \in Callers :
             At(c, "bloom") /\ Answer(c)' = 404 /\ At(c, "idle")' =>
               doc = Nothing \/ unindexed \/ \E d \in Callers : At(d, "index")]_cacheVars
    BY MissIsAbsent DEF CacheStep
  <1>2. QED
    BY <1>1, CacheInvariance, PTL DEF Spec, MissMeansAbsent

-----------------------------------------------------------------------------
(* The accept handler on top of the caches.                                *)

\* Whatever the handler does, the caches see one of their own steps.
LEMMA AcceptStepIsCacheStep == [AcceptNext]_vars => [CacheStep]_cacheVars
  <1>1. ASSUME NEW c \in Acceptors, Handler(c) PROVE [CacheStep]_cacheVars
    <2>1. c \in Callers
      BY AcceptorsAssumption
    <2>2. UNCHANGED cacheVars \/ BeginGet(c) \/ BeginAccept(c)
      BY <1>1 DEF Handler, TryLock, Guard, Updated, Announce, Fail, Wake
    <2>3. QED
      BY <2>1, <2>2 DEF CacheStep, Next
  <1>2. ASSUME NEW c \in Callers, Other(c) \/ Inside(c) PROVE [CacheStep]_cacheVars
    BY <1>2 DEF Other, Inside, CacheStep, Next
  <1>3. CASE ExpireL2 \/ \E r \in Replicas : Ages(r)
    BY <1>3 DEF CacheStep, Next, Ages
  <1>4. CASE UNCHANGED vars
    BY <1>4 DEF vars
  <1>5. QED
    BY <1>1, <1>2, <1>3, <1>4 DEF AcceptNext

\* CacheInv holds under the accept handler too.
THEOREM AcceptCacheInvariance == AcceptSpec => []CacheInv
  <1>1. AcceptInit => CacheInv
    BY CacheInit DEF AcceptInit, Nothing, Pending
  <1>2. CacheInv /\ [AcceptNext]_vars => CacheInv'
    BY CacheInvStep, AcceptStepIsCacheStep
  <1>3. QED
    BY <1>1, <1>2, PTL DEF AcceptSpec

\* The stages in which the document has the acceptor's driver.
Won(c) ==
  \/ stage[c] \in {"again", "announced"}
  \/ pc[c] \in {"dropL2", "dropL1"}
  \/ stage[c] = "update" /\ pc[c] = "idle" /\ outcome[c] = "found"

\* Who updates, and whose driver the document has.
WinnerInv ==
  /\ stage \in [Acceptors -> Stages]
  /\ doc \in Versions /\ driver \in Acceptors \cup {NoCaller}
  /\ doc = Pending <=> driver = NoCaller
  /\ \A c \in Acceptors : Won(c) => driver = c
  /\ \A c \in Acceptors : pc[c] \in {"accept", "dropL2", "dropL1"} => stage[c] = "update"
  /\ \A c \in Acceptors : stage[c] = "update" => pc[c] \in {"accept", "dropL2", "dropL1", "idle"}
  /\ \A c \in Acceptors : stage[c] \in {"start", "waiting"} => pc[c] = "idle"
  /\ \A c \in Acceptors : pc[c] # "pay"
  /\ \A c \in Callers \ Acceptors : pc[c] # "accept"
  /\ \A c \in Callers : pc[c] # "index"
  /\ \A c \in Callers : pc[c] = "pay" => \E a \in Acceptors : Announced(a)

\* Which steps lead into an update, through it and out of it.
LEMMA UpdateMoves ==
  ASSUME Typed, NEW c \in Callers, CallStep(c)
  PROVE  /\ pc'[c] = "accept" => BeginAccept(c)
         /\ pc'[c] = "pay" => BeginPay(c)
         /\ pc'[c] = "index" => BeginCreate(c)
         /\ pc'[c] = "dropL2" => Write(c)
         /\ pc'[c] = "dropL1" => DropL2(c)
         /\ pc[c] \in {"accept", "pay"} <=> Write(c)
         /\ pc[c] = "dropL2" => DropL2(c)
         /\ pc[c] = "dropL1" => DropL1(c)
  <1> USE DEF Goto, Return, At, Begin, BeginUpdate
  <1>1. c \in DOMAIN pc
    BY DEF Typed, CallTypes
  <1>2. CASE BeginGet(c) \/ BeginAccept(c) \/ BeginPay(c) \/ BeginCreate(c)
    BY <1>1, <1>2 DEF BeginGet, BeginAccept, BeginPay, BeginCreate, Write
  <1>3. CASE AskBloom(c) \/ ReadL2(c) \/ FillL1(c) \/ Join(c)
    BY <1>1, <1>3 DEF AskBloom, ReadL2, FillL1, Join, Write
  <1>4. CASE Landing(c)
    <2>1. c \in Woken(c)
      BY DEF Woken
    <2>2. QED
      BY <1>1, <1>4, <2>1 DEF Landing, Check, Read, StoreL1, Land, Write
  <1>5. CASE Feed(c) \/ StoreL2(c)
    BY <1>1, <1>5 DEF Feed, StoreL2, Write
  <1>6. CASE Write(c)
    BY <1>1, <1>6 DEF Write
  <1>7. CASE DropL2(c) \/ DropL1(c) \/ Index(c)
    BY <1>1, <1>7 DEF DropL2, DropL1, Index, Write
  <1>8. QED
    BY <1>2, <1>3, <1>4, <1>5, <1>6, <1>7 DEF CallStep, Proceed, Landing

\* A handler begins calls, and touches no document: c comes to stage s.
Handled(c, s) ==
  /\ pc[c] = "idle" /\ UNCHANGED <<doc, driver>>
  /\ \A d \in Callers : d # c => pc'[d] = pc[d] /\ outcome'[d] = outcome[d]
  /\ stage' = [stage EXCEPT ![c] = s]
  /\ stage[c] # "announced"
  /\ pc'[c] = "accept" <=> s = "update"
  /\ pc'[c] \in {"idle", "bloom", "accept"}
  /\ s \in {"start", "waiting"} => pc'[c] = "idle"
  /\ s = "again" => stage[c] = "update" /\ outcome[c] = "found"
  /\ s = "announced" => stage[c] = "again"

\* What a step of the accept handler can do, by the stage it comes to.
LEMMA HandlerMoves ==
  ASSUME Typed, stage \in [Acceptors -> Stages], NEW c \in Acceptors, Handler(c),
         stage[c] \in {"start", "waiting"} => pc[c] = "idle"
  PROVE  \E s \in Stages : Handled(c, s)
  <1> USE DEF Handled
  <1>1. c \in Callers
    BY AcceptorsAssumption
  <1>2. ASSUME BeginGet(c)
        PROVE  /\ pc[c] = "idle" /\ UNCHANGED doc /\ pc'[c] \in {"idle", "bloom"}
               /\ \A d \in Callers : d # c => pc'[d] = pc[d] /\ outcome'[d] = outcome[d]
    BY <1>1, <1>2 DEF BeginGet, Begin, At, Return, Goto, storeVars, Typed, CallTypes
  <1>3. ASSUME BeginAccept(c)
        PROVE  /\ pc[c] = "idle" /\ UNCHANGED doc /\ pc'[c] = "accept"
               /\ \A d \in Callers : d # c => pc'[d] = pc[d] /\ outcome'[d] = outcome[d]
    BY <1>1, <1>3 DEF BeginAccept, BeginUpdate, Begin, At, Goto, storeVars, Typed, CallTypes
  <1>4. ASSUME Fail(c)
        PROVE  /\ UNCHANGED <<doc, pc, outcome>>
               /\ \E s \in {"start", "waiting", "dead"} : stage' = [stage EXCEPT ![c] = s]
    BY <1>4 DEF Fail, cacheVars, callVars, storeVars
  <1>5. UNCHANGED driver
    BY DEF Handler
  <1>6. CASE TryLock(c)
    BY <1>1, <1>2, <1>5, <1>6 DEF TryLock, Move, Stages, cacheVars, callVars, storeVars
  <1>7. CASE Guard(c)
    BY <1>1, <1>3, <1>4, <1>5, <1>7 DEF Guard, Returned, At, Move, Stages, cacheVars, callVars, storeVars
  <1>8. CASE Updated(c)
    BY <1>1, <1>2, <1>4, <1>5, <1>8 DEF Updated, Returned, At, Move, Stages, cacheVars, callVars, storeVars
  <1>9. CASE Announce(c)
    BY <1>1, <1>4, <1>5, <1>9 DEF Announce, Returned, At, Move, Stages, cacheVars, callVars, storeVars
  <1>10. CASE Wake(c)
    BY <1>1, <1>5, <1>10 DEF Wake, Move, WinnerInv, Stages, cacheVars, storeVars, callVars
  <1>11. QED
    BY <1>6, <1>7, <1>8, <1>9, <1>10 DEF Handler

\* Every step of the accept handlers keeps the winner alone.
LEMMA WinnerStep == CacheInv /\ WinnerInv /\ [AcceptNext]_vars => WinnerInv'
  <1> SUFFICES ASSUME CacheInv, WinnerInv, [AcceptNext]_vars PROVE WinnerInv'
    OBVIOUS
  <1>1. Typed /\ Acceptors \subseteq Callers /\ NoCaller \notin Acceptors
    BY CacheAssumption, AcceptorsAssumption DEF CacheInv
  <1>2. CASE UNCHANGED <<doc, pc, outcome, stage, driver>>
    BY <1>2 DEF WinnerInv, Won, Announced
  <1>3. ASSUME NEW c \in Acceptors, Handler(c) PROVE WinnerInv'
    <2>0. stage \in [Acceptors -> Stages] /\ (stage[c] \in {"start", "waiting"} => pc[c] = "idle")
      BY DEF WinnerInv
    <2>1. PICK s \in Stages : Handled(c, s)
      BY <1>1, <1>3, <2>0, HandlerMoves
    <2>2. /\ UNCHANGED <<doc, driver>>
          /\ \A d \in Callers : d # c => pc'[d] = pc[d] /\ outcome'[d] = outcome[d]
      BY <2>1 DEF Handled
    <2>3. stage' \in [Acceptors -> Stages] /\ stage'[c] = s
          /\ \A d \in Acceptors : d # c => stage'[d] = stage[d]
      BY <2>0, <2>1 DEF Handled
    <2>5. \A d \in Acceptors : Won(d)' => driver' = d
      BY <1>1, <2>1, <2>2, <2>3 DEF WinnerInv, Won, Handled
    <2>6. \A d \in Acceptors : Announced(d) => Announced(d)'
      BY <2>1, <2>3 DEF Announced, Handled
    <2>7. QED
      BY <1>1, <2>1, <2>2, <2>3, <2>5, <2>6 DEF WinnerInv, Handled
  <1>4. ASSUME NEW c \in Callers \ Acceptors, Other(c) PROVE WinnerInv'
    <2>1. CallStep(c) /\ UNCHANGED <<doc, driver, stage>>
      BY <1>4 DEF Other, CallStep, acceptVars, BeginGet, BeginPay, BeginUpdate, storeVars
    <2>2. \A d \in Callers : d # c => pc'[d] = pc[d] /\ outcome'[d] = outcome[d]
      BY <1>1, <1>4 DEF Other, BeginGet, BeginPay, BeginUpdate, Return, Goto, Typed, CallTypes
    <2>3. pc'[c] \in {"idle", "bloom", "pay"}
      BY <1>1, <1>4 DEF Other, BeginGet, BeginPay, BeginUpdate, Return, Goto, Typed, CallTypes
    <2>4. pc'[c] = "pay" => \E a \in Acceptors : Announced(a)
      BY <1>1, <1>4 DEF Other, BeginGet, Announced, Return, Goto, Typed, CallTypes
    <2>5. QED
      BY <1>1, <2>1, <2>2, <2>3, <2>4 DEF WinnerInv, Won, Announced
  <1>5. ASSUME NEW c \in Callers, Inside(c) PROVE WinnerInv'
    <2>1. CallStep(c) /\ UNCHANGED stage /\ pc[c] # "idle"
      BY <1>5 DEF Inside, CallStep, Proceed, At, AskBloom, ReadL2, FillL1, Join, Check, Read, Feed,
                  StoreL2, StoreL1, Write, DropL2, DropL1, Index
    <2>2. ~BeginAccept(c) /\ ~BeginPay(c) /\ ~BeginCreate(c)
      BY <2>1 DEF BeginAccept, BeginPay, BeginCreate, BeginUpdate, Begin, At
    <2>3. pc'[c] \notin {"accept", "pay", "index"}
      BY <1>1, <2>1, <2>2, UpdateMoves
    <2>4. \A d \in Callers : d # c =>
            \/ pc'[d] = pc[d] /\ outcome'[d] = outcome[d]
            \/ pc[d] = "wait" /\ pc'[d] = "idle"
      BY <1>1, <2>1, OthersFrame
    <2>5. driver' = IF Written(c) THEN c ELSE driver
      BY <1>5 DEF Inside
    <2>6. CASE pc[c] = "accept"
      <3>1. Write(c) /\ c \in Acceptors /\ stage[c] = "update"
        BY <1>1, <2>1, <2>6, UpdateMoves DEF WinnerInv
      <3>2. CASE doc' # doc
        <4>1. doc = Pending /\ doc' = Accepted /\ driver' = c
          BY <2>5, <2>6, <3>1, <3>2 DEF Write, Admits, Target, At, Written
        <4>2. \A d \in Acceptors : ~Won(d)
          BY <1>1, <4>1 DEF WinnerInv
        <4>3. \A d \in Acceptors : d # c => ~Won(d)'
          BY <1>1, <2>1, <2>4, <4>2 DEF Won, WinnerInv
        <4>4. pc'[c] \in {"idle", "dropL2"}
          BY <1>1, <3>1 DEF Write, Goto, Return, Typed, CallTypes
        <4>5. QED
          BY <1>1, <2>1, <2>3, <2>4, <3>1, <4>1, <4>3, <4>4
             DEF WinnerInv, Announced, Versions, Pending, Accepted
      <3>3. CASE doc' = doc
        <4>1. doc # Pending \/ pc'[c] # "dropL2"
          BY <1>1, <2>6, <3>1, <3>3 DEF Write, Goto, Return, Typed, CallTypes, Target, At, Pending, Accepted
        <4>2. pc'[c] = "idle" /\ outcome'[c] = "failed"
          BY <1>1, <2>6, <3>1, <3>3, <4>1 DEF Write, Goto, Return, Typed, CallTypes, Admits, At
        <4>3. driver' = driver
          BY <2>5, <3>3, <4>2 DEF Written, At
        <4>4. \A d \in Acceptors : Won(d)' => driver' = d
          BY <1>1, <2>1, <2>4, <3>1, <4>2, <4>3 DEF WinnerInv, Won
        <4>5. QED
          BY <1>1, <2>1, <2>3, <2>4, <3>1, <3>3, <4>2, <4>3, <4>4 DEF WinnerInv, Announced
      <3>4. QED
        BY <3>2, <3>3
    <2>7. CASE pc[c] = "pay"
      <3>1. Write(c) /\ c \notin Acceptors /\ driver' = driver
        BY <1>1, <2>1, <2>5, <2>7, UpdateMoves DEF WinnerInv, Written, At
      <3>2. doc # Pending
        BY <1>1, <2>7 DEF WinnerInv, Announced, Won
      <3>3. doc' \in {doc, Paid}
        BY <2>7, <3>1 DEF Write, Target, At
      <3>4. \A d \in Acceptors : Won(d)' => driver' = d
        BY <1>1, <2>1, <2>4, <3>1 DEF WinnerInv, Won
      <3>5. QED
        BY <1>1, <2>1, <2>3, <2>4, <3>1, <3>2, <3>3, <3>4 DEF WinnerInv, Announced, Versions, Paid, Pending
    <2>8. CASE pc[c] \notin {"accept", "pay"}
      <3>1. ~Write(c) /\ pc'[c] # "dropL2"
        BY <1>1, <2>1, <2>8, UpdateMoves
      <3>2. doc' = doc /\ driver' = driver
        BY <2>1, <2>2, <2>5, <2>8, <3>1, OnlyWritersWrite DEF Written, At
      <3>3. pc'[c] = "dropL1" => pc[c] = "dropL2"
        BY <1>1, <2>1, UpdateMoves DEF DropL2, At
      <3>4. pc[c] = "dropL2" => pc'[c] = "dropL1"
        BY <1>1, <2>1, UpdateMoves DEF DropL2, Goto, Typed, CallTypes
      <3>5. pc[c] = "dropL1" => pc'[c] = "idle"
        BY <1>1, <2>1, UpdateMoves DEF DropL1, Return, Goto, Typed, CallTypes
      <3>6. \A d \in Acceptors : Won(d)' => driver' = d
        BY <1>1, <2>1, <2>4, <2>8, <3>1, <3>2, <3>3 DEF WinnerInv, Won
      <3>7. QED
        BY <1>1, <2>1, <2>3, <2>4, <2>8, <3>1, <3>2, <3>3, <3>4, <3>5, <3>6 DEF WinnerInv, Announced
    <2>9. QED
      BY <2>6, <2>7, <2>8
  <1>6. CASE (\E r \in Replicas : Ages(r)) \/ (ExpireL2 /\ UNCHANGED acceptVars)
    BY <1>2, <1>6, AmbientFrame DEF Ambient, Ages, acceptVars, callVars
  <1>7. QED
    BY <1>2, <1>3, <1>4, <1>5, <1>6 DEF AcceptNext, vars, cacheVars, storeVars, callVars, acceptVars

\* One acceptor at most is past its update, and it is the document's driver;
\* nothing is announced before that (driver_consumer.go:222-233).
THEOREM WinnerInvariance == AcceptSpec => []WinnerInv
  <1>1. AcceptInit => WinnerInv
    BY AcceptorsAssumption DEF AcceptInit, Stores, WinnerInv, Won, Announced, Stages, Versions
  <1>2. QED
    BY <1>1, WinnerStep, AcceptCacheInvariance, PTL DEF AcceptSpec

\* The names of the versions differ.
LEMMA StatusNames ==
  StatusOf[Pending] = "pending" /\ StatusOf[Accepted] = "accepted" /\ StatusOf[Paid] = "payed"
  BY DEF StatusOf, Versions, Pending, Accepted, Paid

\* Who is announced, as TripLifecycle counts it.
Payments == [c \in Acceptors |-> IF Announced(c) THEN 1 ELSE 0]
Trip == [status |-> StatusOf[doc], driver |-> driver]

\* A step of a handler announces its own driver, or means nothing to the trip.
LEMMA HandlerRefines ==
  ASSUME CacheInv, WinnerInv, NEW c \in Acceptors, Handler(c)
  PROVE  Lifecycle!Next \/ UNCHANGED <<Trip, Payments>>
  <1>1. stage \in [Acceptors -> Stages] /\ Typed
        /\ (stage[c] \in {"start", "waiting"} => pc[c] = "idle")
    BY DEF WinnerInv, CacheInv
  <1>2. PICK s \in Stages : Handled(c, s)
    BY <1>1, HandlerMoves
  <1>3. UNCHANGED Trip
    BY <1>2 DEF Handled, Trip
  <1>4. CASE s # "announced"
    <2>1. \A d \in Acceptors : Announced(d)' <=> Announced(d)
      BY <1>1, <1>2, <1>4 DEF Handled, Announced
    <2>2. QED
      BY <1>3, <2>1 DEF Payments
  <1>5. CASE s = "announced"
    <2>1. driver = c /\ doc \in {Accepted, Paid} /\ ~Announced(c)
      BY <1>2, <1>5, CacheAssumption, AcceptorsAssumption
         DEF Handled, WinnerInv, Won, Announced, Versions
    <2>2. Trip.status # "pending" /\ Trip.driver = c
      BY <2>1, StatusNames DEF Trip
    <2>3. Payments[c] = 0
      BY <2>1 DEF Payments
    <2>4. Payments' = [Payments EXCEPT ![c] = 1]
      BY <1>1, <1>2, <1>5 DEF Payments, Handled, Announced
    <2>5. Lifecycle!RequestPayment
      BY <1>3, <2>2, <2>3, <2>4 DEF Lifecycle!RequestPayment, Trip, Payments
    <2>6. QED
      BY <2>5 DEF Lifecycle!Next
  <1>6. QED
    BY <1>4, <1>5

\* A step inside a call assigns or pays by its write to MongoDB.
LEMMA InsideRefines ==
  ASSUME CacheInv, WinnerInv, WinnerInv', NEW c \in Callers, Inside(c)
  PROVE  Lifecycle!Next \/ UNCHANGED <<Trip, Payments>>
  <1>1. CallStep(c) /\ Typed /\ UNCHANGED Payments
    BY DEF Inside, CallStep, CacheInv, Payments, Announced
  <1>2. CASE pc[c] = "accept" /\ doc' # doc
    <2>1. c \in Acceptors /\ Write(c)
      BY <1>1, <1>2, UpdateMoves DEF WinnerInv
    <2>2. doc = Pending /\ doc' = Accepted /\ driver' = c
      BY <1>2, <2>1 DEF Inside, Write, Admits, Target, At, Written
    <2>3. Lifecycle!Assign(c)
      BY <1>1, <2>2, StatusNames DEF Lifecycle!Assign, Payments
    <2>4. QED
      BY <2>1, <2>3 DEF Lifecycle!Next
  <1>3. CASE pc[c] = "pay" /\ doc' # doc
    <2>1. Write(c) /\ driver' = driver /\ \E a \in Acceptors : Announced(a)
      BY <1>1, <1>3, UpdateMoves DEF WinnerInv, Inside, Written, At
    <2>2. doc' = Paid
      BY <1>3, <2>1 DEF Write, Target, At
    <2>3. \E a \in Acceptors : Payments[a] = 1
      BY <2>1 DEF Payments
    <2>4. Trip' = [Trip EXCEPT !.status = "payed"]
      BY <2>1, <2>2, StatusNames DEF Trip
    <2>5. Lifecycle!Settle
      BY <1>1, <2>3, <2>4 DEF Lifecycle!Settle, Payments, Trip
    <2>6. QED
      BY <2>5 DEF Lifecycle!Next
  <1>4. CASE pc[c] \notin {"accept", "pay"} \/ doc' = doc
    <2>1. doc' = doc
      <3> SUFFICES ASSUME pc[c] \notin {"accept", "pay"} PROVE doc' = doc
        BY <1>4
      <3>1. ~Write(c)
        BY <1>1, UpdateMoves
      <3>2. ~BeginCreate(c)
        BY DEF BeginCreate, Begin, At, WinnerInv, Nothing, Versions, Pending, Accepted, Paid
      <3>3. QED
        BY <1>1, <3>1, <3>2, OnlyWritersWrite
    <2>2. driver' = driver
      <3>1. CASE ~Written(c)
        BY <3>1 DEF Inside
      <3>2. CASE Written(c)
        <4>1. pc[c] = "accept" /\ pc'[c] = "dropL2" /\ driver' = c
          BY <2>1, <3>2 DEF Inside, Written, At
        <4>2. c \in Acceptors /\ Write(c)
          BY <1>1, <4>1, UpdateMoves DEF WinnerInv
        <4>3. doc' = Accepted /\ doc = Pending
          BY <1>1, <4>1, <4>2 DEF Write, Admits, Target, At, Return, Goto, Typed, CallTypes
        <4>4. Pending # Accepted
          BY DEF Pending, Accepted
        <4>5. QED
          BY <2>1, <4>3, <4>4
      <3>3. QED
        BY <3>1, <3>2
    <2>3. QED
      BY <1>1, <2>1, <2>2 DEF Trip
  <1>5. QED
    BY <1>2, <1>3, <1>4

\* However stale the caches are and whatever calls fail, the trip has the
\* life TripLifecycle promises.
THEOREM CachesKeepLifecycle == AcceptSpec => RefinesLifecycle
  <1>1. AcceptInit => Lifecycle!Init
    BY StatusNames DEF AcceptInit, Stores, Announced, Lifecycle!Init, Lifecycle!Pending
  <1>2. CacheInv /\ WinnerInv /\ WinnerInv' /\ [AcceptNext]_vars => [Lifecycle!Next]_(Lifecycle!vars)
    <2> SUFFICES ASSUME CacheInv, WinnerInv, WinnerInv', [AcceptNext]_vars
                 PROVE  Lifecycle!Next \/ UNCHANGED <<Trip, Payments>>
      BY DEF Lifecycle!vars, Trip, Payments
    <2>1. CASE UNCHANGED <<doc, driver, stage>>
      BY <2>1 DEF Trip, Payments, Announced
    <2>2. ASSUME NEW c \in Callers \ Acceptors, Other(c) PROVE UNCHANGED <<doc, driver, stage>>
      BY <2>2 DEF Other, acceptVars, BeginGet, BeginPay, BeginUpdate, storeVars
    <2>3. CASE (\E r \in Replicas : Ages(r)) \/ (ExpireL2 /\ UNCHANGED acceptVars)
      BY <2>1, <2>3, AmbientFrame DEF Ambient, Ages, acceptVars
    <2>4. QED
      BY <2>1, <2>2, <2>3, HandlerRefines, InsideRefines
         DEF AcceptNext, vars, cacheVars, storeVars, acceptVars
  <1>3. QED
    BY <1>1, <1>2, AcceptCacheInvariance, WinnerInvariance, PTL
       DEF AcceptSpec, RefinesLifecycle, Lifecycle!Spec

-----------------------------------------------------------------------------
(***************************************************************************)
(* What stale reads may cost.  The version before the update, Pending, can *)
(* be read after it only as long as some cache or some caller on its way   *)
(* to a cache still has it.  Once a replica is rid of it, it never comes   *)
(* back there; UpdateTrip gets its own replica rid of it unless a fill     *)
(* crosses it, and WithBackoff's last pause gets every replica rid of it.  *)
(***************************************************************************)

\* Nothing on replica r, nor on the way to it, has the version before the
\* update.
RidOfPending(r) ==
  /\ doc \in {Accepted, Paid} /\ l2 # Pending /\ l1[r] # Pending
  /\ \A i \in DOMAIN buffer[r] : buffer[r][i] # Pending
  /\ \A c \in Callers :
       pc[c] \in {"feed", "storeL2"} \/ (pc[c] \in {"fillL1", "storeL1"} /\ HomeOf[c] = r)
         => got[c] # Pending

\* Neither Redis nor a leader with Redis before it has that version.
Gone ==
  /\ doc \in {Accepted, Paid} /\ l2 # Pending
  /\ \A c \in Callers : pc[c] \in {"feed", "storeL2"} => got[c] # Pending

\* While c pauses, no replica is given that version but by those who had it
\* when the pause began.
Paused(c) ==
  /\ Gone /\ got[c] # Pending
  /\ \A d \in Callers : HasForL1(d) /\ d \notin inHand[c] => got[d] # Pending
  /\ \A r \in Replicas : <<r, Pending>> \notin stored[c]

\* What c reads from now on, and what it has been answered, is not Pending.
ReadsOn(c) == RidOfPending(HomeOf[c]) /\ (pc[c] = "idle" => got[c] # Pending)

HandlerTypes ==
  /\ attempt \in [Acceptors -> 1..MaxAttempts]
  /\ announced \in [Acceptors -> Answered]
  /\ inHand \in [Acceptors -> SUBSET Callers]
  /\ stored \in [Acceptors -> SUBSET (Replicas \X Answered)]
  /\ \A c \in Acceptors : stage[c] = "waiting" => LastPause(c)
  /\ bloom = Positions

\* The lock is with the handler that is at work.
HeldLock == \A c \in Acceptors : stage[c] \in {"guard", "update", "again"} => lock = c

\* Redis has Pending after the update only until the acceptor's DEL.
OldInRedis ==
  ~tainted /\ l2 = Pending /\ doc # Pending => \E c \in Acceptors : pc[c] = "dropL2"

\* Without a failed call a read finds the trip, and an update that fails met
\* a trip that was taken.
Answers ==
  \A c \in Acceptors : pc[c] = "idle" =>
    /\ fails = 0 /\ stage[c] \in {"guard", "again"} => outcome[c] = "found"
    /\ stage[c] = "update" /\ outcome[c] # "found" =>
         got[c] # Pending /\ (fails = 0 => doc # Pending)

\* Past its own update, an acceptor reads no Pending unless a fill crossed it.
OwnUpdateRead ==
  ~tainted => \A c \in Acceptors :
    /\ \/ stage[c] \in {"again", "announced"}
       \/ stage[c] = "update" /\ pc[c] = "idle" /\ outcome[c] = "found"
       => c \in crossed \/ ReadsOn(c)
    /\ announced[c] = Pending => c \in crossed

\* Neither, in its last run, does an acceptor that came too late.
LateRuns ==
  ~tainted /\ fails = 0 => \A c \in Acceptors :
    /\ stage[c] # "dead"
    /\ stage[c] = "waiting" => Paused(c)
    /\ attempt[c] = MaxAttempts => ReadsOn(c) /\ stage[c] \in {"start", "guard", "skipped"}

CostInv == HandlerTypes /\ HeldLock /\ OldInRedis /\ Answers /\ OwnUpdateRead /\ LateRuns

\* The invariant says what stale reads may cost.
LEMMA CostInvImplies == CostInv => CostOfStaleReads
  BY DEF CostInv, OwnUpdateRead, LateRuns, CostOfStaleReads

\* A step leaves the version in Redis, removes it, or puts there what a
\* leader has in hand.
LEMMA RedisMoves ==
  ASSUME [CacheStep]_cacheVars
  PROVE  \/ l2' \in {l2, Nothing}
         \/ \E c \in Callers : pc[c] = "storeL2" /\ l2' = got[c]
  <1>1. ASSUME NEW c \in Callers, StoreL2(c)
        PROVE  l2' = l2 \/ (pc[c] = "storeL2" /\ l2' = got[c])
    BY <1>1 DEF StoreL2, At
  <1>2. ASSUME NEW c \in Callers, DropL2(c) PROVE l2' \in {l2, Nothing}
    BY <1>2 DEF DropL2
  <1>3. ASSUME NEW c \in Callers, CallStep(c), ~StoreL2(c), ~DropL2(c) PROVE l2' = l2
    BY <1>3 DEF CallStep, Proceed, BeginGet, BeginAccept, BeginPay, BeginUpdate, BeginCreate,
                AskBloom, ReadL2, FillL1, Join, Check, Read, Feed, StoreL1, Write, DropL1, Index, storeVars
  <1>4. CASE Ambient
    BY <1>4 DEF Ambient, AddOther, ExpireL2, Apply, ExpireL1
  <1>5. QED
    BY <1>1, <1>2, <1>3, <1>4, StepCases DEF cacheVars, storeVars

\* A replica that is rid of Pending gets no such entry, neither at once nor
\* by way of its buffer.
LEMMA LocalRid ==
  ASSUME Typed, [CacheStep]_cacheVars, NEW r \in Replicas, RidOfPending(r)
  PROVE  l1'[r] # Pending /\ \A i \in DOMAIN buffer'[r] : buffer'[r][i] # Pending
  <1>1. l1[r] # Pending /\ \A i \in DOMAIN buffer[r] : buffer[r][i] # Pending
    BY DEF RidOfPending
  <1>2. /\ buffer[r] \in Seq(Answered)
        /\ r \in DOMAIN l1 /\ r \in DOMAIN buffer
    BY DEF Typed, StoreTypes
  <1>3. \A v \in Answered : v # Pending =>
          \A i \in DOMAIN Append(buffer[r], v) : Append(buffer[r], v)[i] # Pending
    BY <1>1, <1>2
  <1>4. Nothing # Pending /\ Nothing \in Answered
    BY DEF Nothing, Pending, Answered
  <1>5. ASSUME NEW c \in Callers, HomeOf[c] # r, SetLocal(c, got[c]) \/ DelLocal(c)
        PROVE  l1'[r] = l1[r] /\ buffer'[r] = buffer[r]
    BY <1>2, <1>5 DEF SetLocal, DelLocal, Buffer
  <1>6. ASSUME NEW c \in Callers, FillL1(c) \/ StoreL1(c), HomeOf[c] = r
        PROVE  l1'[r] # Pending /\ \A i \in DOMAIN buffer'[r] : buffer'[r][i] # Pending
    <2>1. got[c] # Pending /\ got[c] \in Answered /\ SetLocal(c, got[c])
      BY <1>6 DEF FillL1, StoreL1, At, RidOfPending, Typed, CallTypes
    <2>2. l1'[r] \in {l1[r], got[c]} /\ buffer'[r] \in {buffer[r], Append(buffer[r], got[c])}
      BY <1>2, <1>6, <2>1 DEF SetLocal, Buffer
    <2>3. QED
      BY <1>1, <1>3, <2>1, <2>2
  <1>7. ASSUME NEW c \in Callers, DropL1(c), HomeOf[c] = r
        PROVE  l1'[r] # Pending /\ \A i \in DOMAIN buffer'[r] : buffer'[r][i] # Pending
    <2>1. l1'[r] = Nothing /\ buffer'[r] \in {buffer[r], Append(buffer[r], Nothing)}
      BY <1>2, <1>7 DEF DropL1, DelLocal, Buffer
    <2>2. QED
      BY <1>1, <1>3, <1>4, <2>1
  <1>8. ASSUME NEW c \in Callers, CallStep(c), ~FillL1(c), ~StoreL1(c), ~DropL1(c)
        PROVE  UNCHANGED <<l1, buffer>>
    BY <1>8 DEF CallStep, Proceed, BeginGet, BeginAccept, BeginPay, BeginUpdate, BeginCreate,
                AskBloom, ReadL2, Join, Check, Read, Feed, StoreL2, Write, DropL2, Index, storeVars
  <1>9. CASE \E c \in Callers : CallStep(c)
    <2>1. PICK c \in Callers : CallStep(c)
      BY <1>9
    <2>2. CASE FillL1(c) \/ StoreL1(c) \/ DropL1(c)
      <3>1. SetLocal(c, got[c]) \/ DelLocal(c)
        BY <2>2 DEF FillL1, StoreL1, DropL1
      <3>2. QED
        BY <1>1, <1>5, <1>6, <1>7, <2>2, <3>1
    <2>3. QED
      BY <1>1, <1>8, <2>1, <2>2
  <1>10. CASE \E q \in Replicas : Apply(q) \/ ExpireL1(q)
    <2>1. PICK q \in Replicas : Apply(q) \/ ExpireL1(q)
      BY <1>10
    <2>2. CASE q # r
      BY <1>1, <1>2, <2>1, <2>2 DEF Apply, ExpireL1
    <2>3. CASE q = r /\ Apply(q)
      <3>1. buffer[r] # <<>> /\ buffer'[r] = Tail(buffer[r]) /\ l1'[r] \in {l1[r], Head(buffer[r])}
        BY <1>2, <2>3 DEF Apply
      <3>2. Head(buffer[r]) # Pending
        BY <1>1, <1>2, <3>1
      <3>3. \A i \in DOMAIN Tail(buffer[r]) : Tail(buffer[r])[i] = buffer[r][i + 1]
                                               /\ i + 1 \in DOMAIN buffer[r]
        BY <1>2, <3>1
      <3>4. QED
        BY <1>1, <3>1, <3>2, <3>3
    <2>4. CASE q = r /\ ExpireL1(q)
      BY <1>1, <1>2, <1>4, <2>4 DEF ExpireL1
    <2>5. QED
      BY <2>1, <2>2, <2>3, <2>4
  <1>11. CASE AddOther \/ ExpireL2 \/ UNCHANGED cacheVars
    BY <1>1, <1>11 DEF AddOther, ExpireL2, cacheVars, storeVars
  <1>12. QED
    BY <1>9, <1>10, <1>11, StepCases DEF Ambient

\* Who comes to have a version for a cache has it from MongoDB or Redis.
LEMMA GoneHands ==
  ASSUME Typed, Gone, NEW c \in Callers, CallStep(c),
         pc'[c] \in {"feed", "storeL2", "fillL1", "storeL1"}
  PROVE  got'[c] # Pending
  <1>1. got'[c] \in {doc, l2} \/ (pc[c] \in {"feed", "storeL2"} /\ got'[c] = got[c])
    BY OwnStep
  <1>2. QED
    BY <1>1 DEF Gone, Accepted, Paid, Pending

\* Pending does not come back to Redis.
LEMMA GoneStays ==
  ASSUME Typed, [CacheStep]_cacheVars, Gone
  PROVE  Gone'
  <1>1. doc' \in {Accepted, Paid}
    <2>1. doc' \in Answered
      BY TypedStep DEF Typed, StoreTypes
    <2>2. doc <= doc'
      BY DocGrows
    <2>3. QED
      BY <2>1, <2>2 DEF Gone, Answered, Versions, Nothing, Pending, Accepted, Paid
  <1>2. l2' # Pending
    <2>1. \A c \in Callers : pc[c] = "storeL2" => got[c] # Pending
      BY DEF Gone
    <2>2. QED
      BY <2>1, RedisMoves DEF Gone, Nothing, Pending
  <1>3. ASSUME NEW d \in Callers, pc'[d] \in {"feed", "storeL2"} PROVE got'[d] # Pending
    <2>1. CASE pc'[d] = pc[d] /\ got'[d] = got[d]
      BY <1>3, <2>1 DEF Gone
    <2>2. ASSUME NEW c \in Callers, CallStep(c) PROVE got'[d] # Pending
      <3>1. CASE d # c
        BY <1>3, <2>1, <2>2, <3>1, OthersFrame
      <3>2. QED
        BY <1>3, <2>2, <3>1, GoneHands
    <2>3. QED
      BY <2>1, <2>2, StepCases, AmbientFrame DEF cacheVars, callVars
  <1>4. QED
    BY <1>1, <1>2, <1>3 DEF Gone

\* Once rid of Pending, a replica stays rid of it.
LEMMA RidStays ==
  ASSUME Typed, [CacheStep]_cacheVars, NEW r \in Replicas, RidOfPending(r)
  PROVE  RidOfPending(r)'
  <1>1. Gone /\ Gone'
    <2>1. Gone
      BY DEF RidOfPending, Gone
    <2>2. QED
      BY <2>1, GoneStays
  <1>2. ASSUME NEW d \in Callers, pc'[d] \in {"fillL1", "storeL1"}, HomeOf[d] = r
        PROVE  got'[d] # Pending
    <2>1. CASE pc'[d] = pc[d] /\ got'[d] = got[d]
      BY <1>2, <2>1 DEF RidOfPending
    <2>2. ASSUME NEW c \in Callers, CallStep(c) PROVE got'[d] # Pending
      <3>1. CASE d # c
        BY <1>2, <2>1, <2>2, <3>1, OthersFrame
      <3>2. QED
        BY <1>1, <1>2, <2>2, <3>1, GoneHands
    <2>3. QED
      BY <2>1, <2>2, StepCases, AmbientFrame DEF cacheVars, callVars
  <1>3. QED
    BY <1>1, <1>2, LocalRid DEF RidOfPending, Gone

\* A leader's landing wakes callers of its own replica only.
LEMMA WokenBy ==
  ASSUME Typed, NEW c \in Callers, NEW d \in Callers, d # c, CallStep(c),
         pc[d] = "wait", pc'[d] = "idle"
  PROVE  /\ HomeOf[d] = HomeOf[c]
         /\ \E how, v : /\ Land(c, how, v) /\ got'[d] = v /\ outcome'[d] = how
                        /\ \/ how = "found" /\ v = l2
                           \/ how = "found" /\ v = got[c] /\ pc[c] = "storeL1"
                           \/ how = "failed" /\ v = Nothing /\ (doc = Nothing \/ CallFails)
  <1>1. ~Walking(c)
    BY WalkingMoves DEF Typed, CallTypes
  <1>2. ~Join(c)
    BY DEF Join, Goto, Typed, CallTypes
  <1>3. Check(c) \/ Read(c) \/ StoreL1(c)
    BY <1>1, <1>2, CallerSteps DEF CallStep, Landing
  <1>4. \A l : ~Goto(c, l)
    BY DEF Goto, Typed, CallTypes
  <1>5. \E how, v : /\ Land(c, how, v)
                    /\ \/ how = "found" /\ v = l2
                       \/ how = "found" /\ v = got[c] /\ pc[c] = "storeL1"
                       \/ how = "failed" /\ v = Nothing /\ (doc = Nothing \/ CallFails)
    BY <1>3, <1>4 DEF Check, Read, StoreL1, At
  <1>6. ASSUME NEW how, NEW v, Land(c, how, v)
        PROVE  HomeOf[d] = HomeOf[c] /\ got'[d] = v /\ outcome'[d] = how
    <2>1. d \in Woken(c)
      BY <1>6 DEF Land
    <2>2. QED
      BY <1>6, <2>1 DEF Land, Woken
  <1>7. QED
    BY <1>3, <1>5, <1>6

\* An answer that comes to a replica rid of Pending is another version.
LEMMA AnswerRid ==
  ASSUME Typed, WinnerInv, NEW d \in Callers, RidOfPending(HomeOf[d]),
         NEW c \in Callers, CallStep(c), pc'[d] = "idle"
  PROVE  got'[d] # Pending \/ (pc[d] = "idle" /\ got'[d] = got[d])
  <1>1. doc \in {Accepted, Paid} /\ l2 # Pending /\ l1[HomeOf[d]] # Pending
    BY DEF RidOfPending
  <1>2. doc # Pending /\ Nothing # Pending /\ doc # Nothing
    BY <1>1 DEF Accepted, Paid, Pending, Nothing
  <1>3. CASE d = c
    <2> USE DEF Return, Carry, Goto, At
    <2>1. d \in DOMAIN pc /\ d \in DOMAIN got /\ pc[d] # "index"
      BY DEF Typed, CallTypes, WinnerInv
    <2>2. CASE BeginGet(d) \/ BeginAccept(d) \/ BeginPay(d) \/ BeginCreate(d)
      BY <1>1, <1>2, <2>1, <2>2 DEF BeginGet, BeginAccept, BeginPay, BeginCreate, BeginUpdate, Begin, Local
    <2>3. CASE AskBloom(d) \/ ReadL2(d) \/ Join(d) \/ Feed(d) \/ StoreL2(d) \/ DropL2(d) \/ Index(d)
      BY <1>2, <2>1, <2>3 DEF AskBloom, ReadL2, Join, Feed, StoreL2, DropL2, Index
    <2>4. CASE FillL1(d) \/ StoreL1(d)
      <3>1. got[d] # Pending
        BY <2>4 DEF FillL1, StoreL1, RidOfPending
      <3>2. d \in Woken(d)
        BY DEF Woken
      <3>3. QED
        BY <2>1, <2>4, <3>1, <3>2 DEF FillL1, StoreL1, Land
    <2>5. CASE Check(d) \/ Read(d)
      <3>1. d \in Woken(d)
        BY DEF Woken
      <3>2. QED
        BY <1>1, <1>2, <2>1, <2>5, <3>1, <1>3 DEF Check, Read, Land
    <2>6. CASE Write(d) \/ DropL1(d)
      BY <1>2, <2>1, <2>6 DEF Write, DropL1
    <2>7. QED
      BY <1>3, <2>2, <2>3, <2>4, <2>5, <2>6 DEF CallStep, Proceed
  <1>4. CASE d # c
    <2>1. CASE pc'[d] = pc[d] /\ got'[d] = got[d]
      BY <2>1
    <2>2. CASE pc[d] = "wait"
      <3>1. got[c] # Pending \/ pc[c] # "storeL1" \/ HomeOf[d] # HomeOf[c]
        BY DEF RidOfPending
      <3>2. QED
        BY <1>1, <1>2, <1>4, <2>2, <3>1, WokenBy
    <2>3. QED
      BY <1>4, <2>1, <2>2, OthersFrame
  <1>5. QED
    BY <1>3, <1>4

\* What a caller reads and was answered stays another version.
LEMMA ReadsOnStays ==
  ASSUME Typed, WinnerInv, NEW d \in Callers, ReadsOn(d), [CacheStep]_cacheVars
  PROVE  ReadsOn(d)'
  <1>1. HomeOf[d] \in Replicas
    BY CacheAssumption
  <1>2. RidOfPending(HomeOf[d])'
    BY <1>1, RidStays DEF ReadsOn
  <1>3. CASE UNCHANGED <<pc, got>>
    BY <1>2, <1>3 DEF ReadsOn
  <1>4. ASSUME NEW c \in Callers, CallStep(c) PROVE ReadsOn(d)'
    BY <1>2, <1>4, AnswerRid DEF ReadsOn
  <1>5. QED
    BY <1>3, <1>4, StepCases, AmbientFrame DEF cacheVars, callVars

\* Failed calls are only added, so none has failed before none has now.
LEMMA NoneFailed ==
  ASSUME Typed, [CacheStep]_cacheVars, fails' = 0
  PROVE  fails = 0 /\ ~CallFails
  <1>1. fails \in Nat
    BY CacheAssumption DEF Typed, CallTypes
  <1>2. ASSUME NEW c \in Callers, CallStep(c) PROVE CallFails \/ fails' = fails
    BY <1>2 DEF CallStep, Proceed, BeginGet, BeginAccept, BeginPay, BeginUpdate, BeginCreate, AskBloom,
                ReadL2, FillL1, Join, Check, Read, Feed, StoreL2, StoreL1, Write, DropL2, DropL1, Index,
                BloomAdd, Smooth
  <1>3. CallFails \/ fails' = fails
    BY <1>2, StepCases, AmbientFrame DEF cacheVars
  <1>4. QED
    BY <1>1, <1>3 DEF CallFails

\* Where calls do not fail, a read of a trip that is there finds it.
LEMMA ReadFinds ==
  ASSUME Typed, WinnerInv, bloom = Positions, ~CallFails, NEW c \in Callers, CallStep(c),
         NEW d \in Callers, pc[d] \notin {"idle", "accept", "pay", "dropL2", "dropL1"}, pc'[d] = "idle"
  PROVE  outcome'[d] = "found"
  <1>1. doc # Nothing /\ d \in DOMAIN pc /\ d \in DOMAIN outcome /\ pc[d] # "index"
    BY DEF WinnerInv, Typed, CallTypes, Versions, Pending, Accepted, Paid, Nothing
  <1>2. CASE d = c
    <2> USE DEF Return, Goto, At
    <2>1. d \in Woken(d)
      BY DEF Woken
    <2>2. CASE AskBloom(d) \/ ReadL2(d) \/ Join(d) \/ Feed(d) \/ StoreL2(d) \/ FillL1(d)
      BY <1>1, <2>2 DEF AskBloom, BloomExists, ReadL2, Join, Feed, StoreL2, FillL1
    <2>3. CASE Check(d) \/ Read(d) \/ StoreL1(d)
      BY <1>1, <1>2, <2>1, <2>3 DEF Check, Read, StoreL1, Land
    <2>4. QED
      BY <1>1, <1>2, <2>2, <2>3
         DEF CallStep, Proceed, BeginGet, BeginAccept, BeginPay, BeginCreate, BeginUpdate, Begin,
             Write, DropL2, DropL1, Index
  <1>3. CASE d # c
    <2>1. pc[d] = "wait"
      BY <1>3, OthersFrame
    <2>2. QED
      BY <1>1, <1>3, <2>1, WokenBy
  <1>4. QED
    BY <1>2, <1>3

\* Who has the lock is the only acceptor in an update.
LEMMA OneUpdates ==
  ASSUME WinnerInv, HeldLock, NEW c \in Acceptors, stage[c] \in {"guard", "update", "again"},
         NEW e \in Acceptors, pc[e] \in {"accept", "dropL2", "dropL1"}
  PROVE  e = c
  BY DEF WinnerInv, HeldLock

\* Only a write that has its DEL before it makes what is in Redis old.
LEMMA OldStep ==
  ASSUME CacheInv, WinnerInv, OldInRedis, [CacheStep]_cacheVars,
         \A c \in Callers : ~BeginCreate(c)
  PROVE  OldInRedis'
  <1> SUFFICES ASSUME ~tainted', l2' = Pending, doc' # Pending
               PROVE  \E c \in Acceptors : pc'[c] = "dropL2"
    BY DEF OldInRedis
  <1>1. ~tainted /\ Typed
    BY TaintStays DEF CacheInv
  <1>2. CASE doc = Pending
    <2>1. PICK c \in Callers : Write(c)
      BY <1>2, DocWriters
    <2>2. pc[c] # "pay"
      BY <1>2, AcceptorsAssumption, CacheAssumption DEF WinnerInv, Announced, Won
    <2>3. pc[c] = "accept" /\ c \in Acceptors
      BY <2>1, <2>2 DEF Write, WinnerInv
    <2>4. pc'[c] = "dropL2"
      BY <1>1, <1>2, <2>1 DEF Write, Goto, Typed, CallTypes
    <2>5. QED
      BY <2>3, <2>4
  <1>3. CASE doc # Pending /\ l2 = Pending
    <2>1. PICK c \in Acceptors : pc[c] = "dropL2"
      BY <1>1, <1>3 DEF OldInRedis
    <2>2. QED
      BY <1>1, <2>1, DropLeaves, AcceptorsAssumption DEF Nothing, Pending
  <1>4. CASE doc # Pending /\ l2 # Pending
    <2>1. PICK c \in Callers : pc[c] = "storeL2" /\ got[c] = Pending
      BY <1>4, RedisMoves DEF Nothing, Pending
    <2>2. QED
      BY <1>1, <1>4, <2>1 DEF CacheInv, FreshFills
  <1>5. QED
    BY <1>2, <1>3, <1>4

\* The acceptor's Del gets its replica rid of Pending, unless it was crossed.
LEMMA DropRids ==
  ASSUME CacheInv, WinnerInv, HeldLock, OldInRedis, NEW d \in Acceptors, DropL1(d), ~tainted, ~Crossed(d)
  PROVE  ReadsOn(d)'
  <1>1. d \in Callers /\ HomeOf[d] \in Replicas /\ Typed /\ pc[d] = "dropL1"
    BY AcceptorsAssumption, CacheAssumption DEF CacheInv, DropL1, At
  <1>2. doc \in {Accepted, Paid}
    <2>1. driver = d
      BY <1>1 DEF WinnerInv, Won
    <2>2. QED
      BY <1>1, <2>1, CacheAssumption DEF WinnerInv, Versions
  <1>3. l2 # Pending
    <2>1. stage[d] = "update"
      BY <1>1 DEF WinnerInv
    <2>2. \A e \in Acceptors : pc[e] # "dropL2"
      BY <1>1, <2>1, OneUpdates
    <2>3. QED
      BY <1>2, <2>2 DEF OldInRedis, Accepted, Paid, Pending
  <1>4. l1'[HomeOf[d]] # Pending /\ buffer'[HomeOf[d]] = <<>>
    BY <1>1 DEF DropL1, DelLocal, Crossed, At, Typed, StoreTypes, Nothing, Pending
  <1>5. UNCHANGED <<doc, l2>> /\ pc'[d] = "idle" /\ got'[d] = doc
    BY <1>1 DEF DropL1, Return, Goto, Carry, Typed, CallTypes
  <1>6. ASSUME NEW e \in Callers,
               pc'[e] \in {"feed", "storeL2"} \/ (pc'[e] \in {"fillL1", "storeL1"} /\ HomeOf[e] = HomeOf[d])
        PROVE  got'[e] # Pending
    <2>1. e # d /\ pc'[e] = pc[e] /\ got'[e] = got[e] /\ got[e] \in Answered
      BY <1>1, <1>5, <1>6 DEF DropL1, Return, Goto, Carry, Typed, CallTypes
    <2>2. CASE pc[e] \in {"feed", "storeL2"}
      BY <1>2, <2>1, <2>2 DEF CacheInv, FreshFills, Accepted, Paid, Pending
    <2>3. CASE pc[e] \in {"fillL1", "storeL1"} /\ HomeOf[e] = HomeOf[d]
      <3>1. ~(got[e] < doc)
        BY <1>1, <2>3 DEF Crossed, HasForL1, At
      <3>2. QED
        BY <1>2, <2>1, <3>1 DEF Accepted, Paid, Pending
    <2>4. QED
      BY <1>6, <2>1, <2>2, <2>3
  <1>7. \A i \in DOMAIN buffer'[HomeOf[d]] : buffer'[HomeOf[d]][i] # Pending
    BY <1>4
  <1>8. RidOfPending(HomeOf[d])'
    BY <1>2, <1>3, <1>4, <1>5, <1>6, <1>7 DEF RidOfPending
  <1>9. QED
    BY <1>2, <1>5, <1>8 DEF ReadsOn, Accepted, Paid, Pending

\* Who leaves those that have a version for L1 has taken a step, and what is
\* noted as stored was stored by others.
Watches(c) ==
  /\ inHand'[c] \subseteq inHand[c]
  /\ \A d \in inHand[c] \ inHand'[c] : CallStep(d)
  /\ \A x \in stored'[c] : \/ x \in stored[c]
                             \/ \E d \in Callers : /\ HasForL1(d) /\ d \notin inHand[c]
                                                   /\ x = <<HomeOf[d], got[d]>>

Watched ==
  /\ inHand' \in [Acceptors -> SUBSET Callers]
  /\ stored' \in [Acceptors -> SUBSET (Replicas \X Answered)]
  /\ \A c \in Acceptors : Watches(c)

\* Paused holds until the acceptor wakes.
LEMMA PausedStays ==
  ASSUME Typed, [CacheStep]_cacheVars, NEW c \in Acceptors, Paused(c), Watches(c), got'[c] = got[c]
  PROVE  Paused(c)'
  <1>1. Gone /\ Gone' /\ got'[c] # Pending
    BY GoneStays DEF Paused
  <1>2. ASSUME NEW d \in Callers, HasForL1(d)', d \notin inHand'[c] PROVE got'[d] # Pending
    <2>1. pc'[d] \in {"fillL1", "storeL1"}
      BY <1>2 DEF HasForL1
    <2>2. CASE CallStep(d)
      BY <1>1, <2>1, <2>2, GoneHands
    <2>3. CASE ~CallStep(d)
      <3>1. pc'[d] = pc[d] /\ got'[d] = got[d]
        <4>1. ASSUME NEW e \in Callers, CallStep(e) PROVE pc'[d] = pc[d] /\ got'[d] = got[d]
          BY <2>1, <2>3, <4>1, OthersFrame
        <4>2. QED
          BY <4>1, StepCases, AmbientFrame DEF cacheVars, callVars
      <3>2. HasForL1(d) /\ d \notin inHand[c]
        BY <1>2, <2>1, <2>3, <3>1 DEF HasForL1, Watches
      <3>3. QED
        BY <3>1, <3>2 DEF Paused
    <2>4. QED
      BY <2>2, <2>3
  <1>3. ASSUME NEW r \in Replicas PROVE <<r, Pending>> \notin stored'[c]
    <2>1. \A d \in Callers : HasForL1(d) /\ d \notin inHand[c] => <<HomeOf[d], got[d]>> # <<r, Pending>>
      BY DEF Paused
    <2>2. QED
      BY <2>1 DEF Paused, Watches
  <1>4. QED
    BY <1>1, <1>2, <1>3 DEF Paused

\* Its end leaves the acceptor's replica rid of Pending.
LEMMA WakeRids ==
  ASSUME Typed, NEW c \in Acceptors, Paused(c), Outlasted(c)
  PROVE  ReadsOn(c)
  <1>1. HomeOf[c] \in Replicas /\ inHand[c] = {} /\ <<HomeOf[c], Pending>> \notin stored[c]
    BY AcceptorsAssumption, CacheAssumption DEF Outlasted, Paused
  <1>2. \A v \in {l1[HomeOf[c]]} \cup {buffer[HomeOf[c]][i] : i \in DOMAIN buffer[HomeOf[c]]} : v # Pending
    BY <1>1 DEF Outlasted, Nothing, Pending
  <1>3. \A d \in Callers : pc[d] \in {"fillL1", "storeL1"} => got[d] # Pending
    BY <1>1 DEF Paused, HasForL1
  <1>4. RidOfPending(HomeOf[c])
    BY <1>2, <1>3 DEF RidOfPending, Paused, Gone
  <1>5. QED
    BY <1>4 DEF ReadsOn, Paused

\* No handler acts: its variables stay, and acceptors who have been answered
\* keep the answer.
Quiet ==
  /\ UNCHANGED <<stage, attempt, lock, announced>>
  /\ \A c \in Callers : ~BeginCreate(c)
  /\ \A c \in Acceptors : pc[c] = "idle" => pc'[c] = "idle" /\ got'[c] = got[c] /\ outcome'[c] = outcome[c]
  /\ \A c \in Acceptors : c \in crossed \/ (DropL1(c) /\ Crossed(c)) => c \in crossed'
  /\ Watched

\* The steps inside a call, of other callers and of the environment are quiet.
LEMMA QuietMoves ==
  ASSUME CacheInv, WinnerInv, HandlerTypes, [AcceptNext]_vars, \A c \in Acceptors : ~Handler(c)
  PROVE  Quiet
  <1>1. Typed /\ Acceptors \subseteq Callers
    BY AcceptorsAssumption DEF CacheInv
  <1>2. \A c \in Callers : ~BeginCreate(c)
    BY DEF BeginCreate, WinnerInv, Versions, Nothing, Pending, Accepted, Paid
  <1>3. \A c \in Callers : DropL1(c) => pc[c] = "dropL1" /\ pc'[c] = "idle"
    BY <1>1 DEF DropL1, At, Return, Goto, Typed, CallTypes
  <1>4. ASSUME UNCHANGED acceptVars PROVE Watched
    BY <1>4 DEF Watched, Watches, HandlerTypes, acceptVars, waitVars
  <1>5. CASE UNCHANGED <<pc, got, outcome>> /\ UNCHANGED acceptVars
    BY <1>1, <1>2, <1>3, <1>4, <1>5 DEF Quiet, acceptVars
  <1>6. ASSUME NEW c \in Callers \ Acceptors, Other(c) PROVE Quiet
    <2>1. CallStep(c) /\ UNCHANGED acceptVars /\ pc[c] = "idle"
      BY <1>6 DEF Other, CallStep, BeginGet, BeginPay, BeginUpdate, Begin, At
    <2>2. \A d \in Acceptors : pc[d] \in {"idle", "dropL1"} =>
            pc'[d] = pc[d] /\ got'[d] = got[d] /\ outcome'[d] = outcome[d]
      BY <1>1, <2>1, OthersFrame
    <2>3. QED
      BY <1>1, <1>2, <1>3, <1>4, <2>1, <2>2 DEF Quiet, acceptVars
  <1>7. ASSUME NEW c \in Callers, Inside(c) PROVE Quiet
    <2>1. CallStep(c) /\ pc[c] # "idle" /\ UNCHANGED <<stage, attempt, lock, announced>>
      BY <1>7 DEF Inside, CallStep, Proceed, At, AskBloom, ReadL2, FillL1, Join, Check, Read, Feed,
                  StoreL2, StoreL1, Write, DropL2, DropL1, Index
    <2>2. \A d \in Callers : d # c /\ pc[d] \in {"idle", "dropL1"} =>
            pc'[d] = pc[d] /\ got'[d] = got[d] /\ outcome'[d] = outcome[d]
      BY <2>1, <1>1, OthersFrame
    <2>3. \A d \in Acceptors : DropL1(d) => d = c
      BY <1>1, <1>3, <2>2
    <2>4. \A d \in Acceptors : d \in crossed \/ (DropL1(d) /\ Crossed(d)) => d \in crossed'
      BY <1>7, <2>3 DEF Inside
    <2>5. <<HomeOf[c], got[c]>> \in Replicas \X Answered
      BY <1>1, CacheAssumption DEF Typed, CallTypes
    <2>6. /\ inHand' = [a \in Acceptors |-> inHand[a] \ {c}]
          /\ stored' = [a \in Acceptors |->
               IF stage[a] = "waiting" /\ HasForL1(c) /\ c \notin inHand[a]
               THEN stored[a] \cup {<<HomeOf[c], got[c]>>} ELSE stored[a]]
      BY <1>7 DEF Inside
    <2>7. Watched
      <3>1. ASSUME NEW a \in Acceptors PROVE Watches(a)
        BY <2>1, <2>6 DEF Watches
      <3>2. inHand' \in [Acceptors -> SUBSET Callers]
        BY <2>6 DEF HandlerTypes
      <3>3. stored' \in [Acceptors -> SUBSET (Replicas \X Answered)]
        BY <2>5, <2>6 DEF HandlerTypes
      <3>4. QED
        BY <3>1, <3>2, <3>3 DEF Watched
    <2>8. QED
      BY <1>1, <1>2, <2>1, <2>2, <2>4, <2>7 DEF Quiet
  <1>8. CASE (\E r \in Replicas : Ages(r)) \/ (ExpireL2 /\ UNCHANGED acceptVars)
    BY <1>5, <1>8, AmbientFrame DEF Ambient, Ages, callVars
  <1>9. CASE UNCHANGED vars
    BY <1>5, <1>9 DEF vars, cacheVars, callVars
  <1>10. QED
    BY <1>6, <1>7, <1>8, <1>9 DEF AcceptNext

\* How an acceptor that is in a call gets its answer.
LEMMA QuietAnswer ==
  ASSUME CacheInv, WinnerInv, [CacheStep]_cacheVars,
         NEW c \in Acceptors, pc[c] # "idle", pc'[c] = "idle"
  PROVE  /\ stage[c] = "update" => CallStep(c)
         /\ \E e \in Callers : CallStep(e)
  <1>1. Typed /\ c \in Callers
    BY AcceptorsAssumption DEF CacheInv
  <1>2. PICK e \in Callers : CallStep(e)
    BY <1>1, StepCases, AmbientFrame DEF cacheVars, callVars
  <1>3. ASSUME stage[c] = "update" PROVE e = c
    <2>1. pc[c] # "wait"
      BY <1>3 DEF WinnerInv
    <2>2. QED
      BY <1>1, <1>2, <2>1, OthersFrame
  <1>4. QED
    BY <1>2, <1>3

\* An acceptor in its update is answered by a failed write, which has not
\* admitted it or has no answer, or by the end of its Del.
LEMMA UpdateAnswer ==
  ASSUME CacheInv, WinnerInv, [CacheStep]_cacheVars,
         NEW c \in Acceptors, pc[c] # "idle", pc'[c] = "idle", stage[c] = "update"
  PROVE  \/ DropL1(c) /\ outcome'[c] = "found"
         \/ outcome'[c] = "failed" /\ got'[c] = Nothing /\ (doc # Pending \/ CallFails)
  <1>1. Typed /\ c \in Callers /\ c \in DOMAIN pc /\ c \in DOMAIN got /\ c \in DOMAIN outcome
    BY AcceptorsAssumption DEF CacheInv, Typed, CallTypes
  <1>2. CallStep(c) /\ pc[c] \in {"accept", "dropL2", "dropL1"}
    BY QuietAnswer DEF WinnerInv
  <1>3. CASE pc[c] = "accept"
    <2>1. Write(c)
      BY <1>1, <1>2, <1>3, UpdateMoves
    <2>2. QED
      BY <1>1, <1>3, <2>1 DEF Write, Goto, Return, Carry, Admits
  <1>4. CASE pc[c] = "dropL2"
    <2>1. DropL2(c)
      BY <1>1, <1>2, <1>4, UpdateMoves
    <2>2. QED
      BY <1>1, <2>1 DEF DropL2, Goto
  <1>5. CASE pc[c] = "dropL1"
    <2>1. DropL1(c)
      BY <1>1, <1>2, <1>5, UpdateMoves
    <2>2. QED
      BY <1>1, <2>1 DEF DropL1, Return
  <1>6. QED
    BY <1>2, <1>3, <1>4, <1>5

\* A quiet step answers nobody against CostInv.
LEMMA QuietAnswers ==
  ASSUME CacheInv, WinnerInv, CostInv, [CacheStep]_cacheVars, Quiet
  PROVE  Answers'
  <1> SUFFICES ASSUME NEW c \in Acceptors, pc'[c] = "idle"
               PROVE  /\ fails' = 0 /\ stage'[c] \in {"guard", "again"} => outcome'[c] = "found"
                      /\ stage'[c] = "update" /\ outcome'[c] # "found" =>
                           got'[c] # Pending /\ (fails' = 0 => doc' # Pending)
    BY DEF Answers
  <1>1. Typed /\ c \in Callers /\ stage' = stage
    BY AcceptorsAssumption DEF CacheInv, Quiet
  <1>2. fails' = 0 => fails = 0 /\ ~CallFails
    BY <1>1, NoneFailed
  <1>3. doc # Pending => doc' # Pending
    <2>1. doc <= doc' /\ doc \in Versions
      BY <1>1, DocGrows DEF WinnerInv
    <2>2. doc' \in Answered
      BY <1>1, TypedStep DEF Typed, StoreTypes
    <2>3. QED
      BY <2>1, <2>2 DEF Answered, Versions, Nothing, Pending, Accepted, Paid
  <1>4. CASE pc[c] = "idle"
    <2>1. got'[c] = got[c] /\ outcome'[c] = outcome[c]
      BY <1>4 DEF Quiet
    <2>2. QED
      BY <1>1, <1>2, <1>3, <1>4, <2>1 DEF CostInv, Answers
  <1>5. CASE pc[c] # "idle"
    <2>1. ASSUME fails' = 0, stage[c] \in {"guard", "again"} PROVE outcome'[c] = "found"
      <3>1. pc[c] \notin {"idle", "accept", "pay", "dropL2", "dropL1"}
        BY <1>5, <2>1 DEF WinnerInv
      <3>2. bloom = Positions
        BY DEF CostInv, HandlerTypes
      <3>3. QED
        BY <1>1, <1>2, <1>5, <2>1, <3>1, <3>2, QuietAnswer, ReadFinds
    <2>2. ASSUME stage[c] = "update", outcome'[c] # "found"
          PROVE  got'[c] # Pending /\ (fails' = 0 => doc' # Pending)
      <3>1. got'[c] = Nothing /\ (doc # Pending \/ CallFails)
        BY <1>5, <2>2, UpdateAnswer
      <3>2. QED
        BY <1>2, <1>3, <3>1 DEF Nothing, Pending
    <2>3. QED
      BY <1>1, <2>1, <2>2
  <1>6. QED
    BY <1>4, <1>5

\* A quiet step keeps what an acceptor reads past its own update.
LEMMA QuietOwnRead ==
  ASSUME CacheInv, WinnerInv, CostInv, [CacheStep]_cacheVars, Quiet
  PROVE  OwnUpdateRead'
  <1> SUFFICES ASSUME ~tainted', NEW c \in Acceptors
               PROVE  /\ \/ stage'[c] \in {"again", "announced"}
                         \/ stage'[c] = "update" /\ pc'[c] = "idle" /\ outcome'[c] = "found"
                         => c \in crossed' \/ ReadsOn(c)'
                      /\ announced'[c] = Pending => c \in crossed'
    BY DEF OwnUpdateRead
  <1>1. Typed /\ c \in Callers /\ ~tainted /\ stage' = stage /\ announced' = announced
    BY AcceptorsAssumption, TaintStays DEF CacheInv, Quiet
  <1>2. c \in crossed => c \in crossed'
    BY DEF Quiet
  <1>3. ReadsOn(c) => ReadsOn(c)'
    BY <1>1, ReadsOnStays
  <1>4. announced'[c] = Pending => c \in crossed'
    BY <1>1, <1>2 DEF CostInv, OwnUpdateRead
  <1>5. stage[c] \in {"again", "announced"} => c \in crossed' \/ ReadsOn(c)'
    BY <1>1, <1>2, <1>3 DEF CostInv, OwnUpdateRead
  <1>6. ASSUME stage[c] = "update", pc'[c] = "idle", outcome'[c] = "found"
        PROVE  c \in crossed' \/ ReadsOn(c)'
    <2>1. CASE pc[c] = "idle"
      <3>1. outcome[c] = "found"
        BY <1>6, <2>1 DEF Quiet
      <3>2. QED
        BY <1>1, <1>2, <1>3, <1>6, <2>1, <3>1 DEF CostInv, OwnUpdateRead
    <2>2. CASE pc[c] # "idle"
      <3>1. DropL1(c)
        BY <1>6, <2>2, UpdateAnswer
      <3>2. QED
        BY <1>1, <3>1, DropRids DEF Quiet, CostInv
    <2>3. QED
      BY <2>1, <2>2
  <1>7. QED
    BY <1>1, <1>4, <1>5, <1>6

\* Quiet steps keep CostInv.
LEMMA QuietStep ==
  ASSUME CacheInv, WinnerInv, CostInv, [CacheStep]_cacheVars, Quiet
  PROVE  CostInv'
  <1>1. Typed /\ Acceptors \subseteq Callers
    BY AcceptorsAssumption DEF CacheInv
  <1>2. HandlerTypes'
    <2>1. bloom' = Positions
      BY <1>1, BitsStay DEF CostInv, HandlerTypes
    <2>2. QED
      BY <2>1 DEF Quiet, Watched, CostInv, HandlerTypes, LastPause
  <1>3. HeldLock'
    BY DEF Quiet, CostInv, HeldLock
  <1>4. OldInRedis'
    BY OldStep DEF Quiet, CostInv
  <1>5. LateRuns'
    <2> SUFFICES ASSUME ~tainted', fails' = 0, NEW c \in Acceptors
                 PROVE  /\ stage'[c] # "dead"
                        /\ stage'[c] = "waiting" => Paused(c)'
                        /\ attempt'[c] = MaxAttempts =>
                             ReadsOn(c)' /\ stage'[c] \in {"start", "guard", "skipped"}
      BY DEF LateRuns
    <2>1. ~tainted /\ fails = 0 /\ stage' = stage /\ attempt' = attempt
      BY <1>1, TaintStays, NoneFailed DEF Quiet
    <2>2. ReadsOn(c) => ReadsOn(c)'
      BY <1>1, ReadsOnStays
    <2>3. ASSUME stage[c] = "waiting" PROVE Paused(c)'
      <3>1. Paused(c)
        BY <2>1, <2>3 DEF CostInv, LateRuns
      <3>2. got'[c] = got[c]
        BY <2>3 DEF Quiet, WinnerInv
      <3>3. Watches(c)
        BY DEF Quiet, Watched
      <3>4. QED
        BY <1>1, <3>1, <3>2, <3>3, PausedStays
    <2>4. QED
      BY <2>1, <2>2, <2>3 DEF CostInv, LateRuns
  <1>6. QED
    BY <1>2, <1>3, <1>4, <1>5, QuietAnswers, QuietOwnRead DEF CostInv

\* What every step of the handler of c leaves alone.
Handles(c) ==
  /\ UNCHANGED <<doc, bloom, l2, fails, tainted, crossed>>
  /\ pc[c] = "idle"
  /\ \A d \in Callers : d # c => pc'[d] = pc[d] /\ got'[d] = got[d] /\ outcome'[d] = outcome[d]
  /\ \A d \in Acceptors : d # c => stage'[d] = stage[d] /\ attempt'[d] = attempt[d] /\ announced'[d] = announced[d]
  /\ \A d \in Acceptors : d # c => inHand'[d] = inHand[d] /\ stored'[d] = stored[d]

\* A read that begins is answered from the local cache, or goes on.
LEMMA ReadBegins ==
  ASSUME Typed, NEW c \in Callers, BeginGet(c)
  PROVE  /\ pc[c] = "idle" /\ UNCHANGED <<doc, bloom, l2, fails, tainted>>
         /\ \A d \in Callers : d # c => pc'[d] = pc[d] /\ got'[d] = got[d] /\ outcome'[d] = outcome[d]
         /\ pc'[c] = "idle" => outcome'[c] = "found"
  BY DEF BeginGet, Begin, At, Return, Goto, Carry, storeVars, history, Typed, CallTypes

\* An update that begins has its write before it.
LEMMA AcceptBegins ==
  ASSUME Typed, NEW c \in Callers, BeginAccept(c)
  PROVE  /\ pc[c] = "idle" /\ pc'[c] = "accept" /\ UNCHANGED <<doc, bloom, l2, fails, tainted>>
         /\ \A d \in Callers : d # c => pc'[d] = pc[d] /\ got'[d] = got[d] /\ outcome'[d] = outcome[d]
  BY DEF BeginAccept, BeginUpdate, Begin, At, Goto, storeVars, history, Typed, CallTypes

\* A handler that fails calls nothing; it runs once more, pauses or ends.
LEMMA FailMoves ==
  ASSUME HandlerTypes, stage \in [Acceptors -> Stages], NEW c \in Acceptors, Fail(c)
  PROVE  /\ UNCHANGED <<doc, bloom, l2, fails, tainted, pc, got, outcome, announced>>
         /\ \/ attempt[c] = MaxAttempts /\ stage'[c] = "dead" /\ attempt'[c] = attempt[c]
            \/ /\ LastPause(c) /\ stage'[c] = "waiting" /\ attempt'[c] = attempt[c]
               /\ inHand'[c] = {d \in Callers : HasForL1(d)} /\ stored'[c] = {}
            \/ attempt[c] < MaxAttempts - 1 /\ stage'[c] = "start" /\ attempt'[c] = attempt[c] + 1
         /\ attempt' \in [Acceptors -> 1..MaxAttempts]
         /\ inHand' \in [Acceptors -> SUBSET Callers]
         /\ stored' \in [Acceptors -> SUBSET (Replicas \X Answered)]
         /\ \A d \in Acceptors : d # c => /\ stage'[d] = stage[d] /\ attempt'[d] = attempt[d]
                                          /\ inHand'[d] = inHand[d] /\ stored'[d] = stored[d]
  <1>1. UNCHANGED <<doc, bloom, l2, fails, tainted, pc, got, outcome, announced>>
    BY DEF Fail, cacheVars, storeVars, callVars, history
  <1>2. /\ attempt \in [Acceptors -> 1..MaxAttempts] /\ MaxAttempts \in Nat
        /\ inHand \in [Acceptors -> SUBSET Callers]
        /\ stored \in [Acceptors -> SUBSET (Replicas \X Answered)]
    BY AcceptorsAssumption DEF HandlerTypes
  <1>3. CASE /\ attempt[c] = MaxAttempts
             /\ stage' = [stage EXCEPT ![c] = "dead"] /\ UNCHANGED <<attempt, waitVars>>
    BY <1>1, <1>2, <1>3 DEF waitVars
  <1>4. CASE /\ LastPause(c)
             /\ stage' = [stage EXCEPT ![c] = "waiting"]
             /\ inHand' = [inHand EXCEPT ![c] = {d \in Callers : HasForL1(d)}]
             /\ stored' = [stored EXCEPT ![c] = {}]
             /\ UNCHANGED attempt
    <2>1. {d \in Callers : HasForL1(d)} \in SUBSET Callers /\ {} \in SUBSET (Replicas \X Answered)
      OBVIOUS
    <2>2. QED
      BY <1>1, <1>2, <1>4, <2>1
  <1>5. CASE /\ attempt[c] < MaxAttempts - 1
             /\ stage' = [stage EXCEPT ![c] = "start"]
             /\ attempt' = [attempt EXCEPT ![c] = @ + 1]
             /\ UNCHANGED waitVars
    <2>1. attempt[c] + 1 \in 1..MaxAttempts
      BY <1>2, <1>5
    <2>2. QED
      BY <1>1, <1>2, <1>5, <2>1 DEF waitVars
  <1>6. QED
    BY <1>3, <1>4, <1>5 DEF Fail

\* Who wakes comes to the handler's last run.
LEMMA WakeMoves ==
  ASSUME HandlerTypes, stage \in [Acceptors -> Stages], NEW c \in Acceptors, Wake(c)
  PROVE  /\ UNCHANGED <<cacheVars, announced, lock, inHand>>
         /\ stage[c] = "waiting" /\ stage'[c] = "start" /\ attempt'[c] = MaxAttempts
         /\ attempt' \in [Acceptors -> 1..MaxAttempts]
         /\ stored' \in [Acceptors -> SUBSET (Replicas \X Answered)]
         /\ \A d \in Acceptors : d # c =>
              stage'[d] = stage[d] /\ attempt'[d] = attempt[d] /\ stored'[d] = stored[d]
  <1>1. UNCHANGED <<cacheVars, announced, lock, inHand>> /\ Move(c, "waiting", "start")
        /\ attempt' = [attempt EXCEPT ![c] = attempt[c] + 1] /\ stored' = [stored EXCEPT ![c] = {}]
    BY DEF Wake
  <1>2. MaxAttempts \in Nat /\ attempt[c] \in 1..MaxAttempts /\ attempt[c] + 1 = MaxAttempts
    BY <1>1, AcceptorsAssumption DEF HandlerTypes, LastPause, Move
  <1>3. MaxAttempts \in 1..MaxAttempts /\ {} \in SUBSET (Replicas \X Answered)
    BY <1>2
  <1>4. QED
    BY <1>1, <1>2, <1>3 DEF HandlerTypes, Move

\* The stage a handler comes to with another than a failure.
Comes(c, s) ==
  /\ stage' = [stage EXCEPT ![c] = s] /\ UNCHANGED <<attempt, waitVars>>
  /\ s = "announced" => announced' = [announced EXCEPT ![c] = got[c]]
  /\ s # "announced" => UNCHANGED announced
  /\ \/ stage[c] = "start" /\ s \in {"guard", "skipped"}
     \/ stage[c] = "guard" /\ outcome[c] = "found" /\ s = "skipped"
     \/ stage[c] = "guard" /\ got[c] = Pending /\ s = "update"
     \/ stage[c] = "update" /\ outcome[c] = "found" /\ s = "again"
     \/ stage[c] = "again" /\ outcome[c] = "found" /\ s = "announced"
  /\ s \in {"guard", "again"} /\ pc'[c] = "idle" => outcome'[c] = "found"
  /\ s = "update" => pc'[c] = "accept"
  /\ s = "guard" => lock = NoCaller /\ lock' = c
  /\ s \in {"update", "again"} => lock' = lock
  /\ stage[c] = "start" /\ s = "skipped" => lock' = lock

\* A handler fails, or comes to its next stage.
LEMMA HandlerCases ==
  ASSUME CacheInv, WinnerInv, HandlerTypes, NEW c \in Acceptors, Handler(c)
  PROVE  /\ Handles(c)
         /\ \/ Fail(c) /\ stage[c] \in {"guard", "update", "again"} /\ outcome[c] # "found"
            \/ Wake(c)
            \/ \E s \in Stages : Comes(c, s)
  <1>1. Typed /\ c \in Callers /\ stage \in [Acceptors -> Stages]
        /\ announced \in [Acceptors -> Answered]
    BY AcceptorsAssumption DEF CacheInv, WinnerInv, HandlerTypes
  <1>2. UNCHANGED crossed
    BY DEF Handler
  <1>3. ASSUME Fail(c), pc[c] = "idle" PROVE Handles(c)
    BY <1>1, <1>2, <1>3, FailMoves DEF Handles
  <1>4. ASSUME NEW s \in Stages, Comes(c, s), pc[c] = "idle", UNCHANGED cacheVars \/ BeginGet(c) \/ BeginAccept(c)
        PROVE  Handles(c)
    <2>1. /\ UNCHANGED <<doc, bloom, l2, fails, tainted>>
          /\ \A d \in Callers : d # c => pc'[d] = pc[d] /\ got'[d] = got[d] /\ outcome'[d] = outcome[d]
      BY <1>1, <1>4, ReadBegins, AcceptBegins DEF cacheVars, storeVars, callVars, history
    <2>2. \A d \in Acceptors : d # c =>
            stage'[d] = stage[d] /\ attempt'[d] = attempt[d] /\ announced'[d] = announced[d]
      BY <1>1, <1>4 DEF Comes
    <2>3. QED
      BY <1>2, <1>4, <2>1, <2>2 DEF Handles, Comes, waitVars
  <1>5. CASE TryLock(c)
    <2>1. pc[c] = "idle"
      BY <1>5 DEF TryLock, Move, WinnerInv
    <2>2. CASE lock = NoCaller
      <3>1. BeginGet(c) /\ Move(c, "start", "guard") /\ lock' = c /\ UNCHANGED <<attempt, waitVars, announced>>
        BY <1>5, <2>2 DEF TryLock
      <3>2. Comes(c, "guard")
        BY <1>1, <2>2, <3>1, ReadBegins DEF Comes, Move
      <3>3. QED
        BY <1>4, <2>1, <3>1, <3>2 DEF Stages
    <2>3. CASE lock # NoCaller
      <3>1. Move(c, "start", "skipped") /\ UNCHANGED <<attempt, waitVars, announced, lock, cacheVars>>
        BY <1>5, <2>3 DEF TryLock
      <3>2. Comes(c, "skipped")
        BY <3>1 DEF Comes, Move
      <3>3. QED
        BY <1>4, <2>1, <3>1, <3>2 DEF Stages
    <2>4. QED
      BY <2>2, <2>3
  <1>6. CASE Guard(c)
    <2>1. pc[c] = "idle" /\ stage[c] = "guard"
      BY <1>6 DEF Guard, Returned, At
    <2>2. CASE outcome[c] # "found"
      BY <1>3, <1>6, <2>1, <2>2 DEF Guard
    <2>3. CASE outcome[c] = "found" /\ ~Open(c)
      <3>1. Move(c, "guard", "skipped") /\ UNCHANGED <<attempt, waitVars, announced, cacheVars>>
        BY <1>6, <2>3 DEF Guard
      <3>2. Comes(c, "skipped")
        BY <2>3, <3>1 DEF Comes, Move
      <3>3. QED
        BY <1>4, <2>1, <3>1, <3>2 DEF Stages
    <2>4. CASE outcome[c] = "found" /\ Open(c)
      <3>1. Move(c, "guard", "update") /\ BeginAccept(c) /\ UNCHANGED <<attempt, waitVars, lock, announced>>
        BY <1>6, <2>4 DEF Guard
      <3>2. Comes(c, "update")
        BY <1>1, <2>4, <3>1, AcceptBegins DEF Comes, Move, Open
      <3>3. QED
        BY <1>4, <2>1, <3>1, <3>2 DEF Stages
    <2>5. QED
      BY <2>2, <2>3, <2>4
  <1>7. CASE Updated(c)
    <2>1. pc[c] = "idle" /\ stage[c] = "update"
      BY <1>7 DEF Updated, Returned, At
    <2>2. CASE outcome[c] # "found"
      BY <1>3, <1>7, <2>1, <2>2 DEF Updated
    <2>3. CASE outcome[c] = "found"
      <3>1. Move(c, "update", "again") /\ BeginGet(c) /\ UNCHANGED <<attempt, waitVars, lock, announced>>
        BY <1>7, <2>3 DEF Updated
      <3>2. Comes(c, "again")
        BY <1>1, <2>3, <3>1, ReadBegins DEF Comes, Move
      <3>3. QED
        BY <1>4, <2>1, <3>1, <3>2 DEF Stages
    <2>4. QED
      BY <2>2, <2>3
  <1>8. CASE Announce(c)
    <2>1. pc[c] = "idle" /\ stage[c] = "again"
      BY <1>8 DEF Announce, Returned, At
    <2>2. CASE outcome[c] # "found"
      BY <1>3, <1>8, <2>1, <2>2 DEF Announce
    <2>3. CASE outcome[c] = "found"
      <3>1. /\ Move(c, "again", "announced") /\ announced' = [announced EXCEPT ![c] = got[c]]
            /\ UNCHANGED <<attempt, waitVars, cacheVars>>
        BY <1>8, <2>3 DEF Announce
      <3>2. Comes(c, "announced")
        BY <2>3, <3>1 DEF Comes, Move
      <3>3. QED
        BY <1>4, <2>1, <3>1, <3>2 DEF Stages
    <2>4. QED
      BY <2>2, <2>3
  <1>9. CASE Wake(c)
    <2>1. pc[c] = "idle"
      BY <1>9 DEF Wake, Move, WinnerInv
    <2>2. QED
      BY <1>2, <1>9, <2>1, <1>1, WakeMoves DEF Handles, cacheVars, storeVars, callVars, history
  <1>10. QED
    BY <1>5, <1>6, <1>7, <1>8, <1>9 DEF Handler

\* As the last pause begins, Redis is rid of Pending, and so is who is on
\* the way to it.
LEMMA PauseBegins ==
  ASSUME CacheInv, WinnerInv, CostInv, NEW c \in Acceptors, Fail(c), LastPause(c), ~tainted,
         pc[c] = "idle", stage[c] = "update", doc # Pending, got[c] # Pending
  PROVE  Paused(c)'
  <1>1. c \in Callers /\ stage \in [Acceptors -> Stages]
    BY AcceptorsAssumption DEF WinnerInv
  <1>2. attempt[c] = MaxAttempts - 1 /\ MaxAttempts \in Nat
    BY AcceptorsAssumption DEF LastPause
  <1>3. /\ UNCHANGED <<doc, l2, pc, got>>
        /\ inHand'[c] = {d \in Callers : HasForL1(d)} /\ stored'[c] = {}
    BY <1>1, <1>2, FailMoves DEF CostInv
  <1>4. doc \in {Accepted, Paid}
    BY DEF WinnerInv, Versions
  <1>5. l2 # Pending
    <2>1. \A e \in Acceptors : pc[e] # "dropL2"
      BY OneUpdates DEF CostInv
    <2>2. QED
      BY <2>1 DEF CostInv, OldInRedis
  <1>6. \A d \in Callers : pc[d] \in {"feed", "storeL2"} => got[d] # Pending
    BY DEF CacheInv, FreshFills
  <1>7. Gone'
    BY <1>3, <1>4, <1>5, <1>6 DEF Gone
  <1>8. \A d \in Callers : HasForL1(d)' => d \in inHand'[c]
    BY <1>3 DEF HasForL1
  <1>9. QED
    BY <1>3, <1>7, <1>8 DEF Paused

\* A step of a handler keeps CostInv.
LEMMA HandlerStep ==
  ASSUME MaxAttempts >= 2, CacheInv, WinnerInv, CostInv, [CacheStep]_cacheVars,
         NEW c \in Acceptors, Handler(c)
  PROVE  CostInv'
  <1>1. Typed /\ c \in Callers /\ Acceptors \subseteq Callers /\ NoCaller \notin Acceptors
        /\ stage \in [Acceptors -> Stages] /\ announced \in [Acceptors -> Answered]
        /\ attempt \in [Acceptors -> 1..MaxAttempts] /\ got[c] \in Answered
        /\ MaxAttempts \in Nat
    BY CacheAssumption, AcceptorsAssumption
       DEF CacheInv, WinnerInv, CostInv, HandlerTypes, Typed, CallTypes
  <1>2. Handles(c)
    BY HandlerCases DEF CostInv
  <1>3. \A d \in Acceptors : ReadsOn(d) => ReadsOn(d)'
    BY <1>1, ReadsOnStays
  <1>0. \A d \in Acceptors : d # c /\ Paused(d) => Paused(d)'
    <2>1. ASSUME NEW d \in Acceptors, d # c PROVE Watches(d) /\ got'[d] = got[d]
      BY <1>1, <1>2, <2>1 DEF Handles, Watches
    <2>2. QED
      BY <1>1, <2>1, PausedStays
  <1>4. OldInRedis'
    BY <1>1, <1>2 DEF Handles, CostInv, OldInRedis
  <1>5. stage[c] \in {"guard", "update", "again"} => lock = c
    BY DEF CostInv, HeldLock
  <1>6. CASE Fail(c) /\ stage[c] \in {"guard", "update", "again"} /\ outcome[c] # "found"
    <2>1. lock = c /\ lock' = NoCaller /\ stage'[c] \in {"start", "waiting", "dead"}
          /\ UNCHANGED announced
      BY <1>1, <1>5, <1>6, FailMoves DEF Fail, CostInv
    <2>2. HeldLock'
      BY <1>2, <2>1 DEF CostInv, HeldLock, Handles
    <2>3. HandlerTypes'
      <3>1. stage'[c] = "waiting" => LastPause(c)'
        BY <1>1, <1>6, FailMoves DEF CostInv, LastPause
      <3>2. \A d \in Acceptors : stage'[d] = "waiting" => LastPause(d)'
        BY <1>2, <3>1 DEF CostInv, HandlerTypes, Handles, LastPause
      <3>3. /\ attempt' \in [Acceptors -> 1..MaxAttempts]
            /\ inHand' \in [Acceptors -> SUBSET Callers]
            /\ stored' \in [Acceptors -> SUBSET (Replicas \X Answered)]
        BY <1>1, <1>6, FailMoves DEF CostInv
      <3>4. QED
        BY <1>2, <2>1, <3>2, <3>3 DEF CostInv, HandlerTypes, Handles
    <2>4. Answers'
      BY <1>1, <1>2, <2>1 DEF CostInv, Answers, Handles
    <2>5. OwnUpdateRead'
      BY <1>1, <1>2, <1>3, <2>1 DEF CostInv, OwnUpdateRead, Handles
    <2>6. ASSUME ~tainted, fails = 0
          PROVE  /\ stage'[c] # "dead" /\ attempt'[c] # MaxAttempts
                 /\ stage'[c] = "waiting" => Paused(c)'
      <3>1. pc[c] = "idle"
        BY <1>2 DEF Handles
      <3>2. stage[c] = "update" /\ doc # Pending /\ got[c] # Pending
        BY <1>6, <2>6, <3>1 DEF CostInv, Answers
      <3>3. attempt[c] # MaxAttempts
        BY <2>6, <3>2 DEF CostInv, LateRuns
      <3>4. CASE LastPause(c) /\ stage'[c] = "waiting" /\ attempt'[c] = attempt[c]
        <4>1. Paused(c)'
          BY <1>6, <2>6, <3>1, <3>2, <3>4, PauseBegins
        <4>2. QED
          BY <3>3, <3>4, <4>1
      <3>5. CASE attempt[c] < MaxAttempts - 1 /\ stage'[c] = "start" /\ attempt'[c] = attempt[c] + 1
        BY <1>1, <3>5
      <3>6. QED
        BY <1>1, <1>6, <3>3, <3>4, <3>5, FailMoves DEF CostInv
    <2>7. LateRuns'
      BY <1>0, <1>1, <1>2, <1>3, <2>6 DEF CostInv, LateRuns, Handles
    <2>8. QED
      BY <1>4, <2>2, <2>3, <2>4, <2>5, <2>7 DEF CostInv
  <1>7. ASSUME NEW s \in Stages, Comes(c, s) PROVE CostInv'
    <2>1. /\ stage'[c] = s /\ attempt' = attempt /\ pc[c] = "idle"
          /\ UNCHANGED <<inHand, stored>> /\ s # "waiting"
      BY <1>1, <1>2, <1>7 DEF Comes, Handles, waitVars
    <2>2. HeldLock'
      <3>1. CASE stage[c] = "start"
        BY <1>1, <1>2, <1>7, <2>1, <3>1 DEF CostInv, HeldLock, Handles, Comes
      <3>2. CASE stage[c] # "start"
        <4>1. stage[c] \in {"guard", "update", "again"} /\ (s \in {"guard", "update", "again"} => lock' = lock)
          BY <1>7, <3>2 DEF Comes
        <4>2. \A d \in Acceptors : d # c => stage[d] \notin {"guard", "update", "again"}
          BY <1>5, <4>1 DEF CostInv, HeldLock
        <4>3. QED
          BY <1>2, <1>5, <2>1, <4>1, <4>2 DEF HeldLock, Handles
      <3>3. QED
        BY <3>1, <3>2
    <2>3. HandlerTypes'
      <3>1. announced' \in [Acceptors -> Answered]
        BY <1>1, <1>7 DEF Comes
      <3>2. QED
        BY <1>2, <2>1, <3>1 DEF CostInv, HandlerTypes, Handles, LastPause
    <2>4. Answers'
      <3>1. pc'[c] = "idle" => (s \in {"guard", "again"} => outcome'[c] = "found") /\ s # "update"
        BY <1>7 DEF Comes
      <3>2. QED
        BY <1>1, <1>2, <2>1, <3>1 DEF CostInv, Answers, Handles
    <2>5. OwnUpdateRead'
      <3>1. ASSUME ~tainted
            PROVE  /\ s \in {"again", "announced"} => c \in crossed \/ ReadsOn(c)
                   /\ s = "update" => pc'[c] # "idle"
        BY <1>7, <2>1, <3>1 DEF Comes, CostInv, OwnUpdateRead
      <3>2. ASSUME ~tainted, announced'[c] = Pending PROVE c \in crossed
        <4>1. CASE s = "announced"
          <5>1. got[c] = Pending
            BY <1>1, <1>7, <3>2, <4>1 DEF Comes
          <5>2. QED
            BY <2>1, <3>1, <3>2, <4>1, <5>1 DEF ReadsOn
        <4>2. CASE s # "announced"
          BY <1>7, <3>2, <4>2 DEF Comes, CostInv, OwnUpdateRead
        <4>3. QED
          BY <4>1, <4>2
      <3>3. QED
        BY <1>1, <1>2, <1>3, <2>1, <3>1, <3>2 DEF CostInv, OwnUpdateRead, Handles
    <2>6. ASSUME ~tainted, fails = 0
          PROVE  /\ stage'[c] \notin {"dead", "waiting"}
                 /\ attempt'[c] = MaxAttempts =>
                      ReadsOn(c)' /\ stage'[c] \in {"start", "guard", "skipped"}
      <3>1. s # "dead"
        BY <1>7 DEF Comes
      <3>2. ASSUME attempt[c] = MaxAttempts PROVE ReadsOn(c) /\ s \in {"start", "guard", "skipped"}
        <4>1. ReadsOn(c) /\ stage[c] \in {"start", "guard", "skipped"} /\ got[c] # Pending
          BY <2>1, <2>6, <3>2 DEF CostInv, LateRuns, ReadsOn
        <4>2. QED
          BY <1>7, <4>1 DEF Comes
      <3>3. QED
        BY <1>3, <2>1, <3>1, <3>2
    <2>7. LateRuns'
      BY <1>0, <1>1, <1>2, <1>3, <2>6 DEF CostInv, LateRuns, Handles
    <2>8. QED
      BY <1>4, <2>2, <2>3, <2>4, <2>5, <2>7 DEF CostInv
  <1>8. CASE Wake(c)
    <2>1. /\ UNCHANGED <<cacheVars, announced, lock, inHand>>
          /\ stage[c] = "waiting" /\ stage'[c] = "start" /\ attempt'[c] = MaxAttempts
          /\ attempt' \in [Acceptors -> 1..MaxAttempts]
          /\ stored' \in [Acceptors -> SUBSET (Replicas \X Answered)]
      BY <1>1, <1>8, WakeMoves DEF CostInv
    <2>2. HandlerTypes'
      BY <1>2, <2>1 DEF CostInv, HandlerTypes, Handles, LastPause
    <2>3. HeldLock'
      BY <1>2, <2>1 DEF CostInv, HeldLock, Handles
    <2>4. Answers'
      BY <1>2, <2>1 DEF CostInv, Answers, Handles, cacheVars, callVars
    <2>5. OwnUpdateRead'
      BY <1>2, <1>3, <2>1 DEF CostInv, OwnUpdateRead, Handles, cacheVars, callVars
    <2>6. ASSUME ~tainted, fails = 0 PROVE ReadsOn(c)'
      <3>1. Paused(c)
        BY <2>1, <2>6 DEF CostInv, LateRuns
      <3>2. ReadsOn(c)
        BY <1>1, <1>8, <3>1, WakeRids DEF Wake
      <3>3. QED
        BY <1>3, <3>2
    <2>7. LateRuns'
      BY <1>0, <1>1, <1>2, <1>3, <2>1, <2>6 DEF CostInv, LateRuns, Handles
    <2>8. QED
      BY <1>4, <2>2, <2>3, <2>4, <2>5, <2>7 DEF CostInv
  <1>9. QED
    BY <1>6, <1>7, <1>8, HandlerCases DEF CostInv

\* What stale reads may cost: only an old version left in Redis can have an
\* accept that came too late dead-lettered, and only that or a fill that
\* crosses UpdateTrip's Del can have a trip announced without its driver.
\* The code runs a handler up to four times, and the fourth run, after a
\* pause of 4 s, is one that local caches cannot mislead (retry.go:20, 33,
\* service.go:34-37).
THEOREM StaleReadsCostLittle ==
  ASSUME MaxAttempts >= 2 PROVE AcceptSpec => []CostOfStaleReads
  <1>1. AcceptInit => CostInv
    <2> SUFFICES ASSUME AcceptInit PROVE CostInv
      OBVIOUS
    <2>1. MaxAttempts \in Nat \ {0} /\ Acceptors \subseteq Callers
      BY AcceptorsAssumption
    <2>2. /\ attempt = [c \in Acceptors |-> 1] /\ announced = [c \in Acceptors |-> Nothing]
          /\ inHand = [c \in Acceptors |-> {}] /\ stored = [c \in Acceptors |-> {}]
          /\ stage = [c \in Acceptors |-> "start"] /\ doc = Pending /\ bloom = Positions
      BY DEF AcceptInit, Stores
    <2>3. HandlerTypes
      BY <2>1, <2>2 DEF HandlerTypes, Answered
    <2>4. HeldLock /\ OldInRedis /\ Answers /\ LateRuns
      BY <2>2 DEF HeldLock, OldInRedis, Answers, LateRuns
    <2>5. OwnUpdateRead
      BY <2>2 DEF OwnUpdateRead, Nothing, Pending
    <2>6. QED
      BY <2>3, <2>4, <2>5 DEF CostInv
  <1>2. CostInv /\ CacheInv /\ WinnerInv /\ [AcceptNext]_vars => CostInv'
    <2> SUFFICES ASSUME CostInv, CacheInv, WinnerInv, [AcceptNext]_vars PROVE CostInv'
      OBVIOUS
    <2>1. [CacheStep]_cacheVars
      BY AcceptStepIsCacheStep
    <2>2. ASSUME NEW c \in Acceptors, Handler(c) PROVE CostInv'
      BY <2>1, <2>2, HandlerStep
    <2>3. ASSUME \A c \in Acceptors : ~Handler(c) PROVE CostInv'
      BY <2>1, <2>3, QuietMoves, QuietStep DEF CostInv
    <2>4. QED
      BY <2>2, <2>3
  <1>3. QED
    BY <1>1, <1>2, CostInvImplies, AcceptCacheInvariance, WinnerInvariance, PTL DEF AcceptSpec
=============================================================================
