----------------------------- MODULE TripCache -----------------------------
(***************************************************************************)
(* The two caches in front of one trip document: each replica's in-process *)
(* cache (L1), Redis (L2), the Bloom filter that is asked before both of   *)
(* Redis and MongoDB, and the singleflight group that merges the reads of  *)
(* a replica.  GetTripByID, UpdateTrip and CreateTrip of the trip service  *)
(* run step by step, one step per call that leaves the process.            *)
(*                                                                         *)
(* A version stands for the whole document: pending, accepted, payed.      *)
(***************************************************************************)
EXTENDS Integers, Sequences

CONSTANTS
  Replicas, Callers, NoCaller,
  HomeOf,    \* the replica a caller runs on
  MaxCalls,  \* calls each caller makes, a bound of the model
  MaxFails   \* failed calls to Redis or MongoDB, a bound of the model

ASSUME CacheAssumption ==
  /\ NoCaller \notin Callers
  /\ HomeOf \in [Callers -> Replicas]
  /\ MaxCalls \in [Callers -> Nat]
  /\ MaxFails \in Nat

\* The positions two hash functions give the trip's id in the Bloom filter.
Positions == {"hash1", "hash2"}

\* The versions of the document, and its absence.
Nothing == -1
Pending == 0
Accepted == 1
Paid == 2
Versions == {Pending, Accepted, Paid}

VARIABLES
  doc,      \* MongoDB
  bloom,    \* which of the trip's bits in the Bloom filter are set
  l2,       \* Redis: trip:<id>
  l1,       \* each replica's local cache
  buffer,   \* its Sets, and Nothing for a Del, not applied yet
  flight,   \* each replica's singleflight leader for the trip
  pc,       \* where each caller is, "idle" between calls
  got,      \* the version a caller carries, and in the end its answer
  outcome,  \* how the caller's last call ended
  calls,    \* calls begun so far, by each caller
  fails,    \* failed calls so far
  tainted,  \* history: an update overlapped a fill, or lost its invalidation
  unindexed \* history: adding the new trip to the filter failed

storeVars == <<doc, bloom, l2, l1, buffer>>
callVars  == <<pc, got, outcome, calls>>
history == <<tainted, unindexed>>
cacheVars == <<storeVars, flight, callVars, fails, history>>

Labels == {"idle", "bloom", "readL2", "fillL1", "join", "wait", "check", "read",
           "feed", "storeL2", "storeL1", "index", "accept", "pay", "dropL2", "dropL1"}

TypeOK ==
  /\ doc \in Versions \cup {Nothing}
  /\ bloom \subseteq Positions
  /\ l2 \in Versions \cup {Nothing}
  /\ l1 \in [Replicas -> Versions \cup {Nothing}]
  /\ buffer \in [Replicas -> Seq(Versions \cup {Nothing})]
  /\ flight \in [Replicas -> Callers \cup {NoCaller}]
  /\ pc \in [Callers -> Labels]
  /\ got \in [Callers -> Versions \cup {Nothing}]
  /\ outcome \in [Callers -> {"none", "found", "notFound", "failed"}]
  /\ \A c \in Callers : calls[c] \in 0..MaxCalls[c]
  /\ fails \in 0..MaxFails
  /\ tainted \in BOOLEAN /\ unindexed \in BOOLEAN
  /\ \A r \in Replicas : flight[r] # NoCaller =>
       pc[flight[r]] \in {"check", "read", "feed", "storeL2", "storeL1"}
  /\ \A c \in Callers : pc[c] = "wait" => flight[HomeOf[c]] # NoCaller

Stores(version, indexed) ==
  /\ doc = version
  /\ bloom \in indexed
  /\ l2 = Nothing
  /\ l1 = [r \in Replicas |-> Nothing]
  /\ buffer = [r \in Replicas |-> <<>>]
  /\ flight = [r \in Replicas |-> NoCaller]
  /\ pc = [c \in Callers |-> "idle"]
  /\ got = [c \in Callers |-> Nothing]
  /\ outcome = [c \in Callers |-> "none"]
  /\ calls = [c \in Callers |-> 0]
  /\ fails = 0
  /\ tainted = FALSE /\ unindexed = FALSE

\* No trip yet; its bits in the filter may be those of other trips.
Init == Stores(Nothing, SUBSET Positions)

-----------------------------------------------------------------------------

At(c, label) == pc[c] = label

Goto(c, label) == pc' = [pc EXCEPT ![c] = label]

Smooth == UNCHANGED fails
CallFails == fails < MaxFails /\ fails' = fails + 1

Carry(c, v) == got' = [got EXCEPT ![c] = v]

\* The call of c returns.
Return(c, how, v) ==
  /\ Goto(c, "idle") /\ Carry(c, v)
  /\ outcome' = [outcome EXCEPT ![c] = how]

Local(c) == l1[HomeOf[c]]

Buffer(r, v) == buffer' = [buffer EXCEPT ![r] = Append(@, v)]

\* An entry that is there is replaced at once.  A new one waits in a buffer;
\* it is thrown away when the buffer is full.
SetLocal(c, v) ==
  \/ UNCHANGED <<l1, buffer>>
  \/ Local(c) # Nothing /\ l1' = [l1 EXCEPT ![HomeOf[c]] = v] /\ UNCHANGED buffer
  \/ Local(c) = Nothing /\ Buffer(HomeOf[c], v) /\ UNCHANGED l1

\* What is there goes at once, and what still waits will be removed after it
\* was stored.
DelLocal(c) ==
  /\ l1' = [l1 EXCEPT ![HomeOf[c]] = Nothing]
  /\ IF buffer[HomeOf[c]] = <<>> THEN UNCHANGED buffer ELSE Buffer(HomeOf[c], Nothing)

\* A call begins: whoever makes it.
Begin(c) ==
  /\ At(c, "idle") /\ calls[c] < MaxCalls[c]
  /\ calls' = [calls EXCEPT ![c] = @ + 1]

-----------------------------------------------------------------------------
(* The Bloom filter.  Its two bits are set, and read, one after the other.  *)

\* A mutation of BloomAdd: one hash function is left out.
AddOneBit ==
  /\ \E b \in Positions : bloom' = bloom \cup {b}
  /\ Smooth

\* A pipeline that fails may have set any of the bits.
BloomAdd ==
  \/ bloom' = Positions /\ Smooth
  \/ CallFails /\ \E done \in SUBSET Positions : bloom' = bloom \cup done

\* No bit is ever cleared, so two reads tell what one would.
BloomExists == bloom = Positions

\* The bits of other trips may be this one's.
AddOther ==
  /\ ~BloomExists
  /\ \E b \in Positions \ bloom : bloom' = bloom \cup {b}
  /\ UNCHANGED <<doc, l2, l1, buffer, flight, callVars, fails, history>>

-----------------------------------------------------------------------------
(* GetTripByID.                                                            *)

\* A version in L1 is the answer, with no other check.
BeginGet(c) ==
  /\ Begin(c)
  /\ IF Local(c) # Nothing
     THEN Return(c, "found", Local(c))
     ELSE Goto(c, "bloom") /\ UNCHANGED <<got, outcome>>
  /\ UNCHANGED <<storeVars, flight, fails, history>>

\* An id the filter does not hold is not found; a failed check is passed over.
AskBloom(c) ==
  /\ At(c, "bloom")
  /\ \/ BloomExists /\ Goto(c, "readL2") /\ Smooth /\ UNCHANGED <<got, outcome>>
     \/ ~BloomExists /\ Return(c, "notFound", Nothing) /\ Smooth
     \/ CallFails /\ Goto(c, "readL2") /\ UNCHANGED <<got, outcome>>
  /\ UNCHANGED <<storeVars, flight, calls, history>>

ReadL2(c) ==
  /\ At(c, "readL2")
  /\ \/ l2 # Nothing /\ Carry(c, l2) /\ Goto(c, "fillL1") /\ Smooth
     \/ l2 = Nothing /\ Goto(c, "join") /\ Smooth /\ UNCHANGED got
     \/ CallFails /\ Goto(c, "join") /\ UNCHANGED got
  /\ UNCHANGED <<storeVars, flight, outcome, calls, history>>

FillL1(c) ==
  /\ At(c, "fillL1")
  /\ SetLocal(c, got[c])
  /\ Return(c, "found", got[c])
  /\ UNCHANGED <<doc, bloom, l2, flight, calls, fails, history>>

\* singleflight.Do: the first caller of a replica leads, the others wait.
Join(c) ==
  /\ At(c, "join")
  /\ IF flight[HomeOf[c]] = NoCaller
     THEN Goto(c, "check") /\ flight' = [flight EXCEPT ![HomeOf[c]] = c]
     ELSE Goto(c, "wait") /\ UNCHANGED flight
  /\ UNCHANGED <<storeVars, got, outcome, calls, fails, history>>

\* A mutation of Woken: only the leader hears of the result.
LeaderOnly(c) == {c}

\* Those who get the result of a flight: its leader and who waits for it.
Woken(c) == {c} \cup {d \in Callers : At(d, "wait") /\ HomeOf[d] = HomeOf[c]}

Land(c, how, v) ==
  /\ flight' = [flight EXCEPT ![HomeOf[c]] = NoCaller]
  /\ pc' = [d \in Callers |-> IF d \in Woken(c) THEN "idle" ELSE pc[d]]
  /\ got' = [d \in Callers |-> IF d \in Woken(c) THEN v ELSE got[d]]
  /\ outcome' = [d \in Callers |-> IF d \in Woken(c) THEN how ELSE outcome[d]]

\* The leader looks into L2 once more; what it finds goes to no cache.
Check(c) ==
  /\ At(c, "check")
  /\ \/ l2 # Nothing /\ Land(c, "found", l2) /\ Smooth
     \/ l2 = Nothing /\ Goto(c, "read") /\ Smooth /\ UNCHANGED <<flight, got, outcome>>
     \/ CallFails /\ Goto(c, "read") /\ UNCHANGED <<flight, got, outcome>>
  /\ UNCHANGED <<storeVars, calls, history>>

\* MongoDB; no document is an error.
Read(c) ==
  /\ At(c, "read")
  /\ \/ /\ doc # Nothing /\ Carry(c, doc) /\ Goto(c, "feed")
        /\ Smooth /\ UNCHANGED <<flight, outcome>>
     \/ doc = Nothing /\ Land(c, "failed", Nothing) /\ Smooth
     \/ CallFails /\ Land(c, "failed", Nothing)
  /\ UNCHANGED <<storeVars, calls, history>>

\* The id goes to the Bloom filter, if Redis lets it.
Feed(c) ==
  /\ At(c, "feed") /\ Goto(c, "storeL2") /\ BloomAdd
  /\ UNCHANGED <<doc, l2, l1, buffer, flight, got, outcome, calls, history>>

StoreL2(c) ==
  /\ At(c, "storeL2") /\ Goto(c, "storeL1")
  /\ \/ l2' = got[c] /\ Smooth
     \/ CallFails /\ l2' \in {l2, got[c]}
  /\ UNCHANGED <<doc, bloom, l1, buffer, flight, got, outcome, calls, history>>

StoreL1(c) ==
  /\ At(c, "storeL1")
  /\ SetLocal(c, got[c])
  /\ Land(c, "found", got[c])
  /\ UNCHANGED <<doc, bloom, l2, calls, fails, history>>

\* What gRPC's GetTrip makes of it: "trip not found" is NotFound, any other
\* error Internal.  No document in MongoDB is one of the others.
Status(c) ==
  CASE outcome[c] = "found" -> "OK" [] outcome[c] = "notFound" -> "NotFound" [] OTHER -> "Internal"

\* And GET /trip/{id}.
Answer(c) ==
  CASE Status(c) = "OK" -> 200 [] Status(c) = "NotFound" -> 404 [] OTHER -> 500

-----------------------------------------------------------------------------
(* UpdateTrip: MongoDB first, then Redis, then the local cache.            *)

BeginUpdate(c, label) ==
  /\ Begin(c) /\ Goto(c, label)
  /\ UNCHANGED <<storeVars, flight, got, outcome, fails, history>>

\* A mutation of BeginAccept: the new version goes to Redis before MongoDB.
CacheFirst(c) ==
  /\ doc # Nothing /\ Begin(c) /\ Goto(c, "accept") /\ l2' = Accepted
  /\ UNCHANGED <<doc, bloom, l1, buffer, flight, got, outcome, fails, history>>

BeginAccept(c) == doc # Nothing /\ BeginUpdate(c, "accept")

\* Only a trip that was accepted is ever paid.
BeginPay(c) == doc \in {Accepted, Paid} /\ BeginUpdate(c, "pay")

\* A leader holds a version it read and has not stored.
FillUnderWay == \E d \in Callers : pc[d] \in {"feed", "storeL2"}

Target(c) == IF At(c, "accept") THEN Accepted ELSE Paid

\* A mutation of Admits: no condition on the status.
AdmitsAny(c) == TRUE

\* The filter of the update: pending becomes accepted, any trip payed.
Admits(c) == At(c, "accept") => doc = Pending

\* A failed call may have reached MongoDB all the same; nothing is dropped then.
Write(c) ==
  /\ pc[c] \in {"accept", "pay"}
  /\ \/ /\ Admits(c) /\ doc' = Target(c) /\ Goto(c, "dropL2") /\ Smooth
        /\ tainted' = (tainted \/ FillUnderWay)
        /\ UNCHANGED <<got, outcome>>
     \/ /\ ~Admits(c) /\ Return(c, "failed", Nothing) /\ Smooth
        /\ UNCHANGED <<doc, tainted>>
     \/ /\ CallFails /\ Return(c, "failed", Nothing)
        /\ \/ UNCHANGED <<doc, tainted>>
           \/ Admits(c) /\ doc' = Target(c) /\ tainted' = TRUE
  /\ UNCHANGED <<bloom, l2, l1, buffer, flight, calls, unindexed>>

\* A mutation of DropL2: what was read before the update stays.
KeepL2(c) ==
  /\ At(c, "dropL2") /\ Goto(c, "dropL1")
  /\ UNCHANGED <<storeVars, flight, got, outcome, calls, fails, history>>

DropL2(c) ==
  /\ At(c, "dropL2") /\ Goto(c, "dropL1")
  /\ \/ l2' = Nothing /\ Smooth /\ UNCHANGED tainted
     \/ CallFails /\ tainted' = TRUE /\ l2' \in {l2, Nothing}
  /\ UNCHANGED <<doc, bloom, l1, buffer, flight, got, outcome, calls, unindexed>>

DropL1(c) ==
  /\ At(c, "dropL1") /\ DelLocal(c) /\ Return(c, "found", doc)
  /\ UNCHANGED <<doc, bloom, l2, flight, calls, fails, history>>

-----------------------------------------------------------------------------
(* CreateTrip, and the TTLs.                                               *)

\* The id is new, so the trip is created once; without an answer from
\* MongoDB nobody learns the id.
BeginCreate(c) ==
  /\ Begin(c) /\ doc = Nothing
  /\ \/ doc' = Pending /\ Goto(c, "index") /\ Smooth /\ UNCHANGED <<got, outcome>>
     \/ CallFails /\ Return(c, "failed", Nothing) /\ UNCHANGED doc
  /\ UNCHANGED <<bloom, l2, l1, buffer, flight, history>>

\* A failed BloomAdd is logged, no more.
Index(c) ==
  /\ At(c, "index") /\ Return(c, "found", Pending)
  /\ BloomAdd
  /\ unindexed' = (unindexed \/ fails' # fails)
  /\ UNCHANGED <<doc, l2, l1, buffer, flight, calls, tainted>>

ExpireL2 ==
  /\ l2 # Nothing /\ l2' = Nothing
  /\ UNCHANGED <<doc, bloom, l1, buffer, flight, callVars, fails, history>>

\* ristretto's goroutine; it may turn away a new entry.
Apply(r) ==
  /\ buffer[r] # <<>> /\ buffer' = [buffer EXCEPT ![r] = Tail(@)]
  /\ \/ l1' = [l1 EXCEPT ![r] = Head(buffer[r])]
     \/ Head(buffer[r]) # Nothing /\ UNCHANGED l1
  /\ UNCHANGED <<doc, bloom, l2, flight, callVars, fails, history>>

\* After 2 s, or when the cache is full.
ExpireL1(r) ==
  /\ l1[r] # Nothing /\ l1' = [l1 EXCEPT ![r] = Nothing]
  /\ UNCHANGED <<doc, bloom, l2, buffer, flight, callVars, fails, history>>

Proceed(c) ==
  \/ AskBloom(c) \/ ReadL2(c) \/ FillL1(c) \/ Join(c) \/ Check(c) \/ Read(c)
  \/ Feed(c) \/ StoreL2(c) \/ StoreL1(c)
  \/ Write(c) \/ DropL2(c) \/ DropL1(c)
  \/ Index(c)

Next ==
  \/ \E c \in Callers : \/ BeginGet(c) \/ BeginAccept(c) \/ BeginPay(c)
                        \/ BeginCreate(c) \/ Proceed(c)
  \/ AddOther \/ ExpireL2
  \/ \E r \in Replicas : Apply(r) \/ ExpireL1(r)

Spec == Init /\ [][Next]_cacheVars

-----------------------------------------------------------------------------

(* No cache holds, no flight carries and no call has answered a version    *)
(* the document has not had: UpdateTrip writes MongoDB before it touches a *)
(* cache, and nobody but GetTripByID fills one.  The accept handler's      *)
(* guard (driver_consumer.go:222) rests on it: what it takes for accepted  *)
(* really was.                                                             *)
NothingFromTheFuture ==
  /\ l2 <= doc
  /\ \A r \in Replicas : l1[r] <= doc /\ \A i \in DOMAIN buffer[r] : buffer[r][i] <= doc
  /\ \A c \in Callers : got[c] <= doc

(* Redis holds an old version, with no DEL on its way, only where an       *)
(* update fell between a leader's read and its SET, or lost its DEL        *)
(* (service.go:401-422).                                                   *)
StaleOnlyAfterRace ==
  l2 \in Versions /\ l2 < doc =>
    tainted \/ \E c \in Callers : At(c, "dropL2")

(* GET /trip/{id} answers 404 only where there is no trip, its creation has *)
(* not returned, or adding it to the filter failed: "miss means it          *)
(* certainly does not exist" (service.go:322), however the adds and checks  *)
(* of one trip overlap, and whatever bits other trips have set.             *)
MissMeansAbsent ==
  [][\A c \in Callers :
       At(c, "bloom") /\ Answer(c)' = 404 /\ At(c, "idle")' =>
         doc = Nothing \/ unindexed \/ \E d \in Callers : At(d, "index")]_cacheVars
=============================================================================
