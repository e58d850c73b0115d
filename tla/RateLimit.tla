----------------------------- MODULE RateLimit -----------------------------
(***************************************************************************)
(* The sliding window in front of POST /trip/start, for one rider: a Redis *)
(* sorted set of the stamps of the requests that were let through.  A      *)
(* gateway reads its clock first; the script that drops the old stamps,    *)
(* counts and adds runs at Redis later, after scripts of other gateways    *)
(* perhaps that were stamped after it.                                     *)
(*                                                                         *)
(* A stamp carries its age instead of its date, and is forgotten when no   *)
(* script can ask for it any more: time itself has no bound.               *)
(***************************************************************************)
EXTENDS Integers, FiniteSets

CONSTANTS
  Gateways, Requests, NoStamp,
  GatewayOf,  \* the gateway process that serves a request
  Limit,      \* tripStartRateLimitLimit
  Window,     \* tripStartRateLimitWindow, in ticks
  MaxDelay,   \* ticks between a stamp and its script at most, a bound
  Seqs        \* values of slidingWindowSeq that stamps of one tick may have

ASSUME RateLimitAssumption ==
  /\ GatewayOf \in [Requests -> Gateways]
  /\ Limit \in Nat \ {0} /\ Window \in Nat \ {0}
  /\ MaxDelay \in 0..(Window - 1)

\* Every script removes stamps older than these: its own stamp is at most
\* MaxDelay old.
Ages == 0..(Window + MaxDelay - 1)

\* The member of the sorted set, its score included.
Stamps == [age : Ages, seq : Seqs]

ASSUME NoStampAssumption == NoStamp \notin Stamps

VARIABLES
  zset,      \* Redis: ratelimit:trip:<user>
  ttl,       \* ticks until that key expires, 0 if there is none
  sent,      \* the stamp of each request whose script has not run
  admitted,  \* history: the requests let through, by gateway and stamp
  slowest    \* history: the longest delay of a script so far

limitVars == <<zset, ttl, sent, admitted, slowest>>

LimitTypeOK ==
  /\ zset \subseteq Stamps /\ Cardinality(zset) <= Limit
  /\ ttl \in 0..Window /\ (ttl = 0 => zset = {})
  /\ sent \in [Requests -> Stamps \cup {NoStamp}]
  /\ \A r \in Requests : sent[r] # NoStamp => sent[r].age <= MaxDelay
  /\ admitted \subseteq [gateway : Gateways, stamp : Stamps]
  /\ slowest \in 0..MaxDelay

LimitInit ==
  /\ zset = {} /\ ttl = 0
  /\ sent = [r \in Requests |-> NoStamp]
  /\ admitted = {} /\ slowest = 0

-----------------------------------------------------------------------------

\* The numbers a gateway has not given away in this tick; another gateway
\* has a counter of its own, and may give the same one.
Fresh(g) ==
  {q \in Seqs :
     LET now == [age |-> 0, seq |-> q] IN
     /\ [gateway |-> g, stamp |-> now] \notin admitted
     /\ \A r \in Requests : GatewayOf[r] = g => sent[r] # now}

\* The clock is read and the member is built.
Stamp(r) ==
  /\ sent[r] = NoStamp
  /\ \E q \in Fresh(GatewayOf[r]) :
       sent' = [sent EXCEPT ![r] = [age |-> 0, seq |-> q]]
  /\ UNCHANGED <<zset, ttl, admitted, slowest>>

\* A mutation of Kept: the window is one tick short.
KeptTooShort(s) == {m \in zset : m.age + 1 < s.age + Window}

\* ZREMRANGEBYSCORE up to now - window, now being the stamp of the request.
Kept(s) == {m \in zset : m.age < s.age + Window}

\* A mutation of Room: one more than the limit.
RoomForOne(s) == Cardinality(Kept(s)) <= Limit

Room(s) == Cardinality(Kept(s)) < Limit

\* What every run of the script does.
Ran(r) ==
  /\ sent[r] # NoStamp
  /\ sent' = [sent EXCEPT ![r] = NoStamp]
  /\ slowest' = IF sent[r].age > slowest THEN sent[r].age ELSE slowest

\* ZADD and PEXPIRE; a member that is there already is not counted twice.
Admit(r) ==
  /\ Ran(r) /\ Room(sent[r])
  /\ zset' = Kept(sent[r]) \cup {sent[r]}
  /\ ttl' = Window
  /\ admitted' = admitted \cup {[gateway |-> GatewayOf[r], stamp |-> sent[r]]}

\* A mutation of Refuse: what is refused counts as well.
RefuseAndCount(r) ==
  /\ Ran(r) /\ ~Room(sent[r])
  /\ zset' = Kept(sent[r]) \cup {sent[r]}
  /\ UNCHANGED <<ttl, admitted>>

Refuse(r) ==
  /\ Ran(r) /\ ~Room(sent[r])
  /\ zset' = Kept(sent[r])
  /\ UNCHANGED <<ttl, admitted>>

\* The call never gets to Redis.
NoScript(r) ==
  /\ sent[r] # NoStamp
  /\ sent' = [sent EXCEPT ![r] = NoStamp]
  /\ UNCHANGED <<zset, ttl, admitted, slowest>>

-----------------------------------------------------------------------------

Older(s) == [s EXCEPT !.age = @ + 1]

\* Time passes; Redis deletes a key whose TTL has ended.
Tick ==
  /\ \A r \in Requests : sent[r] # NoStamp => sent[r].age < MaxDelay
  /\ ttl' = IF ttl = 0 THEN 0 ELSE ttl - 1
  /\ zset' = IF ttl' = 0 THEN {} ELSE {Older(m) : m \in zset} \cap Stamps
  /\ sent' = [r \in Requests |-> IF sent[r] = NoStamp THEN NoStamp ELSE Older(sent[r])]
  /\ admitted' = {[a EXCEPT !.stamp = Older(@)] : a \in admitted}
                   \cap [gateway : Gateways, stamp : Stamps]
  /\ UNCHANGED slowest

-----------------------------------------------------------------------------

\* The requests let through in the ticks from age b on, for as long as the
\* limit is kept.  No gateway gives a stamp twice: each is one request.
LetThrough(b) ==
  {a \in admitted : b <= a.stamp.age /\ a.stamp.age < b + Window - slowest}

\* Two gateways gave the same member, millisecond and sequence number.
Collided(b) == \E x, y \in LetThrough(b) : x # y /\ x.stamp = y.stamp

(* Never are more than Limit requests let through within Window, less the  *)
(* longest that a script has been under way: while none is overtaken the   *)
(* limit is exact, and a slow gateway weakens it by its delay and no more, *)
(* whether old stamps were removed by a script that overtook it or went    *)
(* with the key (ratelimit.go:27-41, 83-96).  It is exceeded only where    *)
(* two gateways gave the same member, which the sorted set has once        *)
(* (ratelimit.go:102-105); even then no gateway exceeds it alone.          *)
WithinLimit ==
  \A b \in Ages :
    /\ Collided(b) \/ Cardinality(LetThrough(b)) <= Limit
    /\ \A g \in Gateways : Cardinality({a \in LetThrough(b) : a.gateway = g}) <= Limit

(* A rider is refused for what was let through and nothing else: refused   *)
(* requests neither count nor keep the key alive, so that however hard one *)
(* clicks, the window empties (ratelimit.go:27-44).                        *)
OnlyAdmittedCount ==
  /\ zset \subseteq {a.stamp : a \in admitted}
  /\ ttl > 0 => \E a \in admitted : a.stamp.age < Window + slowest
=============================================================================
