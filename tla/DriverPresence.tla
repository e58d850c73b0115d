-------------------------- MODULE DriverPresence --------------------------
(***************************************************************************)
(* How one driver is online: its WebSocket connections to the gateway, the *)
(* gateway's map of connections, RegisterDriver and UnregisterDriver of    *)
(* the driver service, the goroutine that moves the driver along a route,  *)
(* the driver's keys in Redis, and the searches that sweep dead entries.   *)
(*                                                                         *)
(* A driver may connect again while the gateway still holds an older       *)
(* connection.  Drivers share no key, no task and no entry of the map, so  *)
(* one is modelled.  A pipeline is one step.                               *)
(***************************************************************************)
EXTENDS Naturals

CONSTANTS
  Conns, NoConn,   \* the driver's connections
  Instances,       \* of the driver service
  Homes,           \* which instance each connection's gRPC client may be on
  Mishaps,         \* the kinds of mishap that may happen
  MaxMishaps       \* bound: mishaps in all

\* "call": a failed call to Redis; "instance", "gateway": a process dies.
Kinds == {"call", "instance", "gateway"}

ASSUME PresenceAssumption ==
  /\ NoConn \notin Conns
  /\ Homes \subseteq [Conns -> Instances]
  /\ Mishaps \subseteq Kinds /\ MaxMishaps \in Nat

VARIABLES
  manager,    \* gateway: the connection the driver's messages go to
  stage,      \* gateway and driver service: where the handler of each is
  waitsFor,   \* the connection whose task a handler waits to see end
  task,       \* driverMovements: each instance's task for the driver
  mover,      \* the goroutine of the task each connection's register made
  cancelled,  \* tasks whose context is cancelled
  redis,      \* Redis: the driver's entries, see Entries
  sweep,      \* what a search does next about the driver
  home,       \* gateway: the instance each connection's gRPC client talks to
  overlap,    \* history: was a connection opened before the last was gone
  mishaps, happened

tasks   == <<task, mover, cancelled>>
gateway == <<manager, stage, waitsFor, home, overlap>>
luck    == <<mishaps, happened>>
vars == <<gateway, tasks, redis, sweep, luck>>

Registering == {"register", "geohash", "hset", "replace", "await"}
Leaving == {"remove", "stop", "drain", "erase"}

\* A goroutine in its select, or with the geohash still to store.
Alive == {"running", "showing"}

\* driver:info:<id> and whether it lacks a TTL, the driver in the sets
\* drivers:online:<slug> and geo:drivers:<slug>.
Entries == [info : BOOLEAN, eternal : BOOLEAN, listed : BOOLEAN, geo : BOOLEAN]
NoEntry == [info |-> FALSE, eternal |-> FALSE, listed |-> FALSE, geo |-> FALSE]

TypeOK ==
  /\ manager \in Conns \cup {NoConn}
  /\ stage \in [Conns -> {"new", "online", "gone"} \cup Registering \cup Leaving]
  /\ waitsFor \in [Conns -> Conns \cup {NoConn}]
  /\ home \in Homes
  /\ task \in [Instances -> Conns \cup {NoConn}]
  /\ mover \in [Conns -> {"none", "reserved", "running", "showing", "done"}]
  /\ cancelled \subseteq Conns
  /\ redis \in Entries /\ (redis.eternal => redis.info)
  /\ overlap \in BOOLEAN
  /\ sweep \in {"idle", "probe", "sweepSet", "sweepGeo"}
  /\ mishaps \in 0..MaxMishaps /\ happened \subseteq Mishaps
  /\ \A i \in Instances : task[i] # NoConn =>
       mover[task[i]] \in {"reserved"} \cup Alive /\ task[i] \notin cancelled

Init ==
  /\ manager = NoConn
  /\ home \in Homes
  /\ stage = [c \in Conns |-> "new"]
  /\ waitsFor = [c \in Conns |-> NoConn]
  /\ task = [i \in Instances |-> NoConn]
  /\ mover = [c \in Conns |-> "none"]
  /\ cancelled = {}
  /\ redis = NoEntry
  /\ overlap = FALSE
  /\ sweep = "idle"
  /\ mishaps = 0 /\ happened = {}

-----------------------------------------------------------------------------

Mishap(k) ==
  /\ k \in Mishaps /\ mishaps < MaxMishaps
  /\ mishaps' = mishaps + 1
  /\ happened' = happened \cup {k}

Smooth == UNCHANGED luck

Goto(c, to) == stage' = [stage EXCEPT ![c] = to]
Move(c, from, to) == stage[c] = from /\ Goto(c, to)

Wait(c, t) == waitsFor' = [waitsFor EXCEPT ![c] = t]

TaskOf(c) == task[home[c]]
SetTask(c, t) == task' = [task EXCEPT ![home[c]] = t]

Cancel(t) == cancelled' = cancelled \cup ({t} \ {NoConn})

\* A mutation of Ended: nobody waits for a goroutine to end.
NoWait(c) == TRUE
Ended(c) == waitsFor[c] \notin {d \in Conns : mover[d] # "done"}

-----------------------------------------------------------------------------
(* A connection opens, and RegisterDriver.                                 *)

\* The newest connection takes the driver's place in the map.
Open(c) ==
  /\ Move(c, "new", "register") /\ manager' = c
  /\ overlap' = (overlap \/ \E d \in Conns : stage[d] \notin {"new", "gone"})
  /\ UNCHANGED <<waitsFor, home, tasks, redis, sweep, luck>>

\* HSET: a hash that is made anew has no TTL.
Hash == [redis EXCEPT !.info = TRUE, !.eternal = @ \/ ~redis.info]

\* HSET and EXPIRE.
HashWithTtl == [redis EXCEPT !.info = TRUE, !.eternal = FALSE]

\* HSET, EXPIRE, SADD, GEOADD; when the pipeline fails, the first of these
\* may have been run.
Register(c) ==
  /\ stage[c] = "register"
  /\ \/ /\ redis' = [HashWithTtl EXCEPT !.listed = TRUE, !.geo = TRUE]
        /\ Goto(c, "geohash") /\ Smooth
     \/ /\ Mishap("call") /\ Goto(c, "remove")
        /\ redis' \in {redis, Hash, HashWithTtl, [HashWithTtl EXCEPT !.listed = TRUE]}
  /\ UNCHANGED <<manager, waitsFor, home, overlap, tasks, sweep>>

\* GEOHASH, for show: it answers for a member that is missing, too, so that
\* only a failed call leaves nothing to store.
GeoHash(c) ==
  /\ \/ Move(c, "geohash", "hset") /\ Smooth
     \/ Move(c, "geohash", "replace") /\ Mishap("call")
  /\ UNCHANGED <<manager, waitsFor, home, overlap, tasks, redis, sweep>>

\* One HSET: it makes the hash anew, without a TTL, where that was deleted
\* meanwhile.  Its error is not looked at.
StoreGeohash ==
  \/ redis' = Hash /\ Smooth
  \/ redis' \in {redis, Hash} /\ Mishap("call")

StoreHash(c) ==
  /\ Move(c, "hset", "replace") /\ StoreGeohash
  /\ UNCHANGED <<manager, waitsFor, home, overlap, tasks, sweep>>

\* A mutation of ReplaceTask: the task in the map is overwritten, no more.
Overwrite(c) ==
  /\ Move(c, "replace", "await") /\ SetTask(c, c)
  /\ mover' = [mover EXCEPT ![c] = "reserved"]
  /\ UNCHANGED <<manager, waitsFor, home, overlap, cancelled, redis, sweep, luck>>

\* startDriverMovement: the task in the map is replaced and cancelled.
ReplaceTask(c) ==
  /\ Move(c, "replace", "await")
  /\ Wait(c, TaskOf(c)) /\ Cancel(TaskOf(c)) /\ SetTask(c, c)
  /\ mover' = [mover EXCEPT ![c] = "reserved"]
  /\ UNCHANGED <<manager, home, overlap, redis, sweep, luck>>

\* The old goroutine has ended, the new one starts.
StartMover(c) ==
  /\ Ended(c) /\ Move(c, "await", "online") /\ Wait(c, NoConn)
  /\ mover' = [mover EXCEPT ![c] = "running"]
  /\ UNCHANGED <<manager, home, overlap, task, cancelled, redis, sweep, luck>>

-----------------------------------------------------------------------------
(* simulateMovement.                                                       *)

\* A mutation of Tick: only the hash is written.
TickHashOnly(c) ==
  /\ mover[c] = "running" /\ mover' = [mover EXCEPT ![c] = "showing"]
  /\ redis' = HashWithTtl
  /\ UNCHANGED <<gateway, task, cancelled, sweep, luck>>

\* UpdateDriverLocation: GEOADD, HSET, EXPIRE; a pipeline that fails may
\* have run the first of them.  A write may outlast the cancellation.
Tick(c) ==
  /\ mover[c] = "running"
  /\ \/ /\ mover' = [mover EXCEPT ![c] = "showing"] /\ Smooth
        /\ redis' = [HashWithTtl EXCEPT !.geo = TRUE]
     \/ /\ Mishap("call") /\ UNCHANGED mover
        /\ redis' \in {redis, [redis EXCEPT !.geo = TRUE], [Hash EXCEPT !.geo = TRUE]}
  /\ UNCHANGED <<gateway, task, cancelled, sweep>>

\* Its GEOHASH, which changes nothing and may fail, and the HSET.
Show(c) ==
  /\ mover[c] = "showing" /\ mover' = [mover EXCEPT ![c] = "running"]
  /\ StoreGeohash
  /\ UNCHANGED <<gateway, task, cancelled, sweep>>

\* A mutation of Exit: the goroutine does not look at its context.
ExitNever(c) == FALSE /\ UNCHANGED vars

\* A call whose context is cancelled before it is sent fails.
Exit(c) ==
  /\ mover[c] \in Alive /\ c \in cancelled
  /\ mover' = [mover EXCEPT ![c] = "done"]
  /\ UNCHANGED <<gateway, task, cancelled, redis, sweep, luck>>

-----------------------------------------------------------------------------
(* A connection closes: the deferred clean-up, and UnregisterDriver.       *)

Close(c) ==
  /\ Move(c, "online", "remove")
  /\ UNCHANGED <<manager, waitsFor, home, overlap, tasks, redis, sweep, luck>>

\* Remove goes by the driver's id, whatever connection is in the map.
Remove(c) ==
  /\ Move(c, "remove", "stop") /\ manager' = NoConn
  /\ UNCHANGED <<waitsFor, home, overlap, tasks, redis, sweep, luck>>

\* A mutation of Stop: the task stays in the map.
StopKeeps(c) ==
  /\ Move(c, "stop", "drain")
  /\ Wait(c, TaskOf(c)) /\ Cancel(TaskOf(c))
  /\ UNCHANGED <<manager, home, overlap, task, mover, redis, sweep, luck>>

\* A mutation of Stop: the entry of the map is deleted, no more.
StopForgets(c) ==
  /\ Move(c, "stop", "drain") /\ SetTask(c, NoConn)
  /\ UNCHANGED <<manager, waitsFor, home, overlap, mover, cancelled, redis, sweep, luck>>

\* stopDriverMovement takes the task in the map, whoever started it.
Stop(c) ==
  /\ Move(c, "stop", "drain")
  /\ Wait(c, TaskOf(c)) /\ Cancel(TaskOf(c)) /\ SetTask(c, NoConn)
  /\ UNCHANGED <<manager, home, overlap, mover, redis, sweep, luck>>

Drain(c) ==
  /\ Ended(c) /\ Move(c, "drain", "erase") /\ Wait(c, NoConn)
  /\ UNCHANGED <<manager, home, overlap, tasks, redis, sweep, luck>>

NoHash == [redis EXCEPT !.info = FALSE, !.eternal = FALSE]

\* DEL, SREM, ZREM, in this order; the error is not looked at.
Erase(c) ==
  /\ Move(c, "erase", "gone")
  /\ \/ redis' = NoEntry /\ Smooth
     \/ /\ Mishap("call")
        /\ redis' \in {redis, NoHash, [NoHash EXCEPT !.listed = FALSE]}
  /\ UNCHANGED <<manager, waitsFor, home, overlap, tasks, sweep>>

-----------------------------------------------------------------------------
(* Redis, the searches, and deaths.                                        *)

\* A task, or a handler that has just written, keeps the TTL from ending.
Refreshed ==
  \E c \in Conns : mover[c] \in Alive \/ stage[c] \in Registering

\* driver:info:<id> is gone 5 min after the last write.
Expire ==
  /\ redis.info /\ ~redis.eternal /\ ~Refreshed /\ redis' = NoHash
  /\ UNCHANGED <<gateway, tasks, sweep, luck>>

\* FindNearbyDrivers or FindAvailableDrivers has the driver in its answer
\* from Redis, looks for its hash, and sweeps a driver that has none.
LookUp ==
  /\ sweep = "idle" /\ (redis.geo \/ redis.listed) /\ sweep' = "probe"
  /\ UNCHANGED <<gateway, tasks, redis, luck>>

Probe ==
  /\ sweep = "probe" /\ sweep' = IF redis.info THEN "idle" ELSE "sweepSet"
  /\ UNCHANGED <<gateway, tasks, redis, luck>>

SweepSet ==
  /\ sweep = "sweepSet" /\ sweep' \in {"sweepGeo", "idle"}
  /\ redis' = [redis EXCEPT !.listed = FALSE]
  /\ UNCHANGED <<gateway, tasks, luck>>

SweepGeo ==
  /\ sweep = "sweepGeo" /\ sweep' = "idle"
  /\ redis' = [redis EXCEPT !.geo = FALSE]
  /\ UNCHANGED <<gateway, tasks, luck>>

\* An instance dies: its goroutines end, its calls fail, the map is empty.
InstanceDies(i) ==
  LET on == {c \in Conns : home[c] = i} IN
  /\ Mishap("instance")
  /\ task' = [task EXCEPT ![i] = NoConn]
  /\ mover' = [c \in Conns |->
       IF c \in on /\ mover[c] # "none" THEN "done" ELSE mover[c]]
  /\ waitsFor' = [c \in Conns |-> IF c \in on THEN NoConn ELSE waitsFor[c]]
  /\ stage' = [c \in Conns |->
       CASE c \in on /\ stage[c] \in Registering -> "remove"
         [] c \in on /\ stage[c] \in Leaving \ {"remove"} -> "gone"
         [] OTHER -> stage[c]]
  /\ UNCHANGED <<manager, home, overlap, cancelled, redis, sweep>>

\* The gateway dies between two calls, and with it every connection, none of
\* them cleaned up.
GatewayDies ==
  /\ Mishap("gateway")
  /\ manager' = NoConn
  /\ stage' = [c \in Conns |-> IF stage[c] \in {"online", "remove"} THEN "gone" ELSE stage[c]]
  /\ \A c \in Conns : stage[c] \in {"new", "online", "remove", "gone"}
  /\ UNCHANGED <<waitsFor, home, overlap, tasks, redis, sweep>>

-----------------------------------------------------------------------------

Handle(c) ==
  \/ Register(c) \/ GeoHash(c) \/ StoreHash(c) \/ ReplaceTask(c) \/ StartMover(c)
  \/ Remove(c) \/ Stop(c) \/ Drain(c) \/ Erase(c)

Search == LookUp \/ Probe \/ SweepSet \/ SweepGeo

Next ==
  \/ \E c \in Conns : Open(c) \/ Handle(c) \/ Tick(c) \/ Show(c) \/ Exit(c) \/ Close(c)
  \/ Expire \/ Search \/ GatewayDies
  \/ \E i \in Instances : InstanceDies(i)

Spec == Init /\ [][Next]_vars

\* Handlers and goroutines run, tickers fire, Redis expires.
FairSpec ==
  /\ Spec
  /\ \A c \in Conns : WF_vars(Handle(c)) /\ WF_vars(Tick(c) \/ Show(c)) /\ WF_vars(Exit(c))
  /\ WF_vars(Expire)

-----------------------------------------------------------------------------

Online(c) == stage[c] = "online"
Offline == \A c \in Conns : stage[c] \in {"new", "gone"}

(* A search can return the driver.                                         *)
Findable == redis.info /\ (redis.geo \/ redis.listed)

(* No goroutine is lost: one that runs on is the task in its instance's    *)
(* map, where the next register or unregister finds it, so one at most per *)
(* instance keeps writing the driver's position (service.go:141-142).      *)
NoStrayMover ==
  \A c \in Conns : mover[c] \in Alive => c \in cancelled \/ TaskOf(c) = c

(* When the last connection has gone, nothing writes the driver back, and  *)
(* unless a call failed or a process died nothing of it is left in Redis   *)
(* (service.go:393-396), however the handlers of its connections overlap.  *)
NoWriteBack ==
  Offline /\ "gateway" \notin happened =>
    /\ \A c \in Conns : mover[c] \notin Alive
    /\ happened = {} => redis = NoEntry

(* A driver that is online, with no two connections at once, is found in   *)
(* the end by the search a new trip makes, FindNearbyDrivers, and reached  *)
(* through the gateway's map: where a search ran into its registration and *)
(* swept it away, the next tick puts its position back (service.go:366-368, *)
(* 258-272).  The set that only FindAvailableDrivers reads is swept as     *)
(* well, and no tick puts the driver back there.                           *)
OnlineIsFound ==
  \A c \in Conns :
    Online(c) ~> (redis.info /\ redis.geo /\ manager = c) \/ ~Online(c) \/ overlap \/ "instance" \in happened

(* Every handler returns: those that wait for each other's goroutines      *)
(* never wait for ever (service.go:168-171, 197-199).                      *)
HandlersReturn ==
  \A c \in Conns : stage[c] \in Registering \cup Leaving
                     ~> stage[c] \notin Registering \cup Leaving

(* A driver whose connections, one at a time, are all gone is forgotten,   *)
(* though its clean-up failed or an instance died: "if it is not renewed   *)
(* in this time, it is considered offline" (service.go:17-19).  A gateway  *)
(* that dies leaves a goroutine behind that renews the TTL for ever; and   *)
(* a hash has no TTL at all where a pipeline failed between its HSET and   *)
(* its EXPIRE, or a geohash was stored after another connection's          *)
(* clean-up: should every clean-up fail too, it stays.                     *)
GoneIsForgotten ==
  Offline /\ Findable ~>
    ~Findable \/ ~Offline \/ overlap \/ redis.eternal \/ "gateway" \in happened
=============================================================================
