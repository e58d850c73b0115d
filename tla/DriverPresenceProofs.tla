------------------------ MODULE DriverPresenceProofs ------------------------
(***************************************************************************)
(* What TLAPS proves of DriverPresence, for any number of connections,     *)
(* instances of the driver service and mishaps.                            *)
(***************************************************************************)
EXTENDS DriverPresence, TLAPS

\* A connection whose register has made no task yet.
Early == {"new", "register", "geohash", "hset", "replace"}

\* A goroutine that runs, or will when the one it waits for has ended.
Lives == {"reserved"} \cup Alive

\* Whoever waits for a goroutine is in one of these.
Waiting == {"await", "drain"}

\* A task is on the instance of its connection; what is not in the map is
\* cancelled.
TaskInv ==
  /\ \A i \in Instances : task[i] # NoConn => home[task[i]] = i
  /\ \A c \in Conns : stage[c] \in Early => mover[c] = "none"
  /\ \A c \in Conns : stage[c] = "await" => mover[c] = "reserved"
  /\ \A c \in cancelled : mover[c] # "none"
  /\ \A c \in Conns : mover[c] \in Lives => c \in cancelled \/ TaskOf(c) = c

\* Somebody waits for a cancelled goroutine until it has ended.
WaitInv ==
  /\ \A d \in Conns : waitsFor[d] # NoConn => home[waitsFor[d]] = home[d]
  /\ \A c \in cancelled : mover[c] # "done" =>
       \E d \in Conns : waitsFor[d] = c /\ stage[d] \in Waiting

\* Unless the gateway died, the connection of a task has yet to stop it.
HoldInv ==
  "gateway" \notin happened =>
    \A i \in Instances : task[i] # NoConn => stage[task[i]] \in {"await", "online", "remove", "stop"}

\* As long as all goes well, the last clean-up leaves nothing in Redis.
RedisInv == happened = {} /\ Offline => redis = NoEntry

PresenceInv == TypeOK /\ TaskInv /\ WaitInv /\ HoldInv /\ RedisInv

-----------------------------------------------------------------------------
(* Types.                                                                  *)

GoodEntry(e) == e \in Entries /\ (e.eternal => e.info)

\* The hash, with and without its TTL, and what is left without it.
LEMMA EntryTypes ==
  ASSUME GoodEntry(redis)
  PROVE  /\ GoodEntry(Hash) /\ GoodEntry(HashWithTtl) /\ GoodEntry(NoHash) /\ GoodEntry(NoEntry)
         /\ GoodEntry([HashWithTtl EXCEPT !.listed = TRUE])
         /\ GoodEntry([HashWithTtl EXCEPT !.listed = TRUE, !.geo = TRUE])
         /\ GoodEntry([HashWithTtl EXCEPT !.geo = TRUE])
         /\ GoodEntry([redis EXCEPT !.geo = TRUE]) /\ GoodEntry([Hash EXCEPT !.geo = TRUE])
         /\ GoodEntry([NoHash EXCEPT !.listed = FALSE])
         /\ GoodEntry([redis EXCEPT !.listed = FALSE]) /\ GoodEntry([redis EXCEPT !.geo = FALSE])
  <1> USE DEF GoodEntry, Entries
  <1>1. GoodEntry(Hash) /\ GoodEntry(HashWithTtl) /\ GoodEntry(NoHash) /\ GoodEntry(NoEntry)
    BY DEF Hash, HashWithTtl, NoHash, NoEntry
  <1>2. ASSUME NEW e, GoodEntry(e)
        PROVE  /\ GoodEntry([e EXCEPT !.listed = TRUE]) /\ GoodEntry([e EXCEPT !.geo = TRUE])
               /\ GoodEntry([e EXCEPT !.listed = FALSE]) /\ GoodEntry([e EXCEPT !.geo = FALSE])
               /\ GoodEntry([e EXCEPT !.listed = TRUE, !.geo = TRUE])
    BY <1>2
  <1>3. QED
    BY <1>1, <1>2

\* There is one entry without anything.
LEMMA EmptyEntry ==
  ASSUME NEW e \in Entries, ~e.info, ~e.eternal, ~e.listed, ~e.geo
  PROVE  e = NoEntry
  BY DEF Entries, NoEntry

\* Redis holds an entry of the driver, and what never expires is there.
LEMMA RedisTypes ==
  ASSUME TypeOK, [Next]_vars
  PROVE  redis' \in Entries /\ (redis'.eternal => redis'.info)
  <1> SUFFICES GoodEntry(redis)'
    BY DEF GoodEntry
  <1>1. GoodEntry(redis)
    BY DEF TypeOK, GoodEntry
  <1>2. redis' \in {redis, Hash, HashWithTtl, NoHash, NoEntry,
                    [HashWithTtl EXCEPT !.listed = TRUE],
                    [HashWithTtl EXCEPT !.listed = TRUE, !.geo = TRUE],
                    [HashWithTtl EXCEPT !.geo = TRUE],
                    [redis EXCEPT !.geo = TRUE], [Hash EXCEPT !.geo = TRUE],
                    [NoHash EXCEPT !.listed = FALSE],
                    [redis EXCEPT !.listed = FALSE], [redis EXCEPT !.geo = FALSE]}
    BY DEF Next, Open, Handle, Register, GeoHash, StoreHash, StoreGeohash, ReplaceTask, StartMover, Remove, Stop, Drain,
           Erase, Tick, Show, Exit, Close, Expire, Search, LookUp, Probe, SweepSet, SweepGeo,
           GatewayDies, InstanceDies, vars
  <1>3. QED
    BY <1>1, <1>2, EntryTypes DEF GoodEntry

\* Mishaps are counted, and their kinds kept.
LEMMA LuckTypes ==
  ASSUME TypeOK, [Next]_vars
  PROVE  /\ mishaps' \in 0..MaxMishaps /\ happened' \subseteq Mishaps
         /\ happened \subseteq happened'
  <1>1. UNCHANGED luck \/ \E k \in Kinds : Mishap(k)
    BY DEF Next, Open, Handle, Register, GeoHash, StoreHash, StoreGeohash, ReplaceTask, StartMover, Remove, Stop, Drain,
           Erase, Tick, Show, Exit, Close, Expire, Search, LookUp, Probe, SweepSet, SweepGeo,
           GatewayDies, InstanceDies, vars, luck, Smooth, Kinds
  <1>2. QED
    BY <1>1, PresenceAssumption DEF TypeOK, luck, Mishap

\* The small variables.
LEMMA SmallTypes ==
  ASSUME TypeOK, [Next]_vars
  PROVE  /\ manager' \in Conns \cup {NoConn} /\ home' = home
         /\ overlap' \in BOOLEAN /\ sweep' \in {"idle", "probe", "sweepSet", "sweepGeo"}
  <1>1. manager' \in Conns \cup {NoConn} /\ home' = home
    BY DEF TypeOK, Next, Open, Handle, Register, GeoHash, StoreHash, StoreGeohash, ReplaceTask, StartMover, Remove, Stop, Drain,
           Erase, Tick, Show, Exit, Close, Expire, Search, LookUp, Probe, SweepSet, SweepGeo,
           GatewayDies, InstanceDies, vars, gateway
  <1>2. overlap' \in BOOLEAN
    BY DEF TypeOK, Next, Open, Handle, Register, GeoHash, StoreHash, StoreGeohash, ReplaceTask, StartMover, Remove, Stop, Drain,
           Erase, Tick, Show, Exit, Close, Expire, Search, LookUp, Probe, SweepSet, SweepGeo,
           GatewayDies, InstanceDies, vars, gateway
  <1>3. sweep' \in {"idle", "probe", "sweepSet", "sweepGeo"}
    BY DEF TypeOK, Next, Open, Handle, Register, GeoHash, StoreHash, StoreGeohash, ReplaceTask, StartMover, Remove, Stop, Drain,
           Erase, Tick, Show, Exit, Close, Expire, Search, LookUp, Probe, SweepSet, SweepGeo,
           GatewayDies, InstanceDies, vars, gateway
  <1>4. QED
    BY <1>1, <1>2, <1>3

\* What is left of TypeOK once these are known.
MoveTypes ==
  /\ stage \in [Conns -> {"new", "online", "gone"} \cup Registering \cup Leaving]
  /\ waitsFor \in [Conns -> Conns \cup {NoConn}]
  /\ task \in [Instances -> Conns \cup {NoConn}]
  /\ mover \in [Conns -> {"none", "reserved", "running", "showing", "done"}]
  /\ cancelled \subseteq Conns
  /\ \A i \in Instances : task[i] # NoConn => mover[task[i]] \in Lives /\ task[i] \notin cancelled

\* The types that the goroutines are concerned with give the rest.
LEMMA TypeParts == ASSUME TypeOK, [Next]_vars, MoveTypes' PROVE TypeOK'
  BY RedisTypes, LuckTypes, SmallTypes DEF TypeOK, MoveTypes, Lives

-----------------------------------------------------------------------------
(* Tasks, goroutines and those who wait for them.                          *)

MoveInv == MoveTypes /\ TaskInv /\ WaitInv /\ HoldInv

\* And they are part of the type invariant.
LEMMA MoveTypesHold == TypeOK => MoveTypes /\ home \in [Conns -> Instances]
  BY PresenceAssumption DEF TypeOK, MoveTypes, Lives

\* A handler that goes on and touches no task.
Plain(c) ==
  Open(c) \/ Register(c) \/ GeoHash(c) \/ StoreHash(c) \/ Close(c) \/ Remove(c) \/ Erase(c)

\* Steps of a registration that touch neither the map nor a goroutine.
LEMMA PlainStep ==
  ASSUME TypeOK, MoveInv, NEW c \in Conns, Plain(c), happened \subseteq happened'
  PROVE  MoveInv'
  <1> USE MoveTypesHold DEF MoveInv, MoveTypes
  <1>1. UNCHANGED <<tasks, waitsFor, home>>
    BY DEF Plain, Open, Register, GeoHash, StoreHash, Close, Remove, Erase
  <1>2. \E l \in {"register", "geohash", "hset", "replace", "remove", "stop", "gone"} :
          /\ stage' = [stage EXCEPT ![c] = l]
          /\ stage[c] \notin Waiting
          /\ l \in Early => stage[c] \in Early
          /\ stage[c] \in {"await", "online", "remove", "stop"} => l \in {"remove", "stop"}
    BY DEF Plain, Open, Register, GeoHash, StoreHash, Close, Remove, Erase, Move, Goto, Waiting, Early
  <1>3. MoveTypes'
    BY <1>1, <1>2 DEF tasks, Registering, Leaving
  <1>4. TaskInv'
    BY <1>1, <1>2 DEF tasks, TaskInv, TaskOf, Early
  <1>5. WaitInv'
    BY <1>1, <1>2 DEF tasks, WaitInv, Waiting
  <1>6. HoldInv'
    BY <1>1, <1>2 DEF tasks, HoldInv
  <1>7. QED
    BY <1>3, <1>4, <1>5, <1>6

\* A registration replaces the task in the map and cancels the one it found.
LEMMA ReplaceStep ==
  ASSUME TypeOK, MoveInv, NEW c \in Conns, ReplaceTask(c)
  PROVE  MoveInv'
  <1> USE MoveTypesHold, PresenceAssumption DEF MoveInv, MoveTypes, Goto, Move, Wait, Cancel, SetTask
  <1>1. /\ stage[c] = "replace" /\ stage' = [stage EXCEPT ![c] = "await"]
        /\ waitsFor' = [waitsFor EXCEPT ![c] = TaskOf(c)]
        /\ cancelled' = cancelled \cup ({TaskOf(c)} \ {NoConn})
        /\ task' = [task EXCEPT ![home[c]] = c]
        /\ mover' = [mover EXCEPT ![c] = "reserved"]
        /\ UNCHANGED <<home, happened>>
    BY DEF ReplaceTask, luck
  <1>2. mover[c] = "none" /\ c \notin cancelled /\ TaskOf(c) # c
    BY <1>1 DEF TaskInv, Early, TaskOf, Lives, Alive
  <1>3. TaskOf(c) \in Conns \cup {NoConn}
        /\ (TaskOf(c) # NoConn => home[TaskOf(c)] = home[c] /\ mover[TaskOf(c)] \in Lives)
    BY DEF TaskInv, TaskOf
  <1>4. MoveTypes'
    <2>1. \A i \in Instances : task'[i] # NoConn => mover'[task'[i]] \in Lives /\ task'[i] \notin cancelled'
      <3> SUFFICES ASSUME NEW i \in Instances, task'[i] # NoConn
                   PROVE  mover'[task'[i]] \in Lives /\ task'[i] \notin cancelled'
        OBVIOUS
      <3>1. CASE i = home[c]
        BY <1>1, <1>2, <3>1 DEF Lives
      <3>2. CASE i # home[c]
        <4>1. task'[i] = task[i] /\ task[i] # c /\ task[i] # TaskOf(c)
          BY <1>1, <1>3, <3>2 DEF TaskInv, TaskOf
        <4>2. QED
          BY <1>1, <4>1 DEF Lives
      <3>3. QED
        BY <3>1, <3>2
    <2>2. QED
      BY <1>1, <1>3, <2>1 DEF Registering
  <1>5. TaskInv'
    <2>1. \A i \in Instances : task'[i] # NoConn => home[task'[i]] = i
      BY <1>1 DEF TaskInv
    <2>2. \A d \in Conns : stage'[d] \in Early => mover'[d] = "none"
      BY <1>1 DEF TaskInv, Early
    <2>3. \A d \in Conns : stage'[d] = "await" => mover'[d] = "reserved"
      BY <1>1 DEF TaskInv
    <2>4. \A d \in cancelled' : mover'[d] # "none"
      BY <1>1, <1>3 DEF TaskInv, Lives, Alive
    <2>5. \A d \in Conns : mover'[d] \in Lives => d \in cancelled' \/ task'[home[d]] = d
      BY <1>1 DEF TaskInv, TaskOf
    <2>6. QED
      BY <1>1, <2>1, <2>2, <2>3, <2>4, <2>5 DEF TaskInv, TaskOf
  <1>6. WaitInv'
    <2>1. \A d \in Conns : waitsFor'[d] # NoConn => home[waitsFor'[d]] = home[d]
      BY <1>1, <1>3 DEF WaitInv
    <2>2. \A d \in cancelled' : mover'[d] # "done" =>
            \E e \in Conns : waitsFor'[e] = d /\ stage'[e] \in Waiting
      BY <1>1, <1>2, <1>3 DEF WaitInv, Waiting
    <2>3. QED
      BY <1>1, <2>1, <2>2 DEF WaitInv
  <1>7. HoldInv'
    BY <1>1, <1>2 DEF HoldInv
  <1>8. QED
    BY <1>4, <1>5, <1>6, <1>7

\* An unregistration takes the task out of the map and cancels it.
LEMMA StopStep ==
  ASSUME TypeOK, MoveInv, NEW c \in Conns, Stop(c)
  PROVE  MoveInv'
  <1> USE MoveTypesHold, PresenceAssumption DEF MoveInv, MoveTypes, Goto, Move, Wait, Cancel, SetTask
  <1>1. /\ stage[c] = "stop" /\ stage' = [stage EXCEPT ![c] = "drain"]
        /\ waitsFor' = [waitsFor EXCEPT ![c] = TaskOf(c)]
        /\ cancelled' = cancelled \cup ({TaskOf(c)} \ {NoConn})
        /\ task' = [task EXCEPT ![home[c]] = NoConn]
        /\ UNCHANGED <<home, mover, happened>>
    BY DEF Stop, luck
  <1>2. TaskOf(c) \in Conns \cup {NoConn}
        /\ (TaskOf(c) # NoConn => home[TaskOf(c)] = home[c] /\ mover[TaskOf(c)] \in Lives)
    BY DEF TaskInv, TaskOf
  <1>3. \A i \in Instances : task'[i] # NoConn => task'[i] = task[i] /\ home[task[i]] # home[c]
    BY <1>1 DEF TaskInv
  <1>4. MoveTypes'
    <2>1. \A i \in Instances : task'[i] # NoConn => mover'[task'[i]] \in Lives /\ task'[i] \notin cancelled'
      BY <1>1, <1>2, <1>3
    <2>2. QED
      BY <1>1, <1>2, <2>1 DEF Leaving
  <1>5. TaskInv'
    <2>1. \A d \in Conns : mover'[d] \in Lives => d \in cancelled' \/ task'[home[d]] = d
      BY <1>1 DEF TaskInv, TaskOf
    <2>2. QED
      BY <1>1, <1>2, <1>3, <2>1 DEF TaskInv, TaskOf, Early, Lives, Alive
  <1>6. WaitInv'
    BY <1>1, <1>2 DEF WaitInv, Waiting
  <1>7. HoldInv'
    <2>1. \A i \in Instances : task'[i] # NoConn => task'[i] # c
      BY <1>3
    <2>2. QED
      BY <1>1, <1>3, <2>1 DEF HoldInv
  <1>8. QED
    BY <1>4, <1>5, <1>6, <1>7

\* A goroutine starts under its own task; who waits for one's end leaves it.
LEMMA EndedStep ==
  ASSUME TypeOK, MoveInv, NEW c \in Conns, StartMover(c) \/ Drain(c)
  PROVE  MoveInv'
  <1> USE MoveTypesHold, PresenceAssumption DEF MoveInv, MoveTypes, Goto, Move, Wait
  <1>1. /\ waitsFor' = [waitsFor EXCEPT ![c] = NoConn]
        /\ waitsFor[c] \in Conns => mover[waitsFor[c]] = "done"
        /\ UNCHANGED <<home, task, cancelled, happened>>
    BY DEF StartMover, Drain, Ended, tasks, luck
  <1>2. \/ /\ stage[c] = "await" /\ stage' = [stage EXCEPT ![c] = "online"]
           /\ mover' = [mover EXCEPT ![c] = "running"]
        \/ /\ stage[c] = "drain" /\ stage' = [stage EXCEPT ![c] = "erase"] /\ mover' = mover
    BY DEF StartMover, Drain, tasks
  <1>3. stage[c] = "await" => mover[c] = "reserved"
    BY DEF TaskInv
  <1>4. MoveTypes'
    BY <1>1, <1>2 DEF Leaving, Lives, Alive
  <1>5. TaskInv'
    BY <1>1, <1>2, <1>3 DEF TaskInv, TaskOf, Early, Lives, Alive
  <1>6. WaitInv'
    BY <1>1, <1>2, <1>3 DEF WaitInv, Waiting
  <1>7. HoldInv'
    BY <1>1, <1>2 DEF HoldInv
  <1>8. QED
    BY <1>4, <1>5, <1>6, <1>7

\* A round of a movement goroutine, its last write, and its end.
LEMMA MoverStep ==
  ASSUME TypeOK, MoveInv, NEW c \in Conns, Tick(c) \/ Show(c) \/ Exit(c), happened \subseteq happened'
  PROVE  MoveInv'
  <1> USE MoveTypesHold, PresenceAssumption DEF MoveInv, MoveTypes
  <1>1. UNCHANGED <<stage, waitsFor, home, task, cancelled>>
    BY DEF Tick, Show, Exit, gateway
  <1>2. /\ mover[c] \in {"running", "showing"}
        /\ \/ mover' = mover
           \/ mover' = [mover EXCEPT ![c] = "running"]
           \/ mover' = [mover EXCEPT ![c] = "showing"]
           \/ mover' = [mover EXCEPT ![c] = "done"] /\ c \in cancelled
    BY DEF Tick, Show, Exit, Alive
  <1>3. MoveTypes'
    BY <1>1, <1>2 DEF Lives, Alive
  <1>4. TaskInv'
    BY <1>1, <1>2 DEF TaskInv, TaskOf, Early, Lives, Alive
  <1>5. WaitInv'
    BY <1>1, <1>2 DEF WaitInv
  <1>6. HoldInv'
    BY <1>1 DEF HoldInv
  <1>7. QED
    BY <1>3, <1>4, <1>5, <1>6

\* An instance that dies takes its map and its goroutines with it.
LEMMA InstanceStep ==
  ASSUME TypeOK, MoveInv, NEW i \in Instances, InstanceDies(i)
  PROVE  MoveInv'
  <1> USE MoveTypesHold, PresenceAssumption DEF MoveInv, MoveTypes
  <1>1. /\ task' = [task EXCEPT ![i] = NoConn]
        /\ UNCHANGED <<home, cancelled>> /\ happened \subseteq happened'
    BY DEF InstanceDies, Mishap
  <1>2. /\ mover' = [c \in Conns |-> IF home[c] = i /\ mover[c] # "none" THEN "done" ELSE mover[c]]
        /\ waitsFor' = [c \in Conns |-> IF home[c] = i THEN NoConn ELSE waitsFor[c]]
    BY DEF InstanceDies
  <1>3. stage' = [c \in Conns |->
                   CASE home[c] = i /\ stage[c] \in Registering -> "remove"
                     [] home[c] = i /\ stage[c] \in Leaving \ {"remove"} -> "gone"
                     [] OTHER -> stage[c]]
    <2>1. \A c \in Conns : c \in {d \in Conns : home[d] = i} <=> home[c] = i
      OBVIOUS
    <2>2. QED
      BY <2>1 DEF InstanceDies
  <1>4. \A c \in Conns : home[c] # i => stage'[c] = stage[c] /\ mover'[c] = mover[c] /\ waitsFor'[c] = waitsFor[c]
    BY <1>2, <1>3
  <1>5. \A c \in Conns : home[c] = i =>
           /\ mover'[c] \in {"none", "done"} /\ waitsFor'[c] = NoConn
           /\ mover[c] = "none" => mover'[c] = "none"
           /\ mover[c] # "none" => mover'[c] = "done"
    BY <1>2
  <1>6. \A c \in Conns : home[c] = i =>
           /\ stage'[c] \in {"new", "remove", "online", "gone"}
           /\ stage'[c] = "new" => stage[c] = "new"
    BY <1>3 DEF Registering, Leaving
  <1>7. \A j \in Instances : task'[j] # NoConn => task'[j] = task[j] /\ home[task[j]] # i /\ task[j] \in Conns
    BY <1>1 DEF TaskInv
  <1>8. MoveTypes'
    <2>1. stage' \in [Conns -> {"new", "online", "gone"} \cup Registering \cup Leaving]
      BY <1>3 DEF Leaving
    <2>2. mover' \in [Conns -> {"none", "reserved", "running", "showing", "done"}]
          /\ waitsFor' \in [Conns -> Conns \cup {NoConn}] /\ task' \in [Instances -> Conns \cup {NoConn}]
      BY <1>1, <1>2
    <2>3. \A j \in Instances : task'[j] # NoConn => mover'[task'[j]] \in Lives /\ task'[j] \notin cancelled'
      BY <1>1, <1>4, <1>7
    <2>4. QED
      BY <1>1, <2>1, <2>2, <2>3
  <1>9. TaskInv'
    <2>1. \A c \in Conns : stage'[c] \in Early => mover'[c] = "none"
      BY <1>4, <1>5, <1>6 DEF TaskInv, Early
    <2>2. \A c \in Conns : stage'[c] = "await" => mover'[c] = "reserved"
      BY <1>4, <1>6 DEF TaskInv
    <2>3. \A c \in cancelled : mover'[c] # "none"
      BY <1>4, <1>5 DEF TaskInv
    <2>4. \A c \in Conns : mover'[c] \in Lives => c \in cancelled \/ task'[home[c]] = c
      BY <1>1, <1>4, <1>5 DEF TaskInv, TaskOf, Lives, Alive
    <2>5. QED
      BY <1>1, <1>7, <2>1, <2>2, <2>3, <2>4 DEF TaskInv, TaskOf
  <1>10. WaitInv'
    <2>1. \A d \in Conns : waitsFor'[d] # NoConn => home[waitsFor'[d]] = home[d]
      BY <1>4, <1>5 DEF WaitInv
    <2>2. ASSUME NEW c \in cancelled, mover'[c] # "done"
          PROVE  \E d \in Conns : waitsFor'[d] = c /\ stage'[d] \in Waiting
      <3>1. home[c] # i /\ mover[c] # "done"
        BY <1>4, <1>5, <2>2 DEF TaskInv
      <3>2. PICK d \in Conns : waitsFor[d] = c /\ stage[d] \in Waiting
        BY <3>1 DEF WaitInv
      <3>3. home[d] # i
        BY <3>1, <3>2 DEF WaitInv
      <3>4. QED
        BY <1>4, <3>2, <3>3
    <2>3. QED
      BY <1>1, <2>1, <2>2 DEF WaitInv
  <1>11. HoldInv'
    BY <1>1, <1>4, <1>7 DEF HoldInv
  <1>12. QED
    BY <1>8, <1>9, <1>10, <1>11

\* A gateway that dies loses no goroutine.
LEMMA GatewayStep ==
  ASSUME TypeOK, MoveInv, GatewayDies
  PROVE  MoveInv'
  <1> USE MoveTypesHold DEF MoveInv, MoveTypes
  <1>1. /\ UNCHANGED <<waitsFor, home, task, mover, cancelled>> /\ "gateway" \in happened'
        /\ stage' = [c \in Conns |-> IF stage[c] \in {"online", "remove"} THEN "gone" ELSE stage[c]]
    BY DEF GatewayDies, Mishap, tasks
  <1>2. MoveTypes'
    BY <1>1
  <1>3. TaskInv'
    BY <1>1 DEF TaskInv, TaskOf, Early
  <1>4. WaitInv'
    BY <1>1 DEF WaitInv, Waiting
  <1>5. HoldInv'
    BY <1>1 DEF HoldInv
  <1>6. QED
    BY <1>2, <1>3, <1>4, <1>5

\* Every step keeps track of every goroutine.
LEMMA MoveStep == TypeOK /\ MoveInv /\ [Next]_vars => MoveInv'
  <1> SUFFICES ASSUME TypeOK, MoveInv, [Next]_vars PROVE MoveInv'
    OBVIOUS
  <1>1. happened \subseteq happened'
    BY LuckTypes
  <1>2. CASE UNCHANGED <<gateway, tasks>>
    BY <1>1, <1>2 DEF gateway, tasks, MoveInv, MoveTypes, TaskInv, TaskOf, WaitInv, HoldInv
  <1>3. ASSUME NEW c \in Conns, Open(c) \/ Handle(c) \/ Tick(c) \/ Show(c) \/ Exit(c) \/ Close(c)
        PROVE  MoveInv'
    BY <1>1, <1>3, PlainStep, ReplaceStep, StopStep, EndedStep, MoverStep DEF Handle, Plain
  <1>4. CASE Expire \/ Search
    BY <1>2, <1>4 DEF Expire, Search, LookUp, Probe, SweepSet, SweepGeo
  <1>5. QED
    BY <1>2, <1>3, <1>4, GatewayStep, InstanceStep DEF Next, vars

-----------------------------------------------------------------------------
(* Nothing is written back.                                                *)

\* When all connections have gone, so have the goroutines.
LEMMA NobodyMoves ==
  ASSUME TypeOK, MoveInv, Offline, "gateway" \notin happened, NEW c \in Conns
  PROVE  mover[c] \notin Lives
  <1> SUFFICES ASSUME mover[c] \in Lives PROVE FALSE
    OBVIOUS
  <1>1. CASE c \in cancelled
    <2>1. PICK d \in Conns : stage[d] \in Waiting
      BY <1>1 DEF MoveInv, WaitInv, Lives, Alive
    <2>2. QED
      BY <2>1 DEF Offline, Waiting
  <1>2. CASE TaskOf(c) = c
    <2>1. home[c] \in Instances /\ task[home[c]] = c /\ c # NoConn
      BY <1>2, MoveTypesHold, PresenceAssumption DEF TaskOf
    <2>2. stage[c] \in {"await", "online", "remove", "stop"}
      BY <2>1 DEF MoveInv, HoldInv
    <2>3. QED
      BY <2>2 DEF Offline
  <1>3. QED
    BY <1>1, <1>2 DEF MoveInv, TaskInv

\* Every step keeps it that nobody is written back.
LEMMA RedisStep ==
  ASSUME PresenceInv, MoveInv', [Next]_vars
  PROVE  RedisInv'
  <1> SUFFICES ASSUME happened' = {}, Offline' PROVE redis' = NoEntry
    BY DEF RedisInv
  <1>1. TypeOK /\ MoveInv /\ happened = {}
    BY LuckTypes, MoveTypesHold DEF PresenceInv, MoveInv
  <1>2. \A k : ~Mishap(k)
    BY DEF Mishap
  <1>3. ASSUME NEW c \in Conns, Erase(c) PROVE redis' = NoEntry
    BY <1>2, <1>3 DEF Erase
  <1>4. ASSUME NEW c \in Conns, Open(c) \/ Close(c) \/ (Handle(c) /\ ~Erase(c)) PROVE FALSE
    <2>1. \E l : /\ stage' = [stage EXCEPT ![c] = l]
                 /\ l \in {"register", "geohash", "hset", "replace", "await", "online", "remove", "stop",
                            "drain", "erase"}
      BY <1>2, <1>4 DEF Open, Close, Handle, Register, GeoHash, StoreHash, StoreGeohash, ReplaceTask, StartMover,
                        Remove, Stop, Drain, Move, Goto
    <2>2. stage'[c] \notin {"new", "gone"}
      BY <1>1, <2>1 DEF TypeOK
    <2>3. QED
      BY <2>2 DEF Offline
  <1>5. CASE stage' = stage
    <2>1. Offline /\ redis = NoEntry
      BY <1>1, <1>5 DEF Offline, PresenceInv, RedisInv
    <2>2. \A c \in Conns : mover[c] \notin Lives
      BY <1>1, <2>1, NobodyMoves
    <2>3. ASSUME NEW c \in Conns, Tick(c) \/ Show(c) PROVE FALSE
      BY <2>2, <2>3 DEF Tick, Show, Lives, Alive
    <2>4. [NoEntry EXCEPT !.listed = FALSE] = NoEntry /\ [NoEntry EXCEPT !.geo = FALSE] = NoEntry
      <3>1. NoEntry \in Entries
        BY DEF NoEntry, Entries
      <3>2. /\ [NoEntry EXCEPT !.listed = FALSE] \in Entries /\ [NoEntry EXCEPT !.geo = FALSE] \in Entries
        BY <3>1 DEF Entries
      <3>3. QED
        BY <3>2, EmptyEntry DEF NoEntry
    <2>5. ASSUME NEW c \in Conns, Exit(c) PROVE redis' = redis
      BY <2>5 DEF Exit
    <2>6. CASE Search
      BY <2>1, <2>4, <2>6 DEF Search, LookUp, Probe, SweepSet, SweepGeo
    <2>7. ~Expire
      BY <2>1 DEF Expire, NoEntry
    <2>8. ~GatewayDies /\ \A i \in Instances : ~InstanceDies(i)
      BY <1>2 DEF GatewayDies, InstanceDies
    <2>9. CASE UNCHANGED vars
      BY <2>1, <2>9 DEF vars
    <2>10. QED
      BY <1>3, <1>4, <2>1, <2>3, <2>5, <2>6, <2>7, <2>8, <2>9 DEF Next
  <1>6. CASE stage' # stage
    <2>1. ~GatewayDies /\ \A i \in Instances : ~InstanceDies(i)
      BY <1>2 DEF GatewayDies, InstanceDies
    <2>2. ASSUME NEW c \in Conns, Tick(c) \/ Show(c) \/ Exit(c) PROVE stage' = stage
      BY <2>2 DEF Tick, Show, Exit, gateway
    <2>3. Search \/ Expire => stage' = stage
      BY DEF Search, LookUp, Probe, SweepSet, SweepGeo, Expire, gateway
    <2>4. QED
      BY <1>3, <1>4, <1>6, <2>1, <2>2, <2>3 DEF Next, vars, gateway
  <1>7. QED
    BY <1>5, <1>6

-----------------------------------------------------------------------------

\* The inductive invariant: a goroutine is in the map or cancelled, what is
\* cancelled is waited for, and what is in the map has a connection.
THEOREM PresenceInvariance == Spec => []PresenceInv
  <1>1. Init => PresenceInv
    <2> SUFFICES ASSUME Init PROVE PresenceInv
      OBVIOUS
    <2>1. NoEntry \in Entries /\ ~NoEntry.eternal
      BY DEF NoEntry, Entries
    <2>2. 0 \in 0..MaxMishaps
      BY PresenceAssumption
    <2>3. TypeOK
      BY <2>1, <2>2, PresenceAssumption DEF Init, TypeOK
    <2>4. TaskInv /\ WaitInv /\ HoldInv /\ RedisInv
      BY DEF Init, TaskInv, WaitInv, HoldInv, RedisInv, Early, Lives, Alive
    <2>5. QED
      BY <2>3, <2>4 DEF PresenceInv
  <1>2. PresenceInv /\ [Next]_vars => PresenceInv'
    <2> SUFFICES ASSUME PresenceInv, [Next]_vars PROVE PresenceInv'
      OBVIOUS
    <2>1. TypeOK /\ MoveInv
      BY MoveTypesHold DEF PresenceInv, MoveInv
    <2>2. MoveInv'
      BY <2>1, MoveStep
    <2>3. TypeOK' /\ RedisInv'
      BY <2>1, <2>2, TypeParts, RedisStep DEF MoveInv
    <2>4. QED
      BY <2>2, <2>3 DEF PresenceInv, MoveInv
  <1>3. QED
    BY <1>1, <1>2, PTL DEF Spec

\* Every variable keeps its type; the map holds no task whose goroutine has
\* ended or is cancelled.
THEOREM PresenceTypeCorrect == Spec => []TypeOK
  BY PresenceInvariance, PTL DEF PresenceInv

\* No goroutine runs on without being its instance's task
\* (startDriverMovement, stopDriverMovement).
THEOREM NoMoverIsLost == Spec => []NoStrayMover
  <1>1. PresenceInv => NoStrayMover
    BY DEF PresenceInv, TaskInv, NoStrayMover, Lives
  <1>2. QED
    BY <1>1, PresenceInvariance, PTL

\* When the last connection has gone no goroutine writes, and after a clean
\* course Redis is empty, however the handlers overlapped.
THEOREM NothingIsWrittenBack == Spec => []NoWriteBack
  <1>1. PresenceInv => NoWriteBack
    <2>1. PresenceInv => TypeOK /\ MoveInv /\ RedisInv
      BY MoveTypesHold DEF PresenceInv, MoveInv
    <2>2. QED
      BY <2>1, NobodyMoves DEF NoWriteBack, RedisInv, Lives
  <1>2. QED
    BY <1>1, PresenceInvariance, PTL
=============================================================================
