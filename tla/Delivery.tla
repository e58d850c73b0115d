----------------------------- MODULE Delivery -----------------------------
(***************************************************************************)
(* The gateway's way from a notification queue to a user's WebSocket: the  *)
(* QueueConsumer with its bounded handlers and bounded tries, the          *)
(* ConnectionManager with one entry per user and one mutex per connection, *)
(* and the life of a connection's own handler.                             *)
(*                                                                         *)
(* A handler is named after its message, a connection's goroutine after    *)
(* its socket; both call SendMessage, and are its senders.  Registration   *)
(* at the driver service is DriverPresence's.                              *)
(*                                                                         *)
(* There is one gateway process, as its map of connections requires: with  *)
(* several, a message taken by one whose map has no entry for the user is  *)
(* dropped there while the user is connected to another                    *)
(* (connection_messager.go:36).                                            *)
(***************************************************************************)
EXTENDS Naturals, FiniteSets

CONSTANTS
  Users,
  Drivers,    \* the users whose connections are handled as drivers'
  Sockets, NoSocket,
  UserOf,     \* the user id a connection was opened with
  Messages, Nobody,
  OwnerOf,    \* the OwnerID of a message
  Malformed,  \* the messages that cannot be decoded
  QueueOf,    \* the queue a message waits in
  Slots,      \* qcMaxConcurrent
  Tries,      \* qcSendRetries + 1
  MaxMishaps  \* bound of closed channels, restarts and stalled clients

Senders == Messages \cup Sockets

ASSUME SendersAssumption ==
  /\ Messages \cap Sockets = {} /\ Nobody \notin Senders /\ NoSocket \notin Sockets
  /\ UserOf \in [Sockets -> Users] /\ OwnerOf \in [Messages -> Users]
  /\ Drivers \subseteq Users /\ Malformed \subseteq Messages
  /\ DOMAIN QueueOf = Messages
ASSUME LimitsAssumption ==
  /\ Slots \in Nat \ {0} /\ Tries \in Nat \ {0} /\ MaxMishaps \in Nat

VARIABLES
  place,      \* RabbitMQ: where each message is
  attached,   \* the gateway's AMQP channel is open
  call,       \* where each sender is in SendMessage, or what it returned
  target,     \* the connection a sender has looked up
  attempt,    \* which try of its message a handler is at
  manager,    \* ConnectionManager.connections
  holder,     \* the sender that has a connection's mutex
  server,     \* the goroutine that serves each connection
  peer,       \* the client at the other end
  overlapped, \* history: users with two connections at once since they had none
  sure,       \* history: messages tried with their owner connected ever since
  sent,       \* history: writes of a message in its delivery that succeeded
  dropped,    \* history: messages given up in their last delivery
  mishaps

queueVars  == <<place, attached>>
sendVars   == <<call, target, attempt>>
socketVars == <<manager, server, peer, overlapped>>
history    == <<sure, sent, dropped>>
vars == <<queueVars, sendVars, socketVars, holder, history, mishaps>>

Calls == {"none", "malformed", "lookup", "lock", "write", "sent", "failed"}

\* Between Add and Remove.
Mapped == {"register", "greeting", "serving"}

TypeOK ==
  /\ place \in [Messages -> {"ready", "unacked", "acked"}]
  /\ attached \in BOOLEAN
  /\ call \in [Senders -> Calls]
  /\ target \in [Senders -> Sockets \cup {NoSocket}]
  /\ attempt \in [Messages -> 1..Tries]
  /\ manager \in [Users -> Sockets \cup {NoSocket}]
  /\ holder \in [Sockets -> Senders \cup {Nobody}]
  /\ server \in [Sockets -> {"new", "closing", "closed"} \cup Mapped]
  /\ peer \in [Sockets -> {"live", "stalled", "gone"}]
  /\ overlapped \subseteq Users /\ sure \subseteq Messages /\ dropped \subseteq Messages
  /\ sent \in [Messages -> 0..1] /\ mishaps \in 0..MaxMishaps
  /\ \A x \in Senders : call[x] \in {"lock", "write"} => target[x] # NoSocket
  /\ \A x \in Senders : call[x] = "write" <=> \E s \in Sockets : holder[s] = x
  /\ \A s \in Sockets : holder[s] # Nobody => target[holder[s]] = s

Init ==
  /\ place = [m \in Messages |-> "ready"] /\ attached = TRUE
  /\ call = [x \in Senders |-> "none"]
  /\ target = [x \in Senders |-> NoSocket]
  /\ attempt = [m \in Messages |-> 1]
  /\ manager = [u \in Users |-> NoSocket]
  /\ holder = [s \in Sockets |-> Nobody]
  /\ server = [s \in Sockets |-> "new"]
  /\ peer = [s \in Sockets |-> "live"]
  /\ overlapped = {} /\ sure = {} /\ dropped = {}
  /\ sent = [m \in Messages |-> 0] /\ mishaps = 0

Mishap == mishaps < MaxMishaps /\ mishaps' = mishaps + 1

-----------------------------------------------------------------------------
(* SendMessage.                                                            *)

UserFor(x) == IF x \in Messages THEN OwnerOf[x] ELSE UserOf[x]

Goto(x, c) == call' = [call EXCEPT ![x] = c]

\* The entry of the map, under the map's mutex.
Lookup(x) ==
  LET s == manager[UserFor(x)] IN
  /\ call[x] = "lookup"
  /\ Goto(x, IF s = NoSocket THEN "failed" ELSE "lock")
  /\ target' = [target EXCEPT ![x] = s]
  /\ UNCHANGED <<queueVars, attempt, socketVars, holder, history, mishaps>>

\* A mutation of Free: writers do not wait for one another.
FreeForAll(s) == TRUE
Free(s) == holder[s] = Nobody

\* The mutex of the connection, whatever has become of it meanwhile.
Lock(x) ==
  /\ call[x] = "lock" /\ Free(target[x])
  /\ holder' = [holder EXCEPT ![target[x]] = x]
  /\ Goto(x, "write")
  /\ UNCHANGED <<queueVars, target, attempt, socketVars, history, mishaps>>

\* WriteJSON has no deadline: it waits for a client that does not read.  To
\* a client that left it may still succeed, into the buffers of the system.
Write(x) ==
  LET s == target[x] IN
  /\ call[x] = "write"
  /\ \/ /\ server[s] # "closed" /\ peer[s] = "live"
        /\ Goto(x, "sent")
        /\ sent' = IF x \in Messages THEN [sent EXCEPT ![x] = @ + 1] ELSE sent
     \/ server[s] # "closed" /\ peer[s] = "gone" /\ Goto(x, "sent") /\ UNCHANGED sent
     \/ (server[s] = "closed" \/ peer[s] = "gone") /\ Goto(x, "failed") /\ UNCHANGED sent
  /\ holder' = [holder EXCEPT ![s] = Nobody]
  /\ UNCHANGED <<queueVars, target, attempt, socketVars, sure, dropped, mishaps>>

Send(x) == Lookup(x) \/ Lock(x) \/ Write(x)

-----------------------------------------------------------------------------
(* QueueConsumer.                                                          *)

Handled(q) == {m \in Messages : QueueOf[m] = q /\ call[m] # "none"}

\* The user has a connection that is served, whatever the map says.
Connected(u) ==
  \E s \in Sockets : UserOf[s] = u /\ server[s] \in Mapped /\ peer[s] # "gone"

\* A try of m begins.
Try(m) == sure' = IF Connected(OwnerOf[m]) THEN sure \cup {m} ELSE sure \ {m}

\* The loop takes a slot of the semaphore and starts a handler; the prefetch
\* is as large, and a slot is freed after the acknowledgement.
Start(m) ==
  /\ attached /\ place[m] = "ready" /\ call[m] = "none"
  /\ Cardinality(Handled(QueueOf[m])) < Slots
  /\ place' = [place EXCEPT ![m] = "unacked"]
  /\ Goto(m, IF m \in Malformed THEN "malformed" ELSE "lookup")
  /\ Try(m) /\ dropped' = dropped \ {m}
  /\ UNCHANGED <<attached, target, attempt, socketVars, holder, sent, mishaps>>

\* An acknowledgement on a closed channel fails, and its error is ignored.
Acked(m) == IF attached THEN [place EXCEPT ![m] = "acked"] ELSE place

\* The handler returns.
Return(m) ==
  /\ Goto(m, "none")
  /\ target' = [target EXCEPT ![m] = NoSocket]
  /\ attempt' = [attempt EXCEPT ![m] = 1]
  /\ sent' = [sent EXCEPT ![m] = 0]
  /\ UNCHANGED <<attached, socketVars, holder, mishaps>>

Ack(m) ==
  /\ call[m] \in {"sent", "malformed"}
  /\ place' = Acked(m) /\ Return(m)
  /\ sure' = sure \ {m} /\ UNCHANGED dropped

\* A mutation of Again: the connection is looked up once for all tries.
AgainThere(m) ==
  /\ call[m] = "failed" /\ attempt[m] < Tries
  /\ attempt' = [attempt EXCEPT ![m] = @ + 1]
  /\ Goto(m, IF target[m] = NoSocket THEN "lookup" ELSE "lock") /\ Try(m)
  /\ UNCHANGED <<queueVars, target, socketVars, holder, sent, dropped, mishaps>>

\* After a pause, the next try looks the user up again.
Again(m) ==
  /\ call[m] = "failed" /\ attempt[m] < Tries
  /\ attempt' = [attempt EXCEPT ![m] = @ + 1]
  /\ Goto(m, "lookup") /\ Try(m)
  /\ UNCHANGED <<queueVars, target, socketVars, holder, sent, dropped, mishaps>>

\* A mutation of GiveUp: what cannot be delivered goes back to the queue.
Requeued(m) ==
  /\ call[m] = "failed" /\ attempt[m] = Tries
  /\ place' = [place EXCEPT ![m] = "ready"]
  /\ dropped' = dropped \cup {m} /\ Return(m) /\ UNCHANGED sure

\* After the last try the message is acknowledged and lost.
GiveUp(m) ==
  /\ call[m] = "failed" /\ attempt[m] = Tries
  /\ place' = Acked(m)
  /\ dropped' = dropped \cup {m} /\ Return(m) /\ UNCHANGED sure

Handler(m) == Send(m) \/ Ack(m) \/ Again(m) \/ GiveUp(m)

-----------------------------------------------------------------------------
(* The goroutine of a connection.                                          *)

Move(s, from, to) == server[s] \in from /\ server' = [server EXCEPT ![s] = to]

\* Messages whose owner has no connection left are sure of nothing any more.
Unsure == sure' = {m \in sure : Connected(OwnerOf[m])'}

Others(s) == {t \in Sockets \ {s} : UserOf[t] = UserOf[s] /\ server[t] \in Mapped}

\* Upgrade and Add: the newest connection takes its user's entry.
Add(s) ==
  LET u == UserOf[s] IN
  /\ Move(s, {"new"}, IF u \in Drivers THEN "register" ELSE "serving")
  /\ manager' = [manager EXCEPT ![u] = s]
  /\ overlapped' = IF Others(s) = {} THEN overlapped ELSE overlapped \cup {u}
  /\ UNCHANGED <<queueVars, sendVars, peer, holder, history, mishaps>>

\* A mutation of Remove: the entry is kept.
RemoveNothing(s) == UNCHANGED manager

\* Remove goes by the user, whichever connection is in the entry.
Remove(s) == manager' = [manager EXCEPT ![UserOf[s]] = NoSocket]

\* The handler returns: its deferred calls remove the entry, then close.
Leave(s, from) ==
  /\ Move(s, from, "closing") /\ Remove(s)
  /\ overlapped' = IF Others(s) = {} THEN overlapped \ {UserOf[s]} ELSE overlapped
  /\ UNCHANGED <<queueVars, attempt, peer, holder, sent, dropped, mishaps>>
  /\ Unsure

\* RegisterDriver answers, and the driver is to be told; or it fails.
Register(s) ==
  \/ /\ Move(s, {"register"}, "greeting") /\ Goto(s, "lookup")
     /\ UNCHANGED <<queueVars, target, attempt, manager, peer, overlapped, holder,
                    history, mishaps>>
  \/ Leave(s, {"register"}) /\ UNCHANGED <<call, target>>

\* SendMessage with the driver's data has returned.
Greeted(s) ==
  /\ server[s] = "greeting"
  /\ call' = [call EXCEPT ![s] = "none"] /\ target' = [target EXCEPT ![s] = NoSocket]
  /\ \/ /\ call[s] = "sent" /\ Move(s, {"greeting"}, "serving")
        /\ UNCHANGED <<queueVars, attempt, manager, peer, overlapped, holder, history, mishaps>>
     \/ call[s] = "failed" /\ Leave(s, {"greeting"})

ReadFails(s) == peer[s] = "gone"

Notice(s) == ReadFails(s) /\ Leave(s, {"serving"}) /\ UNCHANGED <<call, target>>

Close(s) ==
  /\ Move(s, {"closing"}, "closed") /\ peer' = [peer EXCEPT ![s] = "gone"]
  /\ UNCHANGED <<queueVars, sendVars, manager, overlapped, holder, history, mishaps>>

Serve(s) == Send(s) \/ Register(s) \/ Greeted(s) \/ Notice(s) \/ Close(s)

\* The client stops reading, reads again, or goes.
Client(s) ==
  /\ server[s] # "new"
  /\ UNCHANGED <<queueVars, sendVars, manager, server, overlapped, holder, sent, dropped>>
  /\ \/ Mishap /\ peer[s] = "live" /\ peer' = [peer EXCEPT ![s] = "stalled"]
     \/ peer[s] = "stalled" /\ peer' = [peer EXCEPT ![s] = "live"] /\ UNCHANGED mishaps
     \/ peer[s] # "gone" /\ peer' = [peer EXCEPT ![s] = "gone"] /\ UNCHANGED mishaps
  /\ Unsure

-----------------------------------------------------------------------------
(* Failures.                                                               *)

Requeue == [m \in Messages |-> IF place[m] = "unacked" THEN "ready" ELSE place[m]]

\* The broker takes back what was not acknowledged; nothing reconnects.
ChannelCloses ==
  /\ Mishap /\ attached /\ attached' = FALSE /\ place' = Requeue
  /\ UNCHANGED <<sendVars, socketVars, holder, history>>

\* The gateway dies with all its connections and is started again.
Restart ==
  /\ Mishap /\ attached' = TRUE /\ place' = Requeue
  /\ call' = [x \in Senders |-> "none"]
  /\ target' = [x \in Senders |-> NoSocket]
  /\ manager' = [u \in Users |-> NoSocket]
  /\ holder' = [s \in Sockets |-> Nobody]
  /\ server' = [s \in Sockets |-> IF server[s] = "new" THEN "new" ELSE "closed"]
  /\ peer' = [s \in Sockets |-> IF server[s] = "new" THEN "live" ELSE "gone"]
  /\ overlapped' = {} /\ sure' = {}
  /\ attempt' = [m \in Messages |-> 1]
  /\ sent' = [m \in Messages |-> 0]
  /\ UNCHANGED dropped

Next ==
  \/ \E m \in Messages : Start(m) \/ Handler(m)
  \/ \E s \in Sockets : Add(s) \/ Serve(s) \/ Client(s)
  \/ ChannelCloses \/ Restart

Spec == Init /\ [][Next]_vars

\* Goroutines run, and the broker hands out what waits.  Clients come, stall
\* and go as they like.
FairSpec ==
  /\ Spec
  /\ \A m \in Messages : WF_vars(Start(m)) /\ WF_vars(Handler(m))
  /\ \A s \in Sockets : WF_vars(Serve(s))

-----------------------------------------------------------------------------

(* The map never keeps a connection whose handler has ended, and a user    *)
(* whose connections follow one another has the one that is served in it.  *)
(* One who connects again while an older connection is still served may be *)
(* left without an entry by the older one's clean-up, until all of them    *)
(* have closed (connection_messager.go:62-66, ws.go:62-63, 113-115).       *)
RightEntry ==
  \A u \in Users :
    LET served == {s \in Sockets : UserOf[s] = u /\ server[s] \in Mapped} IN
    /\ manager[u] \in served \cup {NoSocket}
    /\ u \notin overlapped /\ served # {} => served = {manager[u]}

(* A message is given up though its user has been connected to this        *)
(* gateway since its last try began, only where connections of the user    *)
(* overlapped and the older one's clean-up took the entry away (ws.go:62,  *)
(* 114).  The tries catch everybody else who connects late                 *)
(* (queue_consumer.go:21-23, 125-133).                                     *)
LateUserIsReached == \A m \in sure \cap dropped : OwnerOf[m] \in overlapped

Stuck(x) == call[x] \in {"lock", "write"} /\ peer[target[x]] = "stalled"

(* Every message leaves its queue, delivered or dropped, without blocking  *)
(* the others (queue_consumer.go:52-53), unless its own user does not read *)
(* or as many as there are slots wait for users who do not: WriteJSON has  *)
(* no deadline, so a client that stalls takes slots for good.              *)
QueueDrains ==
  \A m \in Messages :
    place[m] = "ready" ~>
      \/ place[m] = "acked" \/ ~attached \/ Stuck(m)
      \/ Cardinality({k \in Handled(QueueOf[m]) : Stuck(k)}) = Slots

=============================================================================
