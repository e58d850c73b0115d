--------------------------- MODULE DeliveryProofs ---------------------------
(***************************************************************************)
(* What TLAPS proves of Delivery, for any users, connections, messages,    *)
(* queues, slots, tries and mishaps.                                       *)
(***************************************************************************)
EXTENDS Delivery, TLAPS

\* TypeOK in two parts: the types, and who has which connection's mutex.
BaseTypes ==
  /\ place \in [Messages -> {"ready", "unacked", "acked"}]
  /\ attached \in BOOLEAN
  /\ call \in [Senders -> Calls]
  /\ target \in [Senders -> Sockets \cup {NoSocket}]
  /\ attempt \in [Messages -> 1..Tries]
  /\ manager \in [Users -> Sockets \cup {NoSocket}]
  /\ holder \in [Sockets -> Senders \cup {Nobody}]
  /\ server \in [Sockets -> {"new", "closing", "closed"} \cup Mapped]
  /\ peer \in [Sockets -> {"live", "stalled", "gone"}]
  /\ overlapped \subseteq Users /\ sure \subseteq Messages /\ dropped \subseteq Messages
  /\ sent \in [Messages -> 0..1] /\ mishaps \in 0..MaxMishaps

MutexInv ==
  /\ \A x \in Senders : call[x] \in {"lock", "write"} => target[x] # NoSocket
  /\ \A x \in Senders : call[x] = "write" <=> \E s \in Sockets : holder[s] = x
  /\ \A s \in Sockets : holder[s] # Nobody => target[holder[s]] = s

\* A message is counted as sent only until its handler returns, a connection
\* sends only while it greets, and a dropped message has no handler.
LifeInv ==
  /\ \A m \in Messages : sent[m] # 0 => call[m] = "sent"
  /\ \A s \in Sockets : call[s] # "none" => server[s] = "greeting"
  /\ \A m \in dropped : call[m] = "none"

TypeInv == BaseTypes /\ MutexInv /\ LifeInv

\* RightEntry, connection by connection.
EntryInv ==
  \A u \in Users :
    /\ manager[u] # NoSocket => UserOf[manager[u]] = u /\ server[manager[u]] \in Mapped
    /\ u \notin overlapped =>
         \A s \in Sockets : UserOf[s] = u /\ server[s] \in Mapped => manager[u] = s

\* A message that is sure of its user has a connection to go to, and unless
\* the user's connections overlap its try has not failed, and is at the
\* connection in the user's entry.
SureInv ==
  \A m \in sure :
    /\ Connected(OwnerOf[m])
    /\ OwnerOf[m] \notin overlapped =>
         /\ call[m] \notin {"none", "failed"}
         /\ call[m] \in {"lock", "write"} => target[m] = manager[OwnerOf[m]]

DeliveryInv == TypeInv /\ EntryInv /\ SureInv

\* The type invariant, in two parts.
LEMMA TypeParts == TypeOK <=> BaseTypes /\ MutexInv
  BY DEF TypeOK, BaseTypes, MutexInv

-----------------------------------------------------------------------------
(* Types and mutexes.                                                      *)

\* No mutex changes hands when a sender outside of a write goes anywhere but
\* into one.
LEMMA QuietMutex ==
  ASSUME BaseTypes, MutexInv, NEW y \in Senders, holder' = holder,
         call[y] # "write", call'[y] # "write", call'[y] = "lock" => target'[y] # NoSocket,
         \A x \in Senders : x # y => call'[x] = call[x] /\ target'[x] = target[x]
  PROVE  MutexInv'
  <1>1. \A s \in Sockets : holder[s] # y
    BY DEF MutexInv
  <1>2. \A x \in Senders : call'[x] \in {"lock", "write"} => target'[x] # NoSocket
    BY DEF MutexInv
  <1>3. \A x \in Senders : call'[x] = "write" <=> \E s \in Sockets : holder'[s] = x
    BY <1>1 DEF MutexInv
  <1>4. \A s \in Sockets : holder'[s] # Nobody => target'[holder'[s]] = s
    BY <1>1 DEF MutexInv, BaseTypes
  <1>5. QED
    BY <1>2, <1>3, <1>4 DEF MutexInv

\* A step of SendMessage keeps the types, and the mutex of a connection with
\* its one holder.
LEMMA SendTypes ==
  ASSUME TypeInv, NEW x \in Senders, Send(x)
  PROVE  TypeInv'
  <1> USE SendersAssumption, LimitsAssumption
  <1> USE DEF BaseTypes, Calls
  <1>0. BaseTypes /\ MutexInv /\ LifeInv
    BY DEF TypeInv
  <1>1. UserFor(x) \in Users
    BY DEF UserFor, Senders
  <1>2. \A m \in Messages, s \in Sockets : m # s
    OBVIOUS
  <1>3. call[x] \in {"lookup", "lock", "write"} /\ x \in DOMAIN call
    BY <1>0 DEF Send, Lookup, Lock, Write
  <1>4. LifeInv'
    <2>1. server' = server /\ dropped' = dropped /\ x \notin dropped
      BY <1>0, <1>3 DEF Send, Lookup, Lock, Write, socketVars, history, LifeInv
    <2>2. \A y \in Senders : y # x => call'[y] = call[y]
      BY <1>0 DEF Send, Lookup, Lock, Write, Goto
    <2>3. x \in Sockets => server[x] = "greeting"
      BY <1>0, <1>3 DEF LifeInv
    <2>4. \A m \in Messages : m # x => sent'[m] = sent[m]
      BY <1>0 DEF Send, Lookup, Lock, Write, history
    <2>5. x \in Messages => (sent'[x] # 0 => call'[x] = "sent")
      BY <1>0, <1>3 DEF Send, Lookup, Lock, Write, history, Goto, LifeInv
    <2>6. \A m \in Messages : sent'[m] # 0 => call'[m] = "sent"
      BY <1>0, <2>2, <2>4, <2>5 DEF LifeInv, Senders
    <2>7. \A s \in Sockets : call'[s] # "none" => server'[s] = "greeting"
      BY <1>0, <2>1, <2>2, <2>3 DEF LifeInv, Senders
    <2>8. \A m \in dropped' : call'[m] = "none"
      BY <1>0, <2>1, <2>2 DEF LifeInv, Senders
    <2>9. QED
      BY <2>6, <2>7, <2>8 DEF LifeInv
  <1>5. CASE Lookup(x)
    <2>1. /\ UNCHANGED <<place, attached, attempt, manager, server, peer, overlapped, holder, sure, sent, dropped, mishaps>>
          /\ target' = [target EXCEPT ![x] = manager[UserFor(x)]]
          /\ call' = [call EXCEPT ![x] = IF manager[UserFor(x)] = NoSocket THEN "failed" ELSE "lock"]
      BY <1>5 DEF Lookup, Goto, queueVars, socketVars, history
    <2>2. BaseTypes'
      BY <1>0, <1>1, <2>1
    <2>3. MutexInv'
      <3>1. /\ call[x] # "write" /\ call'[x] # "write"
            /\ call'[x] = "lock" => target'[x] # NoSocket
            /\ \A y \in Senders : y # x => call'[y] = call[y] /\ target'[y] = target[y]
        BY <1>0, <1>5, <2>1 DEF Lookup
      <3>2. QED
        BY <1>0, <2>1, <3>1, QuietMutex
    <2>4. QED
      BY <1>4, <2>2, <2>3 DEF TypeInv
  <1>6. CASE Lock(x)
    <2>1. /\ UNCHANGED <<place, attached, attempt, manager, server, peer, overlapped, target, sure, sent, dropped, mishaps>>
          /\ call' = [call EXCEPT ![x] = "write"] /\ holder' = [holder EXCEPT ![target[x]] = x]
          /\ target[x] \in Sockets /\ holder[target[x]] = Nobody /\ call[x] = "lock"
      BY <1>0, <1>6 DEF Lock, Goto, Free, queueVars, socketVars, history, MutexInv
    <2>2. BaseTypes'
      BY <1>0, <2>1
    <2>3. MutexInv'
      <3>1. \A y \in Senders : call'[y] \in {"lock", "write"} => target'[y] # NoSocket
        BY <1>0, <2>1 DEF MutexInv
      <3>2. x # Nobody /\ \A s \in Sockets : holder[s] # x
        BY <1>0, <2>1 DEF MutexInv
      <3>3. \A s \in Sockets : holder'[s] = IF s = target[x] THEN x ELSE holder[s]
        BY <1>0, <2>1
      <3>4. \A y \in Senders : call'[y] = "write" <=> \E s \in Sockets : holder'[s] = y
        BY <1>0, <2>1, <3>2, <3>3 DEF MutexInv
      <3>5. \A s \in Sockets : holder'[s] # Nobody => target'[holder'[s]] = s
        BY <1>0, <2>1, <3>3 DEF MutexInv
      <3>6. QED
        BY <3>1, <3>4, <3>5 DEF MutexInv
    <2>4. QED
      BY <1>4, <2>2, <2>3 DEF TypeInv
  <1>7. CASE Write(x)
    <2>1. /\ UNCHANGED <<place, attached, attempt, manager, server, peer, overlapped, target, sure, dropped, mishaps>>
          /\ holder' = [holder EXCEPT ![target[x]] = Nobody]
          /\ target[x] \in Sockets /\ call[x] = "write"
          /\ \E c \in {"sent", "failed"} : call' = [call EXCEPT ![x] = c]
      BY <1>0, <1>7 DEF Write, Goto, queueVars, socketVars, MutexInv
    <2>2. sent' \in [Messages -> 0..1]
      BY <1>0, <1>7, <2>1 DEF Write, LifeInv
    <2>3. BaseTypes'
      BY <1>0, <2>1, <2>2
    <2>4. MutexInv'
      <3>1. holder[target[x]] = x /\ \A s \in Sockets : holder[s] = x => s = target[x]
        BY <1>0, <2>1 DEF MutexInv
      <3>2. \A s \in Sockets : holder'[s] = IF s = target[x] THEN Nobody ELSE holder[s]
        BY <1>0, <2>1
      <3>3. \A y \in Senders : y # x => call'[y] = call[y]
        BY <1>0, <2>1
      <3>4. call'[x] \in {"sent", "failed"}
        BY <1>0, <2>1
      <3>5. \A y \in Senders : call'[y] \in {"lock", "write"} => target'[y] # NoSocket
        BY <1>0, <2>1, <3>3, <3>4 DEF MutexInv
      <3>6. \A y \in Senders : call'[y] = "write" <=> \E s \in Sockets : holder'[s] = y
        BY <1>0, <2>1, <3>1, <3>2, <3>3, <3>4 DEF MutexInv
      <3>7. \A s \in Sockets : holder'[s] # Nobody => target'[holder'[s]] = s
        BY <1>0, <2>1, <3>2 DEF MutexInv
      <3>8. QED
        BY <3>5, <3>6, <3>7 DEF MutexInv
    <2>5. QED
      BY <1>4, <2>3, <2>4 DEF TypeInv
  <1>8. QED
    BY <1>5, <1>6, <1>7 DEF Send

\* What the steps of a message's handler outside of SendMessage have in
\* common: they are the message's, and no connection's.
HandlerStep(m) == Start(m) \/ Ack(m) \/ Again(m) \/ GiveUp(m)

\* What a handler's step does outside SendMessage: it begins a try, or takes
\* the outcome of the last one.
LEMMA HandlerMoves ==
  ASSUME TypeInv, NEW m \in Messages, HandlerStep(m)
  PROVE  /\ UNCHANGED <<attached, manager, server, peer, overlapped, holder, mishaps>>
         /\ call[m] \in {"none", "failed", "sent", "malformed"}
         /\ \E c \in {"none", "malformed", "lookup"} : call' = [call EXCEPT ![m] = c]
         /\ target' = target \/ target' = [target EXCEPT ![m] = NoSocket]
         /\ sent' = sent \/ sent' = [sent EXCEPT ![m] = 0]
         /\ call'[m] # "none" => sent' = sent /\ call[m] # "sent" /\ dropped' = dropped \ {m}
         /\ call'[m] = "none" => sent' = [sent EXCEPT ![m] = 0]
         /\ dropped \ {m} \subseteq dropped' /\ dropped' \subseteq dropped \cup {m}
  <1> USE SendersAssumption DEF TypeInv, BaseTypes, Calls
  <1>0. m \in DOMAIN call /\ m \notin {k \in dropped : call[k] = "failed"}
    BY DEF Senders, LifeInv
  <1>1. CASE Start(m)
    BY <1>0, <1>1 DEF Start, Goto, socketVars
  <1>2. CASE Ack(m)
    BY <1>0, <1>2 DEF Ack, Return, Goto, socketVars
  <1>3. CASE Again(m)
    BY <1>0, <1>3 DEF Again, Goto, queueVars, socketVars
  <1>4. CASE GiveUp(m)
    BY <1>0, <1>4 DEF GiveUp, Return, Goto, socketVars
  <1>5. QED
    BY <1>1, <1>2, <1>3, <1>4 DEF HandlerStep

\* A handler's step keeps the types.
LEMMA HandlerTypes ==
  ASSUME TypeInv, NEW m \in Messages, HandlerStep(m)
  PROVE  TypeInv'
  <1> USE SendersAssumption, LimitsAssumption
  <1>0. BaseTypes /\ MutexInv /\ LifeInv /\ m \in Senders
    BY DEF TypeInv, Senders
  <1>1. PICK c \in {"none", "malformed", "lookup"} : call' = [call EXCEPT ![m] = c]
    BY HandlerMoves
  <1>2. call' \in [Senders -> Calls] /\ call'[m] = c /\ \A x \in Senders : x # m => call'[x] = call[x]
    BY <1>0, <1>1 DEF BaseTypes, Calls
  <1>3. target' \in [Senders -> Sockets \cup {NoSocket}] /\ \A x \in Senders : x # m => target'[x] = target[x]
    BY <1>0, HandlerMoves DEF BaseTypes
  <1>4. sent' \in [Messages -> 0..1] /\ \A k \in Messages : k # m => sent'[k] = sent[k]
    BY <1>0, HandlerMoves DEF BaseTypes
  <1>5. place' \in [Messages -> {"ready", "unacked", "acked"}]
    BY <1>0 DEF HandlerStep, Start, Ack, Again, GiveUp, Acked, BaseTypes, queueVars
  <1>6. attempt' \in [Messages -> 1..Tries]
    BY <1>0 DEF HandlerStep, Start, Ack, Again, GiveUp, Return, BaseTypes
  <1>7. sure' \subseteq Messages /\ dropped' \subseteq Messages
    BY <1>0 DEF HandlerStep, Start, Ack, Again, GiveUp, Try, BaseTypes
  <1>8. BaseTypes'
    BY <1>0, <1>2, <1>3, <1>4, <1>5, <1>6, <1>7, HandlerMoves DEF BaseTypes
  <1>9. MutexInv'
    <2>1. holder' = holder /\ call[m] # "write" /\ call'[m] # "write" /\ call'[m] # "lock"
      BY <1>1, <1>2, HandlerMoves
    <2>2. QED
      BY <1>0, <1>2, <1>3, <2>1, QuietMutex
  <1>10. LifeInv'
    <2>1. sent'[m] = 0
      <3>1. CASE call'[m] = "none"
        BY <1>0, <3>1, HandlerMoves DEF BaseTypes
      <3>2. CASE call'[m] # "none"
        BY <1>0, <3>2, HandlerMoves DEF LifeInv
      <3>3. QED
        BY <3>1, <3>2
    <2>2. \A k \in Messages : sent'[k] # 0 => call'[k] = "sent"
      BY <1>0, <1>2, <1>4, <2>1 DEF LifeInv, Senders
    <2>3. \A s \in Sockets : call'[s] # "none" => server'[s] = "greeting"
      BY <1>0, <1>2, HandlerMoves DEF LifeInv, Senders
    <2>4. \A k \in dropped' : call'[k] = "none"
      <3>1. m \in dropped' => call'[m] = "none"
        BY HandlerMoves
      <3>2. QED
        BY <1>0, <1>2, <3>1, HandlerMoves DEF LifeInv, Senders, BaseTypes
    <2>5. QED
      BY <2>2, <2>3, <2>4 DEF LifeInv
  <1>11. QED
    BY <1>8, <1>9, <1>10 DEF TypeInv

\* A connection's goroutine, outside of SendMessage, and its client.
SocketStep(s) == Add(s) \/ Register(s) \/ Greeted(s) \/ Notice(s) \/ Close(s) \/ Client(s)

\* A connection greets or has no call: it begins one when it starts to greet,
\* and ends it when it stops.
LEMMA SocketMoves ==
  ASSUME TypeInv, NEW s \in Sockets, SocketStep(s)
  PROVE  /\ UNCHANGED <<place, attached, attempt, holder, sent, dropped>>
         /\ \E t \in {"new", "register", "greeting", "serving", "closing", "closed"} :
              server' = [server EXCEPT ![s] = t]
         /\ \/ UNCHANGED <<call, target>> /\ (server[s] = "greeting" => server'[s] = "greeting")
            \/ /\ call' = [call EXCEPT ![s] = "lookup"] /\ target' = target
               /\ call[s] = "none" /\ server'[s] = "greeting"
            \/ /\ call' = [call EXCEPT ![s] = "none"] /\ target' = [target EXCEPT ![s] = NoSocket]
               /\ call[s] \in {"sent", "failed"}
  <1> USE DEF TypeInv, BaseTypes, Mapped
  <1>0. s \in DOMAIN server /\ s \in Senders /\ (call[s] # "none" => server[s] = "greeting")
    BY DEF LifeInv, Senders
  <1>1. CASE Add(s)
    BY <1>0, <1>1 DEF Add, Move, queueVars, sendVars, history
  <1>2. CASE Register(s)
    BY <1>0, <1>2 DEF Register, Leave, Move, Goto, queueVars, history
  <1>3. CASE Greeted(s)
    BY <1>0, <1>3 DEF Greeted, Leave, Move, queueVars, history
  <1>4. CASE Notice(s) \/ Close(s)
    BY <1>0, <1>4 DEF Notice, Close, Leave, Move, queueVars, sendVars, history
  <1>5. CASE Client(s)
    <2>1. server' = [server EXCEPT ![s] = server[s]]
      BY <1>0, <1>5 DEF Client
    <2>2. QED
      BY <1>0, <1>5, <2>1 DEF Client, queueVars, sendVars
  <1>6. QED
    BY <1>1, <1>2, <1>3, <1>4, <1>5 DEF SocketStep

\* So does a step of a connection's goroutine.
LEMMA SocketTypes ==
  ASSUME TypeInv, NEW s \in Sockets, SocketStep(s)
  PROVE  TypeInv'
  <1> USE SendersAssumption, LimitsAssumption
  <1>0. BaseTypes /\ MutexInv /\ LifeInv /\ s \in Senders /\ UserOf[s] \in Users
    BY DEF TypeInv, Senders
  <1>1. /\ call' \in [Senders -> Calls] /\ target' \in [Senders -> Sockets \cup {NoSocket}]
        /\ \A x \in Senders : x # s => call'[x] = call[x] /\ target'[x] = target[x]
    BY <1>0, SocketMoves DEF BaseTypes, Calls
  <1>2. server' \in [Sockets -> {"new", "closing", "closed"} \cup Mapped]
        /\ \A t \in Sockets : t # s => server'[t] = server[t]
    BY <1>0, SocketMoves DEF BaseTypes, Mapped
  <1>3. manager' \in [Users -> Sockets \cup {NoSocket}]
    BY <1>0 DEF SocketStep, Add, Register, Greeted, Notice, Close, Client, Leave, Remove, BaseTypes
  <1>4. peer' \in [Sockets -> {"live", "stalled", "gone"}]
    BY <1>0 DEF SocketStep, Add, Register, Greeted, Notice, Close, Client, Leave, BaseTypes
  <1>5. overlapped' \subseteq Users /\ sure' \subseteq Messages
    BY <1>0 DEF SocketStep, Add, Register, Greeted, Notice, Close, Client, Leave, Unsure, BaseTypes, history
  <1>6. mishaps' \in 0..MaxMishaps
    BY <1>0 DEF SocketStep, Add, Register, Greeted, Notice, Close, Client, Leave, Mishap, BaseTypes
  <1>7. BaseTypes'
    BY <1>0, <1>1, <1>2, <1>3, <1>4, <1>5, <1>6, SocketMoves DEF BaseTypes
  <1>8. MutexInv'
    <2>1. CASE UNCHANGED <<call, target>>
      BY <1>0, <2>1, SocketMoves DEF MutexInv
    <2>2. CASE ~UNCHANGED <<call, target>>
      <3>1. call[s] # "write" /\ call'[s] \notin {"write", "lock"}
        BY <1>0, <2>2, SocketMoves DEF BaseTypes
      <3>2. QED
        BY <1>0, <1>1, <3>1, SocketMoves, QuietMutex
    <2>3. QED
      BY <2>1, <2>2
  <1>9. LifeInv'
    <2>1. s \notin Messages
      OBVIOUS
    <2>2. \A m \in Messages : sent'[m] # 0 => call'[m] = "sent"
      BY <1>0, <1>1, <2>1, SocketMoves DEF LifeInv, Senders
    <2>3. call'[s] # "none" => server'[s] = "greeting"
      BY <1>0, SocketMoves DEF LifeInv, BaseTypes
    <2>4. \A t \in Sockets : call'[t] # "none" => server'[t] = "greeting"
      BY <1>0, <1>1, <1>2, <2>3 DEF LifeInv, Senders
    <2>5. \A m \in dropped' : call'[m] = "none"
      BY <1>0, <1>1, <2>1, SocketMoves DEF LifeInv, Senders, BaseTypes
    <2>6. QED
      BY <2>2, <2>4, <2>5 DEF LifeInv
  <1>10. QED
    BY <1>7, <1>8, <1>9 DEF TypeInv

\* So do a channel that closes and a gateway that dies.
LEMMA FailureTypes ==
  ASSUME TypeInv, ChannelCloses \/ Restart
  PROVE  TypeInv'
  <1> USE SendersAssumption, LimitsAssumption
  <1>0. BaseTypes /\ MutexInv /\ LifeInv
    BY DEF TypeInv
  <1>1. Requeue \in [Messages -> {"ready", "unacked", "acked"}]
    BY <1>0 DEF Requeue, BaseTypes
  <1>2. CASE ChannelCloses
    <2>1. BaseTypes'
      <3>1. /\ UNCHANGED <<call, target, attempt, manager, server, peer, overlapped, holder, sure, sent, dropped>>
            /\ attached' = FALSE /\ place' = Requeue
        BY <1>2 DEF ChannelCloses, sendVars, socketVars, history
      <3>2. mishaps' \in 0..MaxMishaps
        BY <1>0, <1>2 DEF ChannelCloses, Mishap, BaseTypes
      <3>3. QED
        BY <1>0, <1>1, <3>1, <3>2 DEF BaseTypes
    <2>2. MutexInv'
      BY <1>0, <1>2 DEF ChannelCloses, sendVars, MutexInv
    <2>3. LifeInv'
      BY <1>0, <1>2 DEF ChannelCloses, sendVars, socketVars, history, LifeInv
    <2>4. QED
      BY <2>1, <2>2, <2>3 DEF TypeInv
  <1>3. CASE Restart
    <2>1. BaseTypes'
      BY <1>0, <1>1, <1>3 DEF Restart, Mishap, BaseTypes, Calls, Mapped
    <2>2. MutexInv'
      BY <1>0, <1>3 DEF Restart, MutexInv
    <2>3. LifeInv'
      BY <1>0, <1>3 DEF Restart, LifeInv, BaseTypes, Senders
    <2>4. QED
      BY <2>1, <2>2, <2>3 DEF TypeInv
  <1>4. QED
    BY <1>2, <1>3

\* The cases of a step.
LEMMA StepCases ==
  [Next]_vars =>
    \/ UNCHANGED vars
    \/ \E x \in Senders : Send(x)
    \/ \E m \in Messages : HandlerStep(m)
    \/ \E s \in Sockets : SocketStep(s)
    \/ ChannelCloses \/ Restart
  BY DEF Next, Handler, Serve, HandlerStep, SocketStep, Senders

\* Every step keeps the types.
LEMMA TypeStep == TypeInv /\ [Next]_vars => TypeInv'
  <1>1. TypeInv /\ UNCHANGED vars => TypeInv'
    BY DEF vars, queueVars, sendVars, socketVars, history, TypeInv, BaseTypes, MutexInv, LifeInv
  <1>2. QED
    BY <1>1, StepCases, SendTypes, HandlerTypes, SocketTypes, FailureTypes

-----------------------------------------------------------------------------
(* The entry of a user.                                                    *)

\* Nothing but the connections' goroutines and a restart touches the entries.
LEMMA EntryStep == TypeInv /\ EntryInv /\ [Next]_vars => EntryInv'
  <1> SUFFICES ASSUME TypeInv, EntryInv, [Next]_vars PROVE EntryInv'
    OBVIOUS
  <1> USE SendersAssumption DEF TypeInv, BaseTypes
  <1>1. ASSUME overlapped' = overlapped, manager' = manager,
               \A s \in Sockets : server[s] \in Mapped <=> server'[s] \in Mapped
        PROVE  EntryInv'
    BY <1>1 DEF EntryInv
  <1>2. CASE UNCHANGED <<manager, server, overlapped>>
    BY <1>2 DEF EntryInv
  <1>3. ASSUME NEW s \in Sockets, Add(s) PROVE EntryInv'
    <2> DEFINE u == UserOf[s]
    <2>1. u \in Users
      OBVIOUS
    <2>2. \E l \in Mapped : server' = [server EXCEPT ![s] = l]
      BY <1>3 DEF Add, Move, Mapped
    <2>3. manager' = [manager EXCEPT ![u] = s]
      BY <1>3 DEF Add
    <2>4. overlapped' = IF Others(s) = {} THEN overlapped ELSE overlapped \cup {u}
      BY <1>3 DEF Add
    <2> HIDE DEF u
    <2>5. UserOf[s] = u
      BY DEF u
    <2>6. \A v \in Users : manager'[v] # NoSocket => UserOf[manager'[v]] = v /\ server'[manager'[v]] \in Mapped
      BY <2>1, <2>2, <2>3, <2>5 DEF EntryInv
    <2>7. \A v \in Users : v \notin overlapped' =>
             \A t \in Sockets : UserOf[t] = v /\ server'[t] \in Mapped => manager'[v] = t
      <3>1. SUFFICES ASSUME NEW v \in Users, v \notin overlapped',
                            NEW t \in Sockets, UserOf[t] = v, server'[t] \in Mapped
                     PROVE  manager'[v] = t
        OBVIOUS
      <3>2. CASE t = s
        BY <2>1, <2>3, <2>5, <3>1, <3>2
      <3>3. CASE t # s
        <4>1. server[t] \in Mapped
          BY <2>2, <3>1, <3>3
        <4>2. v # u
          BY <2>4, <2>5, <3>1, <3>3, <4>1 DEF Others
        <4>3. v \notin overlapped
          BY <2>4, <3>1
        <4>4. QED
          BY <2>3, <3>1, <4>1, <4>2, <4>3 DEF EntryInv
      <3>4. QED
        BY <3>2, <3>3
    <2>8. QED
      BY <2>6, <2>7 DEF EntryInv
  <1>4. ASSUME NEW s \in Sockets, Leave(s, {"register"}) \/ Leave(s, {"greeting"}) \/ Leave(s, {"serving"})
        PROVE  EntryInv'
    <2>1. /\ server' = [server EXCEPT ![s] = "closing"] /\ server[s] \in Mapped
          /\ manager' = [manager EXCEPT ![UserOf[s]] = NoSocket]
          /\ overlapped' = IF Others(s) = {} THEN overlapped \ {UserOf[s]} ELSE overlapped
      BY <1>4 DEF Leave, Move, Remove, Mapped
    <2>2. \A t \in Sockets : server'[t] \in Mapped <=> (t # s /\ server[t] \in Mapped)
      BY <2>1 DEF Mapped
    <2>3. UserOf[s] \notin overlapped => manager[UserOf[s]] = s
      BY <2>1 DEF EntryInv
    <2>4. \A v \in Users : manager'[v] = IF v = UserOf[s] THEN NoSocket ELSE manager[v]
      BY <2>1
    <2>5. \A v \in Users : manager'[v] # NoSocket => UserOf[manager'[v]] = v /\ server'[manager'[v]] \in Mapped
      <3>1. SUFFICES ASSUME NEW v \in Users, manager'[v] # NoSocket
                     PROVE  UserOf[manager'[v]] = v /\ server'[manager'[v]] \in Mapped
        OBVIOUS
      <3>2. v # UserOf[s] /\ manager'[v] = manager[v] /\ manager[v] \in Sockets
        BY <2>4, <3>1
      <3>3. UserOf[manager[v]] = v /\ server[manager[v]] \in Mapped
        BY <3>1, <3>2 DEF EntryInv
      <3>4. QED
        BY <2>2, <3>2, <3>3
    <2>6. \A v \in Users : v \notin overlapped' =>
             \A t \in Sockets : UserOf[t] = v /\ server'[t] \in Mapped => manager'[v] = t
      <3>1. SUFFICES ASSUME NEW v \in Users, v \notin overlapped',
                            NEW t \in Sockets, UserOf[t] = v, server'[t] \in Mapped
                     PROVE  manager'[v] = t
        OBVIOUS
      <3>2. t # s /\ server[t] \in Mapped
        BY <2>2, <3>1
      <3>3. v \notin overlapped
        BY <2>1, <3>1, <3>2 DEF Others
      <3>4. manager[v] = t
        BY <3>1, <3>2, <3>3 DEF EntryInv
      <3>5. v # UserOf[s]
        BY <2>3, <3>2, <3>3, <3>4
      <3>6. QED
        BY <2>4, <3>4, <3>5
    <2>7. QED
      BY <2>5, <2>6 DEF EntryInv
  <1>5. ASSUME NEW s \in Sockets, Register(s) \/ Greeted(s) PROVE EntryInv'
    <2>1. CASE Leave(s, {"register"}) \/ Leave(s, {"greeting"})
      BY <1>4, <2>1
    <2>2. CASE ~(Leave(s, {"register"}) \/ Leave(s, {"greeting"}))
      <3>1. /\ overlapped' = overlapped /\ manager' = manager /\ server[s] \in Mapped
            /\ server' = [server EXCEPT ![s] = "greeting"] \/ server' = [server EXCEPT ![s] = "serving"]
        BY <1>5, <2>2 DEF Register, Greeted, Move, Mapped
      <3>2. \A t \in Sockets : server[t] \in Mapped <=> server'[t] \in Mapped
        BY <3>1 DEF Mapped
      <3>3. QED
        BY <1>1, <3>1, <3>2
    <2>3. QED
      BY <2>1, <2>2
  <1>6. ASSUME NEW s \in Sockets, Notice(s) \/ Close(s) \/ Client(s) PROVE EntryInv'
    <2>1. CASE Notice(s)
      BY <1>4, <2>1 DEF Notice
    <2>2. CASE Close(s)
      <3>1. /\ overlapped' = overlapped /\ manager' = manager
            /\ server[s] = "closing" /\ server' = [server EXCEPT ![s] = "closed"]
        BY <2>2 DEF Close, Move
      <3>2. \A t \in Sockets : server[t] \in Mapped <=> server'[t] \in Mapped
        BY <3>1 DEF Mapped
      <3>3. QED
        BY <1>1, <3>1, <3>2
    <2>3. CASE Client(s)
      BY <1>2, <2>3 DEF Client
    <2>4. QED
      BY <1>6, <2>1, <2>2, <2>3
  <1>7. CASE Restart
    BY <1>7 DEF Restart, EntryInv, Mapped
  <1>8. ASSUME NEW x \in Senders, Send(x) PROVE EntryInv'
    BY <1>2, <1>8 DEF Send, Lookup, Lock, Write, socketVars
  <1>9. ASSUME NEW m \in Messages, HandlerStep(m) PROVE EntryInv'
    BY <1>2, <1>9, HandlerMoves
  <1>10. CASE ChannelCloses \/ UNCHANGED vars
    BY <1>2, <1>10 DEF ChannelCloses, vars, socketVars
  <1>11. QED
    BY <1>3, <1>5, <1>6, <1>7, <1>8, <1>9, <1>10, StepCases DEF SocketStep

-----------------------------------------------------------------------------
(* Who is sure of its user.                                                *)

\* A user who is connected, by one connection at a time, has it in the map.
LEMMA ConnectedEntry ==
  ASSUME TypeInv, EntryInv, NEW u \in Users, Connected(u), u \notin overlapped
  PROVE  /\ manager[u] \in Sockets /\ manager[u] # NoSocket
         /\ server[manager[u]] \in Mapped /\ peer[manager[u]] # "gone"
  BY SendersAssumption DEF Connected, EntryInv

\* A try that began after its user was connected finds the connection.
LEMMA SureSends ==
  ASSUME TypeInv, EntryInv, SureInv, NEW x \in Senders, Send(x)
  PROVE  SureInv'
  <1> USE SendersAssumption
  <1>0. BaseTypes /\ MutexInv
    BY DEF TypeInv
  <1>1. UNCHANGED <<manager, server, peer, overlapped, sure>>
    BY DEF Send, Lookup, Lock, Write, socketVars, history
  <1>2. \A y \in Senders : y # x => call'[y] = call[y] /\ target'[y] = target[y]
    BY <1>0 DEF Send, Lookup, Lock, Write, Goto, BaseTypes
  <1>3. \A m \in sure' : Connected(OwnerOf[m])'
    BY <1>1 DEF SureInv, Connected
  <1>4. SUFFICES ASSUME NEW m \in sure', OwnerOf[m] \notin overlapped'
                 PROVE  /\ call'[m] \notin {"none", "failed"}
                        /\ call'[m] \in {"lock", "write"} => target'[m] = manager'[OwnerOf[m]]
    BY <1>3 DEF SureInv
  <1>5. /\ m \in sure /\ m \in Messages /\ m \in Senders /\ OwnerOf[m] \in Users
        /\ OwnerOf[m] \notin overlapped
    BY <1>0, <1>1, <1>4 DEF BaseTypes, Senders
  <1>6. /\ Connected(OwnerOf[m]) /\ call[m] \notin {"none", "failed"}
        /\ call[m] \in {"lock", "write"} => target[m] = manager[OwnerOf[m]]
    BY <1>5 DEF SureInv
  <1>7. CASE m # x
    BY <1>1, <1>2, <1>5, <1>6, <1>7
  <1>8. CASE m = x /\ Lookup(m)
    <2>1. UserFor(m) = OwnerOf[m] /\ manager[OwnerOf[m]] # NoSocket
      BY <1>5, <1>6, ConnectedEntry DEF UserFor
    <2>2. call'[m] = "lock" /\ target'[m] = manager[OwnerOf[m]]
      BY <1>0, <1>5, <1>8, <2>1 DEF Lookup, Goto, BaseTypes
    <2>3. QED
      BY <1>1, <2>2
  <1>9. CASE m = x /\ Lock(m)
    <2>1. call[m] = "lock" /\ call'[m] = "write" /\ target'[m] = target[m]
      BY <1>0, <1>5, <1>9 DEF Lock, Goto, BaseTypes
    <2>2. QED
      BY <1>1, <1>6, <2>1
  <1>10. CASE m = x /\ Write(m)
    <2>1. call[m] = "write" /\ target[m] = manager[OwnerOf[m]]
      BY <1>6, <1>10 DEF Write
    <2>2. server[target[m]] # "closed" /\ peer[target[m]] # "gone"
      BY <1>5, <1>6, <2>1, ConnectedEntry DEF Mapped
    <2>3. call'[m] = "sent"
      BY <1>0, <1>5, <1>10, <2>2 DEF Write, Goto, BaseTypes
    <2>4. QED
      BY <2>3
  <1>11. QED
    BY <1>7, <1>8, <1>9, <1>10 DEF Send

\* A handler whose try did not get through tries again, or its user was not
\* there all the time.
LEMMA SureHandler ==
  ASSUME TypeInv, EntryInv, SureInv, NEW m \in Messages, HandlerStep(m)
  PROVE  SureInv'
  <1>0. BaseTypes /\ sure \subseteq Messages
    BY DEF TypeInv, BaseTypes
  <1>1. UNCHANGED <<manager, server, peer, overlapped>>
    BY HandlerMoves
  <1>2. \A k \in Messages : k # m => call'[k] = call[k] /\ target'[k] = target[k]
    BY <1>0, HandlerMoves DEF BaseTypes, Senders
  <1>3. \A k \in sure' : k # m => k \in sure
    BY DEF HandlerStep, Start, Ack, Again, GiveUp, Try
  <1>4. m \in sure' =>
          /\ Connected(OwnerOf[m])
          /\ OwnerOf[m] \notin overlapped => call'[m] \in {"malformed", "lookup"}
    <2>1. CASE Start(m) \/ Again(m)
      BY <1>0, <2>1 DEF Start, Again, Try, Goto, BaseTypes, Senders
    <2>2. CASE Ack(m)
      BY <2>2 DEF Ack
    <2>3. CASE GiveUp(m)
      BY <2>3 DEF GiveUp, SureInv
    <2>4. QED
      BY <2>1, <2>2, <2>3 DEF HandlerStep
  <1>5. \A u : Connected(u) => Connected(u)'
    BY <1>1 DEF Connected
  <1>6. SUFFICES ASSUME NEW k \in sure'
                 PROVE  /\ Connected(OwnerOf[k])
                        /\ OwnerOf[k] \notin overlapped =>
                             /\ call'[k] \notin {"none", "failed"}
                             /\ call'[k] \in {"lock", "write"} => target'[k] = manager[OwnerOf[k]]
    BY <1>1, <1>5 DEF SureInv
  <1>7. CASE k = m
    BY <1>4, <1>7
  <1>8. CASE k # m
    <2>1. k \in sure /\ call'[k] = call[k] /\ target'[k] = target[k]
      BY <1>0, <1>2, <1>3, <1>8
    <2>2. QED
      BY <2>1 DEF SureInv
  <1>9. QED
    BY <1>7, <1>8

\* When a connection's handler returns, a message that stays sure is not of
\* its user, unless the user has another connection, and had two.
LEMMA SureLeave ==
  ASSUME TypeInv, EntryInv, SureInv, NEW s \in Sockets,
         Leave(s, {"register"}) \/ Leave(s, {"greeting"}) \/ Leave(s, {"serving"}),
         NEW m \in sure'
  PROVE  /\ Connected(OwnerOf[m])'
         /\ OwnerOf[m] \notin overlapped' =>
              OwnerOf[m] \notin overlapped /\ manager'[OwnerOf[m]] = manager[OwnerOf[m]]
  <1> USE SendersAssumption DEF TypeInv, BaseTypes
  <1>1. /\ server' = [server EXCEPT ![s] = "closing"] /\ server[s] \in Mapped
        /\ manager' = [manager EXCEPT ![UserOf[s]] = NoSocket]
        /\ overlapped' = IF Others(s) = {} THEN overlapped \ {UserOf[s]} ELSE overlapped
        /\ Connected(OwnerOf[m])' /\ m \in Messages
    BY DEF Leave, Move, Remove, Unsure, Mapped
  <1>2. ASSUME OwnerOf[m] \notin overlapped', OwnerOf[m] = UserOf[s] PROVE FALSE
    <2>1. PICK r \in Sockets : UserOf[r] = UserOf[s] /\ server'[r] \in Mapped
      BY <1>1, <1>2 DEF Connected
    <2>2. r # s /\ server[r] \in Mapped
      BY <1>1, <2>1 DEF Mapped
    <2>3. UserOf[s] \notin overlapped
      BY <1>1, <1>2, <2>1, <2>2 DEF Others
    <2>4. manager[UserOf[s]] = s /\ manager[UserOf[s]] = r
      BY <1>1, <2>1, <2>2, <2>3 DEF EntryInv
    <2>5. QED
      BY <2>2, <2>4
  <1>3. QED
    BY <1>1, <1>2

\* Whatever a connection or its client does, a message that stays sure keeps
\* its user's connection.
LEMMA SureSockets ==
  ASSUME TypeInv, EntryInv, SureInv, NEW s \in Sockets, SocketStep(s)
  PROVE  SureInv'
  <1> USE SendersAssumption
  <1>0. BaseTypes /\ sure \subseteq Messages
    BY DEF TypeInv, BaseTypes
  <1>1. sure' \subseteq sure
    BY <1>0 DEF SocketStep, Add, Register, Greeted, Notice, Close, Client, Leave, Unsure, history
  <1>2. SUFFICES ASSUME NEW m \in sure'
                 PROVE  /\ Connected(OwnerOf[m])'
                        /\ OwnerOf[m] \notin overlapped' =>
                             /\ OwnerOf[m] \notin overlapped
                             /\ manager'[OwnerOf[m]] = manager[OwnerOf[m]]
                        /\ call'[m] = call[m] /\ target'[m] = target[m]
    BY <1>1 DEF SureInv
  <1>3. m \in sure /\ m \in Messages /\ m # s /\ OwnerOf[m] \in Users
    BY <1>0, <1>1
  <1>4. call'[m] = call[m] /\ target'[m] = target[m]
    BY <1>0, <1>3, SocketMoves DEF BaseTypes, Senders
  <1>5. PICK r \in Sockets : UserOf[r] = OwnerOf[m] /\ server[r] \in Mapped /\ peer[r] # "gone"
    BY <1>3 DEF SureInv, Connected
  <1>6. ASSUME server'[r] \in Mapped, peer'[r] # "gone" PROVE Connected(OwnerOf[m])'
    BY <1>5, <1>6 DEF Connected
  <1>7. CASE Add(s)
    <2>1. /\ manager' = [manager EXCEPT ![UserOf[s]] = s] /\ peer' = peer
          /\ overlapped' = IF Others(s) = {} THEN overlapped ELSE overlapped \cup {UserOf[s]}
          /\ server[s] = "new" /\ \A t \in Sockets \ {s} : server'[t] = server[t]
      BY <1>0, <1>7 DEF Add, Move, BaseTypes
    <2>2. r # s
      BY <1>5, <2>1 DEF Mapped
    <2>3. OwnerOf[m] \notin overlapped' => OwnerOf[m] # UserOf[s]
      BY <1>5, <2>1, <2>2 DEF Others
    <2>4. QED
      BY <1>0, <1>3, <1>4, <1>5, <1>6, <2>1, <2>2, <2>3 DEF BaseTypes
  <1>8. CASE Leave(s, {"register"}) \/ Leave(s, {"greeting"}) \/ Leave(s, {"serving"})
    BY <1>4, <1>8, SureLeave
  <1>9. CASE Register(s) \/ Greeted(s) \/ Notice(s)
    <2>1. \/ Leave(s, {"register"}) \/ Leave(s, {"greeting"}) \/ Leave(s, {"serving"})
          \/ /\ UNCHANGED <<manager, peer, overlapped>> /\ server'[s] \in Mapped
             /\ \A t \in Sockets \ {s} : server'[t] = server[t]
      BY <1>0, <1>9 DEF Register, Greeted, Notice, Move, BaseTypes, Mapped
    <2>2. QED
      BY <1>4, <1>5, <1>6, <1>8, <2>1
  <1>10. CASE Close(s)
    <2>1. /\ manager' = manager /\ overlapped' = overlapped /\ server[s] = "closing"
          /\ \A t \in Sockets \ {s} : server'[t] = server[t] /\ peer'[t] = peer[t]
      BY <1>0, <1>10 DEF Close, Move, BaseTypes
    <2>2. r # s
      BY <1>5, <2>1 DEF Mapped
    <2>3. QED
      BY <1>4, <1>5, <1>6, <2>1, <2>2
  <1>11. CASE Client(s)
    BY <1>2, <1>4, <1>11 DEF Client, Unsure
  <1>12. QED
    BY <1>7, <1>9, <1>10, <1>11 DEF SocketStep

\* Every step keeps the promise to the late user.
LEMMA SureStep == TypeInv /\ EntryInv /\ SureInv /\ [Next]_vars => SureInv'
  <1> SUFFICES ASSUME TypeInv, EntryInv, SureInv, [Next]_vars PROVE SureInv'
    OBVIOUS
  <1>1. CASE Restart
    BY <1>1 DEF Restart, SureInv
  <1>2. CASE ChannelCloses \/ UNCHANGED vars
    <2>1. UNCHANGED <<call, target, manager, server, peer, overlapped, sure>>
      BY <1>2 DEF ChannelCloses, vars, sendVars, socketVars, history
    <2>2. QED
      BY <2>1 DEF SureInv, Connected
  <1>3. QED
    BY <1>1, <1>2, StepCases, SureSends, SureHandler, SureSockets

-----------------------------------------------------------------------------
(* The theorems.                                                           *)

\* It all holds at first.
LEMMA DeliveryInit == Init => DeliveryInv
  <1> SUFFICES ASSUME Init PROVE DeliveryInv
    OBVIOUS
  <1> USE SendersAssumption, LimitsAssumption DEF Init
  <1>1. BaseTypes
    BY DEF BaseTypes, Calls
  <1>2. MutexInv
    BY DEF MutexInv
  <1>3. LifeInv
    BY DEF LifeInv, Senders
  <1>4. EntryInv /\ SureInv
    BY DEF EntryInv, SureInv, Mapped
  <1>5. QED
    BY <1>1, <1>2, <1>3, <1>4 DEF DeliveryInv, TypeInv

(* The inductive invariant: types and mutexes, the entries of the map, and *)
(* the messages whose user has been there since their try began.           *)
THEOREM DeliveryInvariance == Spec => []DeliveryInv
  <1>1. DeliveryInv /\ [Next]_vars => DeliveryInv'
    BY TypeStep, EntryStep, SureStep DEF DeliveryInv
  <1>2. QED
    BY <1>1, DeliveryInit, PTL DEF Spec

(* Every variable keeps its type; a connection's mutex is held by the one  *)
(* sender that writes to it (connection_messager.go:20, 80-90).            *)
THEOREM DeliveryTypeCorrect == Spec => []TypeOK
  <1>1. DeliveryInv => TypeOK
    BY TypeParts DEF DeliveryInv, TypeInv
  <1>2. QED
    BY <1>1, DeliveryInvariance, PTL

(* The map holds a connection that is served, or none, and loses that of   *)
(* no user who has had one at a time since he had none                     *)
(* (connection_messager.go:62-66, ws.go:62-63, 113-115).                   *)
THEOREM EntriesAreRight == Spec => []RightEntry
  <1>1. DeliveryInv => RightEntry
    <2> SUFFICES ASSUME BaseTypes, EntryInv PROVE RightEntry
      BY DEF DeliveryInv, TypeInv
    <2> SUFFICES ASSUME NEW u \in Users
                 PROVE  LET served == {s \in Sockets : UserOf[s] = u /\ server[s] \in Mapped} IN
                          /\ manager[u] \in served \cup {NoSocket}
                          /\ u \notin overlapped /\ served # {} => served = {manager[u]}
      BY DEF RightEntry
    <2> DEFINE served == {s \in Sockets : UserOf[s] = u /\ server[s] \in Mapped}
    <2>1. manager[u] \in served \cup {NoSocket}
      BY DEF BaseTypes, EntryInv
    <2>2. ASSUME u \notin overlapped, NEW s \in served PROVE manager[u] = s
      BY <2>2 DEF EntryInv
    <2>3. u \notin overlapped /\ served # {} => served = {manager[u]}
      BY <2>2
    <2>4. QED
      BY <2>1, <2>3
  <1>2. QED
    BY <1>1, DeliveryInvariance, PTL

(* A message whose user has been connected to this gateway since its last  *)
(* try began is given up only where connections of the user overlapped,    *)
(* whatever else happened meanwhile (queue_consumer.go:125-133, ws.go:62,  *)
(* 114).                                                                   *)
THEOREM LateUsersAreReached == Spec => []LateUserIsReached
  <1>1. DeliveryInv => LateUserIsReached
    BY DEF DeliveryInv, TypeInv, LifeInv, SureInv, LateUserIsReached
  <1>2. QED
    BY <1>1, DeliveryInvariance, PTL
=============================================================================
