--------------------------- MODULE TripLifecycle ---------------------------
(***************************************************************************)
(* What the trip service promises about one trip, with no queue, lock,     *)
(* cache or crash in sight: it waits for a driver, gets exactly one,       *)
(* asks for the payment of that driver at most once, and is paid only      *)
(* after it has asked.  TripAccept, the message-level model of the         *)
(* handlers, implements this specification.                                *)
(***************************************************************************)
CONSTANTS Drivers, NoDriver

VARIABLES trip,     \* the trip document: its status and its driver
          payments  \* how often a payment was asked for in a driver's name

vars == <<trip, payments>>

Statuses == {"pending", "accepted", "payed"}

Pending == [status |-> "pending", driver |-> NoDriver]

Init == trip = Pending /\ payments = [d \in Drivers |-> 0]

\* One driver gets the trip.
Assign(d) ==
  /\ trip.status = "pending"
  /\ trip' = [status |-> "accepted", driver |-> d]
  /\ UNCHANGED payments

\* The payment of the assigned driver is asked for, once.
RequestPayment ==
  /\ trip.status # "pending"
  /\ payments[trip.driver] = 0
  /\ payments' = [payments EXCEPT ![trip.driver] = 1]
  /\ UNCHANGED trip

\* The payment has arrived.
Settle ==
  /\ \E d \in Drivers : payments[d] = 1
  /\ trip' = [trip EXCEPT !.status = "payed"]
  /\ UNCHANGED payments

Next == (\E d \in Drivers : Assign(d)) \/ RequestPayment \/ Settle

Spec == Init /\ [][Next]_vars
=============================================================================
