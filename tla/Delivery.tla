------------------------------- MODULE Delivery -------------------------------
(***************************************************************************)
(* What NotifyReportTraceId and SubscribeReportTraceId promise, whichever  *)
(* cache is used: a notification is consumed at most once; it is lost only *)
(* as it is made or in a disruption, and does not wait for ever.           *)
(***************************************************************************)
EXTENDS Naturals

CONSTANT Message

VARIABLES state,         \* how far each notification has come
          disruptions    \* how many crashes, starts and broken connections there were

deliveryVars == <<state, disruptions>>

DeliveryInit == /\ state = [m \in Message |-> "unsent"]
                /\ disruptions = 0

\* Redis may refuse it, or have no group that could ever receive it.
Send(m) == /\ state[m] = "unsent"
           /\ \E s \in {"queued", "lost"} : state' = [state EXCEPT ![m] = s]
           /\ UNCHANGED disruptions

Receive(m) == /\ state[m] = "queued"
              /\ state' = [state EXCEPT ![m] = "consumed"]
              /\ UNCHANGED disruptions

Disrupt == /\ disruptions' = disruptions + 1
           /\ \E lost \in SUBSET {m \in Message : state[m] = "queued"} :
                state' = [m \in Message |-> IF m \in lost THEN "lost" ELSE state[m]]

DeliveryNext == \/ \E m \in Message : Send(m) \/ Receive(m)
                \/ Disrupt

NoneWaitsForEver == \A m \in Message : state[m] = "queued" ~> state[m] # "queued"

DeliverySafety == DeliveryInit /\ [][DeliveryNext]_deliveryVars

DeliverySpec == DeliverySafety /\ NoneWaitsForEver
=============================================================================
