---------------------------- MODULE MCControlQueue ----------------------------
(***************************************************************************)
(* The two components that watch an AbstractRun: what moves it from outside *)
(* and what its chat is told of it.  A behaviour is one of one of them, the *)
(* part, and the other one stands still.                                    *)
(***************************************************************************)
EXTENDS ControlQueue, ResultDelivery

CONSTANTS c1, c2, none

VARIABLE part

MCInit == part \in {"control", "delivery"} /\ ControlInit /\ DeliveryInit

Control == part = "control" /\ ControlNext /\ UNCHANGED
  <<part, worker, loop, bubbleVars, resultVars, woken>>
Deliver == part = "delivery" /\ DeliveryNext /\ UNCHANGED
  <<part, clientVars, listenerVars, queueVars, ghostVars, faultVars>>

\* The fairness of the part that runs: ControlFairness and DeliveryFairness.
MCFairness ==
  /\ WF_controlVars(part = "control" /\ ListenerStep)
  /\ WF_deliveryVars(part = "delivery" /\ (LaunchStep \/ WorkerStep))
  /\ WF_deliveryVars(part = "delivery" /\ LoopStep)

MCSpec == MCInit /\ [][Control \/ Deliver]_<<part, controlVars, deliveryVars>> /\ MCFairness

\* A run that ends is heard of (DeliverySettles), in the behaviours that have one.
ResultSettles == part = "delivery" => DeliverySettles
=============================================================================
