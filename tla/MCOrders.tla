------------------------------- MODULE MCOrders -------------------------------
(***************************************************************************)
(* OrderWebhook for TLC, one request at a time: a buyer with two orders, or *)
(* a single order to which more happens and which is reconciled with the   *)
(* gateway.                                                                *)
(***************************************************************************)
EXTENDS MCOrderWebhook

\* Bound: once the second order exists, one fault, one repeat and no reconciliation.
Bounds ==
    gateway[o2] # "none" =>
        /\ faults <= 1 /\ repeats <= 1
        /\ reconcile = NoOrder /\ interrupted = {} /\ alerted = {}
=============================================================================
