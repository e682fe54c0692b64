----------------------------- MODULE MCLeadFunnel -----------------------------
(***************************************************************************)
(* LeadFunnel for TLC. A behaviour looks at one of two things: a few people *)
(* who do everything a person may do, and a queue longer than a batch, with *)
(* somebody at its head who cannot be reached.                             *)
(***************************************************************************)
EXTENDS LeadFunnel

VARIABLES part

MCInit == Init /\ part \in {"free", "queued"}

\* The queue is of people who fill in no form of contents or reels and cancel no order;
\* those who are free do without the unreachable and without batches that break. Bound:
\* only who may buy cancels.
MCNext ==
    /\ UNCHANGED part
    /\ Next
    /\ cancelling' \subseteq Buyers
    /\ IF part = "queued"
       THEN cancelling' = {} /\ \A l \in Readers : lead'[l].source = ""
       ELSE breaks' = breaks /\ \A l \in Unreachable : lead'[l] = lead[l]

\* The fairness of LeadFunnel, where there is a queue.
QueueFairness ==
    \A p \in Processes :
        /\ SF_vars(part = "queued" /\ StartBatch(p))
        /\ WF_vars(part = "queued" /\ GoesOn(p))
        /\ \A l \in People \ Unreachable : SF_vars(part = "queued" /\ Delivered(p, l))

MCSpec == MCInit /\ [][MCNext]_<<part, vars>> /\ QueueFairness

\* See LeadFunnel; who is free to come as often as he likes is not waited for.
LookedFor(l) == part = "queued" /\ l \in Checkouts \cup Visitors
QueueRecovered == \A l \in People \ Unreachable : LookedFor(l) ~> ~LookedFor(l)
=============================================================================
