-------------------------- MODULE MCAffiliateLedger --------------------------
(* Two affiliates; one has sales worth 2 and 1, the other one worth 1. The    *)
(* first asks for 2 and for 1 at once.                                        *)
EXTENDS AffiliateLedger, TLC

CONSTANTS a1, a2, w1, w2

MCReferredBy == [o \in Orders |-> IF o = 2 THEN a2 ELSE a1]
MCRequestedBy == [w \in Requests |-> a1]
MCAmountRequested == [w \in Requests |-> IF w = w1 THEN 2 ELSE 1]
MCNetAmount == [o \in Orders |-> IF o = 1 THEN 2 ELSE 1]
=============================================================================
