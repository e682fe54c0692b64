--------------------------- MODULE MCPartnerLedger ---------------------------
(* A small instance: commissions of 2 units, a minimum withdrawal of 1, cost *)
(* debits of 1. A request of 3 needs two commissions, one of 2 with a debit   *)
(* needs two as well, and two requests compete for the same rows.             *)
EXTENDS PartnerLedger, TLC

CONSTANTS p1, w1, w2

MCRequestedBy == [w \in Requests |-> p1]
MCAmountRequested == [w \in Requests |-> IF w = w1 THEN 2 ELSE 1]
MCCommissionAmount == [c \in Rows |-> IF c[2] = LastOrder THEN 1 ELSE 2]
MCEarlier == {<<p1, 1>>}
MCShareAmount == [s \in Shares |-> 1]
=============================================================================
