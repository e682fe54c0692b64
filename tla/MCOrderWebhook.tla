--------------------------- MODULE MCOrderWebhook ---------------------------
(* A referred lead that buys and may renew: two orders of one buyer.        *)
EXTENDS OrderWebhook, TLC

CONSTANTS b1, o1, o2

MCBuyerOf == [o \in Orders |-> b1]
=============================================================================
