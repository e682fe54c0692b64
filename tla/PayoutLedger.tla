---------------------------- MODULE PayoutLedger ----------------------------
(***************************************************************************)
(* What a commission ledger promises its owner, whoever asks and in        *)
(* whatever order: a commission row is credited, matures, and is then      *)
(* either reversed or reserved by one payout; a payout reserves all its    *)
(* rows in one step, and a rejection gives all of them back in one step.   *)
(* No request reads here before it writes: that several requests, reviews, *)
(* cron ticks and reversals interleave in the code must not be visible.    *)
(* PartnerLedger is shown to implement this module.                        *)
(***************************************************************************)
CONSTANTS Rows,         \* commission rows
          Payouts,      \* withdrawal requests
          None          \* "backs no payout"

VARIABLES row,          \* status of each row
          backs,        \* the payout a withdrawn row backs
          payout        \* status of each payout

abstractVars == <<row, backs, payout>>

RowStatus == {"absent", "pending", "available", "withdrawn", "refunded"}
PayoutStatus == {"none", "pending", "paid", "rejected"}

Init ==
    /\ row \in [Rows -> {"absent", "pending"}]
    /\ backs = [c \in Rows |-> None]
    /\ payout = [w \in Payouts |-> "none"]

\* A sale is credited: one row appears.
Credit(c) ==
    /\ row[c] = "absent"
    /\ row' = [row EXCEPT ![c] = "pending"]
    /\ UNCHANGED <<backs, payout>>

\* Some pending rows complete their holding period.
Mature(S) ==
    /\ \A c \in S : row[c] = "pending"
    /\ row' = [c \in Rows |-> IF c \in S THEN "available" ELSE row[c]]
    /\ UNCHANGED <<backs, payout>>

\* A refund takes back rows that no payout has reserved yet.
Reverse(S) ==
    /\ \A c \in S : row[c] \in {"pending", "available"}
    /\ row' = [c \in Rows |-> IF c \in S THEN "refunded" ELSE row[c]]
    /\ UNCHANGED <<backs, payout>>

\* A payout is born with all the rows that fund it, all of them free.
Reserve(w, S) ==
    /\ payout[w] = "none"
    /\ \A c \in S : row[c] = "available"
    /\ row' = [c \in Rows |-> IF c \in S THEN "withdrawn" ELSE row[c]]
    /\ backs' = [c \in Rows |-> IF c \in S THEN w ELSE backs[c]]
    /\ payout' = [payout EXCEPT ![w] = "pending"]

\* A payout is marked paid. Two reviewers may decide at once and the last
\* write stands, so that a decided payout can be decided again.
Pay(w) ==
    /\ payout[w] # "none"
    /\ payout' = [payout EXCEPT ![w] = "paid"]
    /\ UNCHANGED <<row, backs>>

\* A rejected payout gives back exactly the rows that back it.
Release(w) ==
    /\ payout[w] # "none"
    /\ row' = [c \in Rows |-> IF backs[c] = w THEN "available" ELSE row[c]]
    /\ backs' = [c \in Rows |-> IF backs[c] = w THEN None ELSE backs[c]]
    /\ payout' = [payout EXCEPT ![w] = "rejected"]

Next ==
    \/ \E c \in Rows : Credit(c)
    \/ \E S \in SUBSET Rows : Mature(S) \/ Reverse(S)
    \/ \E w \in Payouts, S \in SUBSET Rows : Reserve(w, S)
    \/ \E w \in Payouts : Pay(w) \/ Release(w)

Spec == Init /\ [][Next]_abstractVars
=============================================================================
