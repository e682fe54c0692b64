--------------------------- MODULE AffiliateLedger ---------------------------
(***************************************************************************)
(* The affiliate programme: affiliate.service.ts, affiliate.routes.ts and  *)
(* the affiliate part of admin.routes.ts. Each awaited query is a step; a  *)
(* withdrawal request is a READ COMMITTED transaction of one read and, in  *)
(* one step, its writes and the commit, as in PartnerLedger.               *)
(*                                                                         *)
(* Unlike the partners' table, this one has no unique key per sale: what   *)
(* keeps a sale from being credited twice is the look-up before the        *)
(* insertion. So a row is the pair <<order, delivery>>: the commission that *)
(* the handling `delivery` of the approval created for the order.          *)
(***************************************************************************)
EXTENDS Integers, FiniteSets, FiniteSetsExt

CONSTANTS Affiliates,
          LastOrder,         \* orders are 1..LastOrder, numbered by time of sale
          Deliveries,        \* handlings of approvals that may run at once
          Requests,          \* withdrawal requests, one payout each
          Admins,            \* superadmins that may review concurrently
          None,
          ReferredBy,        \* the affiliate whose link brought the order
          RequestedBy,       \* the affiliate of a request
          AmountRequested,
          MinWithdrawal,     \* AFFILIATE_RULES.minWithdrawal
          NetAmount,         \* quoteCommission(...).netAmount of an order
          Toggled,           \* bound: accounts an admin disables and enables
          Overlapping        \* whether two handlings of one order may overlap

Orders == 1..LastOrder
Rows == Orders \X Deliveries

ASSUME AffiliateAssumption ==
    /\ IsFiniteSet(Deliveries) /\ IsFiniteSet(Requests)
    /\ LastOrder \in Nat
    /\ None \notin Requests
    /\ ReferredBy \in [Orders -> Affiliates]
    /\ RequestedBy \in [Requests -> Affiliates]
    /\ AmountRequested \in [Requests -> Nat]
    /\ MinWithdrawal \in Nat
    /\ NetAmount \in [Orders -> Nat]
    /\ Toggled \subseteq Affiliates
    /\ Overlapping \in BOOLEAN

VARIABLES
    account,      \* AffiliateAccount: absent, enabled or disabled
    due,          \* the clock: orders 1..due are past D+7
    referral,     \* AffiliateReferral.status of the order's lead
    handling,     \* what each handling of an approval is doing
    commission,   \* AffiliateCommission.status
    backs,        \* AffiliateCommission.withdrawalId
    withdrawal,   \* AffiliateWithdrawal.status
    request,      \* control point of each requestWithdrawal call
    poolRead,     \* the available rows the call has read
    review        \* what each superadmin has read and will do

creditVars == <<account, due, referral, handling>>
rowVars == <<commission, backs>>
requestVars == <<request, poolRead>>
vars == <<creditVars, rowVars, withdrawal, requestVars, review>>

RowStatus == {"absent", "pending", "available", "withdrawn", "refunded"}
WithdrawalStatus == {"none", "pending", "paid", "rejected"}
ReferralStatus == {"pending", "paid", "lost_to_remarketing"}
CreditPoint == {"idle", "findAccount", "findExisting", "attachReferral", "create"}
RequestPoint == {"idle", "commit", "ok", "refused", "conflict"}
Decision == {"approve", "reject"}

Handling(point, o) == [at |-> point, order |-> o]
NotHandling == Handling("idle", 0)
NoReview == [do |-> "idle", w |-> None]

\* AffiliateCommission.netAmount.
RowAmount == [c \in Rows |-> NetAmount[c[1]]]
Worth(S) == MapThenSumSet(LAMBDA c : RowAmount[c], S)
Funds(S, w) == Worth(S) >= AmountRequested[w]
AvailableOf(a) == {c \in Rows : ReferredBy[c[1]] = a /\ commission[c] = "available"}
RowsOfOrder(o) == {c \in Rows : c[1] = o /\ commission[c] # "absent"}
Backing(w) == {c \in Rows : backs[c] = w}

\* What the greedy loop takes from a pool: oldest first until the amount is
\* reached, the last row whole.
Consumed(S, pool, w) ==
    /\ S \subseteq pool
    /\ \A c \in S : {d \in pool : d[1] < c[1]} \subseteq S
    /\ S # {} => \E last \in S : /\ \A c \in S : c[1] <= last[1]
                                /\ ~Funds(S \ {last}, w)
    /\ Funds(S, w) \/ S = pool

Init ==
    /\ account = [a \in Affiliates |-> "absent"]
    /\ due = 0
    /\ referral = [o \in Orders |-> "pending"]
    /\ handling = [d \in Deliveries |-> NotHandling]
    /\ commission = [c \in Rows |-> "absent"]
    /\ backs = [c \in Rows |-> None]
    /\ withdrawal = [w \in Requests |-> "none"]
    /\ request = [w \in Requests |-> "idle"]
    /\ poolRead = [w \in Requests |-> {}]
    /\ review = [r \in Admins |-> NoReview]

-----------------------------------------------------------------------------
(* The account *)

\* POST /enroll: an account that exists is answered as it is, and the unique
\* user of the table lets only one be created.
Enroll(a) ==
    /\ account[a] = "absent"
    /\ account' = [account EXCEPT ![a] = "enabled"]
    /\ UNCHANGED <<due, referral, handling, rowVars, withdrawal, requestVars, review>>

\* PATCH /affiliates/:id of the panel.
SetEnabled(a) ==
    /\ a \in Toggled
    /\ account[a] # "absent"
    /\ account' = [account EXCEPT ![a] = IF @ = "enabled" THEN "disabled" ELSE "enabled"]
    /\ UNCHANGED <<due, referral, handling, rowVars, withdrawal, requestVars, review>>

-----------------------------------------------------------------------------
(* creditCommissionForOrder *)

Handled(o) == \E d \in Deliveries : handling[d].order = o

\* A sale won back by remarketing is not credited, and the lead's open
\* referral is closed. Any other goes on to look for the affiliate.
StartCredit(d, o, recovered) ==
    /\ handling[d] = NotHandling
    /\ o > due
    /\ Overlapping \/ ~Handled(o)
    /\ IF recovered
         THEN /\ referral' = [referral EXCEPT ![o] = IF @ = "pending" THEN "lost_to_remarketing" ELSE @]
              /\ UNCHANGED handling
         ELSE /\ handling' = [handling EXCEPT ![d] = Handling("findAccount", o)]
              /\ UNCHANGED referral
    /\ UNCHANGED <<account, due, rowVars, withdrawal, requestVars, review>>

GoOn(d, point) ==
    handling' = [handling EXCEPT ![d] = IF point = "idle" THEN NotHandling
                                                          ELSE Handling(point, @.order)]

FindAccount(d) ==
    /\ handling[d].at = "findAccount"
    /\ GoOn(d, IF account[ReferredBy[handling[d].order]] = "enabled" THEN "findExisting" ELSE "idle")
    /\ UNCHANGED <<account, due, referral, rowVars, withdrawal, requestVars, review>>

\* Mutant: only a row still pending counts as credited.
FindUnpaid(d) ==
    /\ handling[d].at = "findExisting"
    /\ GoOn(d, IF \A c \in RowsOfOrder(handling[d].order) : commission[c] # "pending"
                 THEN "attachReferral" ELSE "idle")
    /\ UNCHANGED <<account, due, referral, rowVars, withdrawal, requestVars, review>>

\* Mutant: the sale is credited without looking for a commission of it.
FindNothing(d) ==
    /\ handling[d].at = "findExisting"
    /\ GoOn(d, "attachReferral")
    /\ UNCHANGED <<account, due, referral, rowVars, withdrawal, requestVars, review>>

\* An order that has a commission, of any status, is credited already.
FindExisting(d) ==
    /\ handling[d].at = "findExisting"
    /\ GoOn(d, IF RowsOfOrder(handling[d].order) = {} THEN "attachReferral" ELSE "idle")
    /\ UNCHANGED <<account, due, referral, rowVars, withdrawal, requestVars, review>>

\* The lead's referral is marked paid, whatever it was.
AttachReferral(d) ==
    /\ handling[d].at = "attachReferral"
    /\ referral' = [referral EXCEPT ![handling[d].order] = "paid"]
    /\ GoOn(d, "create")
    /\ UNCHANGED <<account, due, rowVars, withdrawal, requestVars, review>>

CreateCommission(d) ==
    LET c == <<handling[d].order, d>>
    IN  /\ handling[d].at = "create"
        /\ commission[c] = "absent"
        /\ commission' = [commission EXCEPT ![c] = "pending"]
        /\ GoOn(d, "idle")
        /\ UNCHANGED <<account, due, referral, backs, withdrawal, requestVars, review>>

\* A failing query or a crash ends the handling where it is.
AbandonCredit(d) ==
    /\ handling[d].at # "idle"
    /\ GoOn(d, "idle")
    /\ UNCHANGED <<account, due, referral, rowVars, withdrawal, requestVars, review>>

-----------------------------------------------------------------------------
(* Maturity and refund *)

\* One more order completes its seven days; a handling of an order ends
\* long before.
Tick ==
    /\ due < LastOrder
    /\ \A d \in Deliveries : handling[d].order # due + 1
    /\ due' = due + 1
    /\ UNCHANGED <<account, referral, handling, rowVars, withdrawal, requestVars, review>>

IsDue(c) == commission[c] = "pending" /\ c[1] <= due

TransitionDuePending ==
    /\ \E c \in Rows : IsDue(c)
    /\ commission' = [c \in Rows |-> IF IsDue(c) THEN "available" ELSE commission[c]]
    /\ UNCHANGED <<creditVars, backs, withdrawal, requestVars, review>>

\* Mutant: the refund takes rows a payout has already.
RefundWithdrawnToo(o) ==
    /\ RowsOfOrder(o) # {}
    /\ commission' = [c \in Rows |-> IF c \in RowsOfOrder(o) THEN "refunded" ELSE commission[c]]
    /\ UNCHANGED <<creditVars, backs, withdrawal, requestVars, review>>

\* refundCommissionForOrder: what no payout has taken yet.
RefundCommission(o) ==
    /\ \E c \in RowsOfOrder(o) : commission[c] \in {"pending", "available"}
    /\ commission' = [c \in Rows |-> IF c[1] = o /\ commission[c] \in {"pending", "available"}
                                       THEN "refunded" ELSE commission[c]]
    /\ UNCHANGED <<creditVars, backs, withdrawal, requestVars, review>>

-----------------------------------------------------------------------------
(* requestWithdrawal *)

Return(w, answer) ==
    /\ request' = [request EXCEPT ![w] = answer]
    /\ poolRead' = [poolRead EXCEPT ![w] = {}]

\* The route needs an account, enabled or not. Below the minimum, or with a
\* balance that does not reach the amount, the request is refused.
ReadPool(w) ==
    LET pool == AvailableOf(RequestedBy[w])
    IN  /\ request[w] = "idle"
        /\ account[RequestedBy[w]] # "absent"
        /\ IF AmountRequested[w] >= MinWithdrawal /\ Funds(pool, w)
             THEN /\ request' = [request EXCEPT ![w] = "commit"]
                  /\ poolRead' = [poolRead EXCEPT ![w] = pool]
             ELSE Return(w, "refused")
        /\ UNCHANGED <<creditVars, rowVars, withdrawal, review>>

\* The conditional update matches every row the loop chose.
Unchanged(S) == \A c \in S : commission[c] = "available"

Commit(w, S) ==
    /\ request[w] = "commit"
    /\ Consumed(S, poolRead[w], w)
    /\ Unchanged(S)
    /\ commission' = [c \in Rows |-> IF c \in S /\ commission[c] = "available"
                                       THEN "withdrawn" ELSE commission[c]]
    /\ backs' = [c \in Rows |-> IF c \in S /\ commission[c] = "available" THEN w ELSE backs[c]]
    /\ withdrawal' = [withdrawal EXCEPT ![w] = "pending"]
    /\ Return(w, "ok")
    /\ UNCHANGED <<creditVars, review>>

\* WITHDRAWAL_CONFLICT: everything is rolled back.
Conflict(w, S) ==
    /\ request[w] = "commit"
    /\ Consumed(S, poolRead[w], w)
    /\ ~Unchanged(S)
    /\ Return(w, "conflict")
    /\ UNCHANGED <<creditVars, rowVars, withdrawal, review>>

-----------------------------------------------------------------------------
(* The withdrawal queue of the panel *)

\* The routes read the withdrawal and go on only when it is pending.
Review(r, w, decision) ==
    /\ review[r] = NoReview
    /\ withdrawal[w] = "pending"
    /\ review' = [review EXCEPT ![r] = [do |-> decision, w |-> w]]
    /\ UNCHANGED <<creditVars, rowVars, withdrawal, requestVars>>

\* markWithdrawalPaid does not look at the status again.
MarkPaid(r) ==
    /\ review[r].do = "approve"
    /\ withdrawal' = [withdrawal EXCEPT ![review[r].w] = "paid"]
    /\ review' = [review EXCEPT ![r] = NoReview]
    /\ UNCHANGED <<creditVars, rowVars, requestVars>>

\* rejectWithdrawal: the release and the status are one transaction.
RejectWithdrawal(r) ==
    LET held == {c \in Rows : backs[c] = review[r].w /\ commission[c] = "withdrawn"}
    IN  /\ review[r].do = "reject"
        /\ commission' = [c \in Rows |-> IF c \in held THEN "available" ELSE commission[c]]
        /\ backs' = [c \in Rows |-> IF c \in held THEN None ELSE backs[c]]
        /\ withdrawal' = [withdrawal EXCEPT ![review[r].w] = "rejected"]
        /\ review' = [review EXCEPT ![r] = NoReview]
        /\ UNCHANGED <<creditVars, requestVars>>

-----------------------------------------------------------------------------
CreditStep(d) ==
    \/ \E o \in Orders, recovered \in BOOLEAN : StartCredit(d, o, recovered)
    \/ FindAccount(d)
    \/ FindExisting(d)
    \/ AttachReferral(d)
    \/ CreateCommission(d)
    \/ AbandonCredit(d)

RequestStep(w) ==
    \/ ReadPool(w)
    \/ \E S \in SUBSET poolRead[w] : Commit(w, S) \/ Conflict(w, S)

ReviewStep(r) ==
    \/ \E w \in Requests, decision \in Decision : Review(r, w, decision)
    \/ MarkPaid(r)
    \/ RejectWithdrawal(r)

Next ==
    \/ \E a \in Affiliates : Enroll(a) \/ SetEnabled(a)
    \/ \E d \in Deliveries : CreditStep(d)
    \/ Tick
    \/ TransitionDuePending
    \/ \E o \in Orders : RefundCommission(o)
    \/ \E w \in Requests : RequestStep(w)
    \/ \E r \in Admins : ReviewStep(r)

Spec == Init /\ [][Next]_vars

-----------------------------------------------------------------------------
(* Properties *)

\* The state is what the four tables and the requests in flight can hold.
TypeOK ==
    /\ account \in [Affiliates -> {"absent", "enabled", "disabled"}]
    /\ due \in 0..LastOrder
    /\ referral \in [Orders -> ReferralStatus]
    /\ handling \in [Deliveries -> [at : CreditPoint, order : 0..LastOrder]]
    /\ \A d \in Deliveries : handling[d].at # "idle" => handling[d].order \in Orders
    /\ commission \in [Rows -> RowStatus]
    /\ backs \in [Rows -> Requests \cup {None}]
    /\ withdrawal \in [Requests -> WithdrawalStatus]
    /\ request \in [Requests -> RequestPoint]
    /\ poolRead \in [Requests -> SUBSET Rows]
    /\ review \in [Admins -> [do : Decision \cup {"idle"}, w : Requests \cup {None}]]

\* A withdrawal in the queue holds commissions worth at least its amount,
\* whatever other requests, refunds and rejections ran between its read and
\* its commit (requestWithdrawal, the count of the conditional update).
PendingIsFunded ==
    \A w \in Requests : withdrawal[w] = "pending" => Funds(Backing(w), w)

\* A commission is out of the balance exactly while it backs a payout of its
\* own affiliate that stands (requestWithdrawal, rejectWithdrawal).
WithdrawnBacksStandingPayout ==
    \A c \in Rows :
        /\ commission[c] = "withdrawn" <=> backs[c] # None
        /\ backs[c] # None => /\ withdrawal[backs[c]] \in {"pending", "paid"}
                              /\ RequestedBy[backs[c]] = ReferredBy[c[1]]

\* A sale is commissioned once, however often the gateway sends it and
\* wherever an earlier handling broke off, as long as handlings of one order do
\* not overlap (the look-up of creditCommissionForOrder).
OneCommissionPerSale ==
    \A o \in Orders : Cardinality(RowsOfOrder(o)) <= 1

Standing(a) == {w \in Requests : RequestedBy[w] = a /\ withdrawal[w] \in {"pending", "paid"}}
PaidOutSales(a) ==
    {o \in Orders : ReferredBy[o] = a /\ \E c \in RowsOfOrder(o) : commission[c] = "withdrawn"}

\* Nobody is paid more than the sales he brought are worth: an affiliate's payouts that
\* wait or were paid are covered by as many sales of his, none counted twice, whatever
\* approvals were repeated, requests overlapped and payouts were rejected in between
\* (creditCommissionForOrder, requestWithdrawal, rejectWithdrawal).
NeverOverpaid ==
    \A a \in Affiliates :
        MapThenSumSet(LAMBDA w : AmountRequested[w], Standing(a))
            <= MapThenSumSet(LAMBDA o : NetAmount[o], PaidOutSales(a))

\* "total gross (sum of net commissions consumed)": a request takes from the
\* balance what it asks for, and the rest stays with the affiliate.
SurplusStays ==
    \A w \in Requests : withdrawal[w] = "pending" => Worth(Backing(w)) = AmountRequested[w]

\* The affiliates' ledger, too, is an atomic payout ledger seen from outside.
Payout == INSTANCE PayoutLedger
            WITH Payouts <- Requests, row <- commission, payout <- withdrawal
ImplementsPayout == Payout!Spec
=============================================================================
