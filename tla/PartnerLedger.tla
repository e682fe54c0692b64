--------------------------- MODULE PartnerLedger ---------------------------
(***************************************************************************)
(* The revenue-share ledger of the partners (socios): partner.service.ts,  *)
(* cost.service.ts and the withdrawal queue of partner.admin.routes.ts.    *)
(*                                                                         *)
(* Every read and every write of the database that can interleave with     *)
(* another request is a step of its own. A withdrawal request runs in a    *)
(* READ COMMITTED transaction: its two reads are steps, and its writes and *)
(* the commit are one step, because the conditional updates lock the rows  *)
(* they matched until the commit.                                          *)
(*                                                                         *)
(* Amounts are naturals. A commission row is the pair <<partner, order>>   *)
(* (the table's unique key), a cost share the pair <<partner, cost>>.      *)
(* Orders are numbered in order of sale, so availableAt (sale + 3 days)    *)
(* orders rows as their order number does; `due` is the last order whose   *)
(* holding period is over.                                                 *)
(***************************************************************************)
EXTENDS Integers, FiniteSets, FiniteSetsExt

CONSTANTS Partners,
          LastOrder,         \* orders are 1..LastOrder
          Costs,             \* shared costs
          Requests,          \* withdrawal requests, one payout each
          Admins,            \* superadmins that may review concurrently
          None,
          RequestedBy,       \* the partner of a request
          AmountRequested,   \* its amount
          MinWithdrawal,     \* PARTNER_RULES.minWithdrawal
          CommissionAmount,  \* amount of a row, 0 when the share rounds to 0
          ShareAmount,       \* amount of a cost share
          WithdrawOnly,      \* partners being offboarded, out of the pool at first
          Earlier,           \* rows that were credited before
          Toggled            \* bound: partners an admin toggles in and out

Orders == 1..LastOrder
Rows == Partners \X Orders
Shares == Partners \X Costs

ASSUME ConstantsAssumption ==
    /\ IsFiniteSet(Partners) /\ IsFiniteSet(Costs) /\ IsFiniteSet(Requests)
    /\ LastOrder \in Nat
    /\ None \notin Requests
    /\ RequestedBy \in [Requests -> Partners]
    /\ AmountRequested \in [Requests -> Nat]
    /\ MinWithdrawal \in Nat
    /\ CommissionAmount \in [Rows -> Nat]
    /\ ShareAmount \in [Shares -> Nat]
    /\ WithdrawOnly \subseteq Partners
    /\ Earlier \subseteq Rows
    /\ Toggled \subseteq Partners

VARIABLES
    enabled,      \* partners in the commission pool
    due,          \* the clock: orders 1..due are past D+3
    crediting,    \* per order, the partners its credit loop has still to reach
    commission,   \* PartnerCommission.status
    backs,        \* PartnerCommission.withdrawalId
    share,        \* PartnerCostShare.status
    settledBy,    \* PartnerCostShare.withdrawalId
    withdrawal,   \* PartnerWithdrawal.status
    request,      \* control point of each requestWithdrawal call
    poolRead,     \* the available rows the call has read
    owedRead,     \* the open cost shares the call has read
    admin,        \* control point of each review
    offboarded    \* partners whose account was anonymised and deactivated

creditVars == <<enabled, due, crediting>>
rowVars == <<commission, backs>>
shareVars == <<share, settledBy>>
requestVars == <<request, poolRead, owedRead>>
vars == <<creditVars, rowVars, shareVars, withdrawal, requestVars, admin, offboarded>>

RowStatus == {"absent", "pending", "available", "withdrawn", "refunded"}
WithdrawalStatus == {"none", "pending", "paid", "rejected"}
RequestPoint == {"idle", "readShares", "commit", "ok", "refused", "conflict"}

\* What a review is doing: it has read a pending withdrawal and will approve
\* or reject it; once it paid, the automatic offboarding reads the balance.
ReviewPoint == {"idle", "approve", "reject", "offboard", "count", "scrub"}
BalancePart == {"available", "pending"}
NoBalance == [part \in BalancePart |-> -1]
Reviewing(point, w) == [at |-> point, w |-> w, read |-> NoBalance]
Idle == Reviewing("idle", None)

-----------------------------------------------------------------------------
(* Amounts *)

Worth(S) == MapThenSumSet(LAMBDA c : CommissionAmount[c], S)
Owed(S) == MapThenSumSet(LAMBDA s : ShareAmount[s], S)

\* S is worth what request w asks plus the cost shares D it absorbs.
Covers(S, w, D) == Worth(S) >= AmountRequested[w] + Owed(D)

RowsOf(p, statuses) == {c \in Rows : c[1] = p /\ commission[c] \in statuses}
OpenSharesOf(p) == {s \in Shares : s[1] = p /\ share[s] = "open"}
Backing(w) == {c \in Rows : backs[c] = w}
SettledWith(w) == {s \in Shares : settledBy[s] = w}

\* The rows the greedy loop takes from a pool: oldest first, until the target
\* is reached, the last row whole.
Consumed(S, pool, w, D) ==
    /\ S \subseteq pool
    /\ \A c \in S : LET older == {d \in pool : d[2] < c[2]}
                    IN  older \subseteq S /\ ~Covers(older, w, D)
    /\ Covers(S, w, D) \/ S = pool

Init ==
    /\ enabled = Partners \ WithdrawOnly
    /\ due = 0
    /\ crediting = [o \in Orders |-> {}]
    /\ commission = [c \in Rows |-> IF c \in Earlier THEN "pending" ELSE "absent"]
    /\ backs = [c \in Rows |-> None]
    /\ share = [s \in Shares |-> "absent"]
    /\ settledBy = [s \in Shares |-> None]
    /\ withdrawal = [w \in Requests |-> "none"]
    /\ request = [w \in Requests |-> "idle"]
    /\ poolRead = [w \in Requests |-> {}]
    /\ owedRead = [w \in Requests |-> {}]
    /\ admin = [a \in Admins |-> Idle]
    /\ offboarded = {}

-----------------------------------------------------------------------------
(* Credit, maturity, reversal *)

\* creditPartnersForOrder reads the enabled partners of an eligible order; a
\* repeated call starts the loop over.
StartCredit(o) ==
    /\ o > due
    /\ crediting' = [crediting EXCEPT ![o] = @ \cup enabled]
    /\ UNCHANGED <<enabled, due, rowVars, shareVars, withdrawal, requestVars, admin, offboarded>>

\* One turn of the loop: a zero share and a row that exists already (P2002)
\* are skipped.
CreditPartner(o, p) ==
    /\ o > due
    /\ p \in crediting[o]
    /\ crediting' = [crediting EXCEPT ![o] = @ \ {p}]
    /\ commission' = IF commission[<<p, o>>] = "absent" /\ CommissionAmount[<<p, o>>] > 0
                       THEN [commission EXCEPT ![<<p, o>>] = "pending"]
                       ELSE commission
    /\ UNCHANGED <<enabled, due, backs, shareVars, withdrawal, requestVars, admin, offboarded>>

\* A database error or a crash ends the loop half way.
AbandonCredit(o) ==
    /\ crediting[o] # {}
    /\ crediting' = [crediting EXCEPT ![o] = {}]
    /\ UNCHANGED <<enabled, due, rowVars, shareVars, withdrawal, requestVars, admin, offboarded>>

\* Time passes: one more order completes its D+3.
Tick ==
    /\ due < LastOrder
    /\ due' = due + 1
    /\ UNCHANGED <<enabled, crediting, rowVars, shareVars, withdrawal, requestVars, admin, offboarded>>

\* A pending row whose availableAt is not in the future.
IsDue(c) == commission[c] = "pending" /\ c[2] <= due

\* The hourly tick: every due row becomes available in one statement.
TransitionDuePending ==
    /\ \E c \in Rows : IsDue(c)
    /\ commission' = [c \in Rows |-> IF IsDue(c) THEN "available" ELSE commission[c]]
    /\ UNCHANGED <<creditVars, backs, shareVars, withdrawal, requestVars, admin, offboarded>>

\* Mutant: the reversal takes rows a payout has already.
ReverseWithdrawnToo(o) ==
    /\ \E p \in Partners : commission[<<p, o>>] \in {"pending", "available", "withdrawn"}
    /\ commission' = [c \in Rows |-> IF c[2] = o /\ commission[c] # "absent"
                                       THEN "refunded" ELSE commission[c]]
    /\ UNCHANGED <<creditVars, backs, shareVars, withdrawal, requestVars, admin, offboarded>>

\* A refund of the order reverses the rows still in the pool.
ReversePartners(o) ==
    /\ \E p \in Partners : commission[<<p, o>>] \in {"pending", "available"}
    /\ commission' = [c \in Rows |->
                        IF c[2] = o /\ commission[c] \in {"pending", "available"}
                          THEN "refunded" ELSE commission[c]]
    /\ UNCHANGED <<creditVars, backs, shareVars, withdrawal, requestVars, admin, offboarded>>

\* PATCH /partners/:id toggles the partner in and out of the pool.
SetEnabled(p) ==
    /\ p \in Toggled
    /\ enabled' = IF p \in enabled THEN enabled \ {p} ELSE enabled \cup {p}
    /\ UNCHANGED <<due, crediting, rowVars, shareVars, withdrawal, requestVars, admin, offboarded>>

-----------------------------------------------------------------------------
(* Shared costs *)

\* A shared cost becomes one open debit per enabled partner.
CreateCost(k) ==
    /\ \A p \in Partners : share[<<p, k>>] = "absent"
    /\ enabled # {}
    /\ share' = [s \in Shares |-> IF s[2] = k /\ s[1] \in enabled THEN "open" ELSE share[s]]
    /\ UNCHANGED <<creditVars, rowVars, settledBy, withdrawal, requestVars, admin, offboarded>>

\* Deleting the cost removes its open debits and keeps the settled ones.
DeleteCost(k) ==
    /\ \E p \in Partners : share[<<p, k>>] = "open"
    /\ share' = [s \in Shares |-> IF s[2] = k /\ share[s] = "open" THEN "absent" ELSE share[s]]
    /\ UNCHANGED <<creditVars, rowVars, settledBy, withdrawal, requestVars, admin, offboarded>>

-----------------------------------------------------------------------------
(* requestWithdrawal *)

CanRequest(p) == p \in (enabled \cup WithdrawOnly) \ offboarded

\* An amount below the minimum is refused; otherwise the transaction starts
\* with its first read, the available rows.
ReadPool(w) ==
    /\ request[w] = "idle"
    /\ CanRequest(RequestedBy[w])
    /\ IF AmountRequested[w] < MinWithdrawal
         THEN /\ request' = [request EXCEPT ![w] = "refused"]
              /\ UNCHANGED poolRead
         ELSE /\ request' = [request EXCEPT ![w] = "readShares"]
              /\ poolRead' = [poolRead EXCEPT ![w] = RowsOf(RequestedBy[w], {"available"})]
    /\ UNCHANGED <<creditVars, rowVars, shareVars, withdrawal, owedRead, admin, offboarded>>

\* The call returns and its local variables are gone.
Return(w, answer) ==
    /\ request' = [request EXCEPT ![w] = answer]
    /\ poolRead' = [poolRead EXCEPT ![w] = {}]
    /\ owedRead' = [owedRead EXCEPT ![w] = {}]

\* Second read: the open cost shares; an insufficient net balance ends it.
ReadShares(w) ==
    /\ request[w] = "readShares"
    /\ IF Covers(poolRead[w], w, OpenSharesOf(RequestedBy[w]))
         THEN /\ request' = [request EXCEPT ![w] = "commit"]
              /\ owedRead' = [owedRead EXCEPT ![w] = OpenSharesOf(RequestedBy[w])]
              /\ UNCHANGED poolRead
         ELSE Return(w, "refused")
    /\ UNCHANGED <<creditVars, rowVars, shareVars, withdrawal, admin, offboarded>>

\* Mutant: the count of consumed commissions is not compared.
UnchangedShares(S, D) == \A s \in D : share[s] = "open"

\* What was read is still there to consume and to settle: both conditional
\* updates match as many rows as were asked.
Unchanged(S, D) ==
    /\ \A c \in S : commission[c] = "available"
    /\ \A s \in D : share[s] = "open"

Commit(w, S) ==
    /\ request[w] = "commit"
    /\ Consumed(S, poolRead[w], w, owedRead[w])
    /\ Unchanged(S, owedRead[w])
    /\ commission' = [c \in Rows |-> IF c \in S THEN "withdrawn" ELSE commission[c]]
    /\ backs' = [c \in Rows |-> IF c \in S THEN w ELSE backs[c]]
    /\ share' = [s \in Shares |-> IF s \in owedRead[w] THEN "settled" ELSE share[s]]
    /\ settledBy' = [s \in Shares |-> IF s \in owedRead[w] THEN w ELSE settledBy[s]]
    /\ withdrawal' = [withdrawal EXCEPT ![w] = "pending"]
    /\ Return(w, "ok")
    /\ UNCHANGED <<creditVars, admin, offboarded>>

\* WITHDRAWAL_CONFLICT: the transaction rolls back and the partner may retry.
Conflict(w, S) ==
    /\ request[w] = "commit"
    /\ Consumed(S, poolRead[w], w, owedRead[w])
    /\ ~Unchanged(S, owedRead[w])
    /\ Return(w, "conflict")
    /\ UNCHANGED <<creditVars, rowVars, shareVars, withdrawal, admin, offboarded>>

-----------------------------------------------------------------------------
(* The withdrawal queue: read, then act on what was read *)

\* Mutant: a decided withdrawal is reviewed again.
ReviewAny(a, w, decision) ==
    /\ admin[a] = Idle
    /\ withdrawal[w] # "none"
    /\ admin' = [admin EXCEPT ![a] = Reviewing(decision, w)]
    /\ UNCHANGED <<creditVars, rowVars, shareVars, withdrawal, requestVars, offboarded>>

\* The route reads the withdrawal and goes on only when it is pending.
Review(a, w, decision) ==
    /\ admin[a] = Idle
    /\ withdrawal[w] = "pending"
    /\ admin' = [admin EXCEPT ![a] = Reviewing(decision, w)]
    /\ UNCHANGED <<creditVars, rowVars, shareVars, withdrawal, requestVars, offboarded>>

\* markWithdrawalPaid, unconditional; autoOffboardIfFullyPaid goes on for a
\* withdraw-only partner whose account is active.
Approve(a) ==
    LET w == admin[a].w
        p == RequestedBy[w]
    IN  /\ admin[a].at = "approve"
        /\ withdrawal' = [withdrawal EXCEPT ![w] = "paid"]
        /\ admin' = [admin EXCEPT ![a] =
                       IF p \in WithdrawOnly \ offboarded
                         THEN Reviewing("offboard", w) ELSE Idle]
        /\ UNCHANGED <<creditVars, rowVars, shareVars, requestVars, offboarded>>

\* Mutant: the released rows keep their link.
RejectKeepingLink(a) ==
    LET w == admin[a].w
    IN  /\ admin[a].at = "reject"
        /\ commission' = [c \in Rows |-> IF backs[c] = w THEN "available" ELSE commission[c]]
        /\ withdrawal' = [withdrawal EXCEPT ![w] = "rejected"]
        /\ admin' = [admin EXCEPT ![a] = Idle]
        /\ UNCHANGED <<creditVars, backs, shareVars, requestVars, offboarded>>

\* rejectWithdrawal: its two updates are one transaction.
Reject(a) ==
    LET w == admin[a].w
    IN  /\ admin[a].at = "reject"
        /\ commission' = [c \in Rows |->
                            IF backs[c] = w /\ commission[c] = "withdrawn"
                              THEN "available" ELSE commission[c]]
        /\ backs' = [c \in Rows |->
                       IF backs[c] = w /\ commission[c] = "withdrawn" THEN None ELSE backs[c]]
        /\ withdrawal' = [withdrawal EXCEPT ![w] = "rejected"]
        /\ admin' = [admin EXCEPT ![a] = Idle]
        /\ UNCHANGED <<creditVars, shareVars, requestVars, offboarded>>

-----------------------------------------------------------------------------
(* autoOffboardIfFullyPaid: the aggregates of getPartnerBalance are separate *)
(* queries of one Promise.all, in any order.                               *)

ReadAggregate(a, status) ==
    LET p == RequestedBy[admin[a].w]
    IN  /\ admin[a].at = "offboard"
        /\ admin[a].read[status] = -1
        /\ admin' = [admin EXCEPT ![a] =
             [at |-> "offboard", w |-> admin[a].w,
              read |-> [admin[a].read EXCEPT ![status] = Worth(RowsOf(p, {status}))]]]
        /\ UNCHANGED <<creditVars, rowVars, shareVars, withdrawal, requestVars, offboarded>>

\* The balance net of the open cost shares, read next, must be zero.
CheckBalance(a) ==
    LET read == admin[a].read
    IN  /\ admin[a].at = "offboard"
        /\ read["available"] # -1 /\ read["pending"] # -1
        /\ admin' = [admin EXCEPT ![a] =
             IF /\ read["pending"] = 0
                /\ read["available"] <= Owed(OpenSharesOf(RequestedBy[admin[a].w]))
               THEN Reviewing("count", admin[a].w) ELSE Idle]
        /\ UNCHANGED <<creditVars, rowVars, shareVars, withdrawal, requestVars, offboarded>>

\* No other payout may be queued.
CountPending(a) ==
    LET p == RequestedBy[admin[a].w]
    IN  /\ admin[a].at = "count"
        /\ admin' = [admin EXCEPT ![a] =
             IF \E v \in Requests : RequestedBy[v] = p /\ withdrawal[v] = "pending"
               THEN Idle ELSE Reviewing("scrub", admin[a].w)]
        /\ UNCHANGED <<creditVars, rowVars, shareVars, withdrawal, requestVars, offboarded>>

\* The identity is scrubbed and the account deactivated.
Scrub(a) ==
    /\ admin[a].at = "scrub"
    /\ offboarded' = offboarded \cup {RequestedBy[admin[a].w]}
    /\ admin' = [admin EXCEPT ![a] = Idle]
    /\ UNCHANGED <<creditVars, rowVars, shareVars, withdrawal, requestVars>>

-----------------------------------------------------------------------------
RequestStep(w) ==
    \/ ReadPool(w)
    \/ ReadShares(w)
    \/ \E S \in SUBSET poolRead[w] : Commit(w, S) \/ Conflict(w, S)

AdminStep(a) ==
    \/ \E w \in Requests, decision \in {"approve", "reject"} : Review(a, w, decision)
    \/ Approve(a)
    \/ Reject(a)
    \/ \E status \in BalancePart : ReadAggregate(a, status)
    \/ CheckBalance(a)
    \/ CountPending(a)
    \/ Scrub(a)

OrderStep(o) ==
    \/ StartCredit(o)
    \/ \E p \in Partners : CreditPartner(o, p)
    \/ AbandonCredit(o)
    \/ ReversePartners(o)

Next ==
    \/ \E o \in Orders : OrderStep(o)
    \/ Tick
    \/ TransitionDuePending
    \/ \E p \in Partners : SetEnabled(p)
    \/ \E k \in Costs : CreateCost(k) \/ DeleteCost(k)
    \/ \E w \in Requests : RequestStep(w)
    \/ \E a \in Admins : AdminStep(a)

Spec == Init /\ [][Next]_vars

-----------------------------------------------------------------------------
(* Properties *)

Balances == {-1} \cup {Worth(S) : S \in SUBSET Rows}

TypeOK ==
    /\ enabled \subseteq Partners
    /\ due \in 0..LastOrder
    /\ crediting \in [Orders -> SUBSET Partners]
    /\ commission \in [Rows -> RowStatus]
    /\ backs \in [Rows -> Requests \cup {None}]
    /\ share \in [Shares -> {"absent", "open", "settled"}]
    /\ settledBy \in [Shares -> Requests \cup {None}]
    /\ withdrawal \in [Requests -> WithdrawalStatus]
    /\ request \in [Requests -> RequestPoint]
    /\ poolRead \in [Requests -> SUBSET Rows]
    /\ owedRead \in [Requests -> SUBSET Shares]
    /\ admin \in [Admins -> [at : ReviewPoint, w : Requests \cup {None},
                              read : [BalancePart -> Balances]]]
    /\ offboarded \subseteq Partners

\* A withdrawal waiting for review is funded in full: the commissions it
\* holds are worth the amount asked plus every cost debit it settled, however
\* many requests, refunds, maturations and reviews ran between its reads and
\* its commit (requestWithdrawal, the conditional updates and their counts).
PendingIsFunded ==
    \A w \in Requests :
        withdrawal[w] = "pending" => Covers(Backing(w), w, SettledWith(w))

\* A commission is out of the pool exactly while it backs a payout that stands:
\* never stranded by a rejected one, never withdrawn for nothing, and only
\* for a payout of its own partner (requestWithdrawal, rejectWithdrawal).
WithdrawnBacksStandingPayout ==
    \A c \in Rows :
        /\ commission[c] = "withdrawn" <=> backs[c] # None
        /\ backs[c] # None => /\ withdrawal[backs[c]] \in {"pending", "paid"}
                              /\ RequestedBy[backs[c]] = c[1]

\* With reviews made one at a time, a payout that was paid keeps the
\* commissions that funded it: they can never be paid a second time
\* (markWithdrawalPaid after the status check of the approve route).
PaidStaysFunded ==
    \A w \in Requests :
        withdrawal[w] = "paid" => Covers(Backing(w), w, SettledWith(w))

Standing(p) == {w \in Requests : RequestedBy[w] = p /\ withdrawal[w] \in {"pending", "paid"}}
SettledBy(W) == {s \in Shares : settledBy[s] \in W}

\* Nobody is paid more than his sales are worth: the payouts of a partner that wait or
\* were paid, with the debits they settled, are covered by commissions of his that left
\* the pool, none counted twice, though requests, rejections and refunds overlapped
\* (requestWithdrawal, rejectWithdrawal).
NeverOverpaid ==
    \A p \in Partners :
        MapThenSumSet(LAMBDA w : AmountRequested[w], Standing(p)) + Owed(SettledBy(Standing(p)))
            <= Worth(RowsOf(p, {"withdrawn"}))

\* A debit counts as settled only while a standing payout absorbed it ("they
\* were just covered by the consumed commissions").
SettledIsCovered ==
    \A s \in Shares :
        share[s] = "settled" => withdrawal[settledBy[s]] \in {"pending", "paid"}

\* The reversal of a refunded sale is final: no maturation, release or commit
\* that read the row before the refund brings it back (reversePartnersForOrder
\* against the reads of requestWithdrawal).
ReversalIsFinal ==
    [][\A c \in Rows : commission[c] = "refunded" => commission'[c] = "refunded"]_vars

\* Only an account that is owed nothing is anonymised: at the moment of the
\* scrub the partner has no pending commission, no balance net of its debits
\* and no queued payout (autoOffboardIfFullyPaid).
OffboardedIsPaidOut ==
    [][\A p \in offboarded' \ offboarded :
          /\ RowsOf(p, {"pending"}) = {}
          /\ Worth(RowsOf(p, {"available"})) <= Owed(OpenSharesOf(p))
          /\ \A w \in Requests : RequestedBy[w] = p => withdrawal[w] # "pending"]_vars

\* The interleaved reads and writes look atomic from outside: every behaviour
\* of the ledger is one of PayoutLedger, whose payouts reserve free
\* commissions in one step.
Payout == INSTANCE PayoutLedger
            WITH Payouts <- Requests, row <- commission, payout <- withdrawal
ImplementsPayout == Payout!Spec
=============================================================================
