---------------------------- MODULE OrderWebhook ----------------------------
(***************************************************************************)
(* What an order of the main product does to the database: the handlers of *)
(* the gateway's webhook (handleLojouWebhook), the nightly reconciliation  *)
(* (lojouReconcile.ts) and the abandoned-checkout remarketing (cron.ts).   *)
(*                                                                         *)
(* Every awaited query is a step of its own, so that deliveries, cron jobs *)
(* and crashes interleave with a handler between any two of its queries.   *)
(* A read whose answer cannot go stale (account rows are never deleted) is *)
(* joined to the next one. Prices, fees, subscription dates and messages   *)
(* are left out; orders of courses take another path from the start.       *)
(***************************************************************************)
EXTENDS Integers, FiniteSets, FiniteSetsExt

CONSTANTS Orders,
          Buyers,
          BuyerOf,           \* the buyer of an order, by e-mail and phone
          Coproduced,        \* orders attributed to a coproducer
          Couponed,          \* orders that carry the coupon
          MaxUses,           \* Coupon.maxUses
          Leads,             \* buyers captured by the landing form
          Referred,          \* those with an affiliate's code (referredByCode)
          Workers,           \* webhook requests in flight at once
          ByToken,           \* those whose events come by the coproducer's own URL
          GatewayReachable,  \* a question to the gateway is always answered
          Reconciling,       \* the nightly reconciliation runs
          Overlapping,       \* an order may be in the hands of two at once
          MaxFaults,         \* bound: crashes and failing queries
          MaxRepeats         \* bound: re-deliveries of what was answered

ASSUME WebhookAssumption ==
    /\ Orders # {}
    /\ BuyerOf \in [Orders -> Buyers]
    /\ ByToken \subseteq Coproduced
    /\ Coproduced \subseteq Orders /\ Couponed \subseteq Orders
    /\ Referred \subseteq Leads /\ Leads \subseteq Buyers
    /\ {GatewayReachable, Reconciling, Overlapping} \subseteq BOOLEAN
    /\ {MaxUses, MaxFaults, MaxRepeats} \subseteq Nat

VARIABLES
    gateway,     \* status of each order at the gateway
    emitted,     \* events the gateway has to deliver
    answered,    \* events that got their answer and are not retried
    repeats,     \* re-deliveries so far
    faults,      \* faults so far
    tx,          \* Transaction.status
    renewal,     \* Transaction.isRenewal
    account,     \* User.subscriptionStatus
    stage,       \* User.remarketingStage
    left,        \* decrements of SystemConfig.currentUsers, by refunded order
    counted,     \* increments of Coupon.usesCount, by order
    coupon,      \* Coupon.active
    affiliate,   \* AffiliateCommission rows of each order, by status
    partners,    \* PartnerCommission rows of each order, as a whole
    job,         \* the request each worker handles
    contacting,  \* leads the remarketing tick has selected
    reconcile,   \* the order the reconciliation is working on
    alerted,     \* orders a person was alerted of
    granted,     \* history: orders that gave access to their buyer
    recovered,   \* history: orders of a lead won back by remarketing
    interrupted, \* history: orders whose reconciliation died half way
    unconfirmed  \* history: orders with an approval the gateway did not confirm

outside == <<gateway, emitted>>
delivery == <<answered, repeats, faults>>
sale == <<tx, renewal>>
user == <<account, stage>>
money == <<affiliate, partners>>
tally == <<left, counted, coupon>>
cron == <<contacting, reconcile, alerted>>
history == <<granted, recovered, interrupted, unconfirmed>>
vars == <<outside, delivery, sale, user, money, tally, job, cron, history>>

Events == {"approved", "refunded", "cancelled"}
TxStatus == {"none", "pending", "approved", "refunded", "cancelled"}
AccountStatus == {"none", "lead", "active", "canceled"}
Stage == {"none", "checkout_pending", "checkout_failed_sent"}
Point == {"idle", "verify", "lookup",
          "buyer", "grant", "probe", "record", "coupon", "couponCap",
          "affiliateRead", "affiliateCreate", "partners",
          "cancelUser", "countLeaver", "markRefunded", "unpayAffiliate", "unpayPartners",
          "notePending", "readLead", "markLead"}

\* A request: where it is, its event, and the handler's local variables.
Job == [at : Point, event : Orders \X Events, known : TxStatus, buyer : AccountStatus,
        existed : BOOLEAN, renewal : BOOLEAN, credited : BOOLEAN]
Fresh(e) == [at |-> "verify", event |-> e, known |-> "none", buyer |-> "none",
             existed |-> FALSE, renewal |-> FALSE, credited |-> FALSE]
NoJob == [Fresh(<<CHOOSE o \in Orders : TRUE, "approved">>) EXCEPT !.at = "idle"]

NoOrder == [at |-> "idle", order |-> CHOOSE o \in Orders : TRUE]

Init ==
    /\ gateway = [o \in Orders |-> "none"]
    /\ emitted = {} /\ answered = {}
    /\ repeats = 0 /\ faults = 0
    /\ tx = [o \in Orders |-> "none"]
    /\ renewal = [o \in Orders |-> FALSE]
    /\ account = [b \in Buyers |-> IF b \in Leads THEN "lead" ELSE "none"]
    /\ stage = [b \in Buyers |-> "none"]
    /\ left = [o \in Orders |-> 0]
    /\ counted = [o \in Orders |-> 0]
    /\ coupon = TRUE
    /\ affiliate = [o \in Orders |-> [pending |-> 0, refunded |-> 0]]
    /\ partners = [o \in Orders |-> "none"]
    /\ job = [k \in Workers |-> NoJob]
    /\ contacting = {}
    /\ reconcile = NoOrder
    /\ alerted = {}
    /\ granted = {} /\ recovered = {} /\ interrupted = {} /\ unconfirmed = {}

-----------------------------------------------------------------------------
(* The gateway *)

Move(o, from, to) ==
    /\ gateway[o] = from
    /\ gateway' = [gateway EXCEPT ![o] = to]
    /\ UNCHANGED <<delivery, sale, user, money, tally, job, cron, history>>

StartCheckout(o) == Move(o, "none", "pending") /\ UNCHANGED emitted
Expire(o) == Move(o, "pending", "dead") /\ UNCHANGED emitted
Pay(o) == Move(o, "pending", "approved") /\ emitted' = emitted \cup {<<o, "approved">>}
Refund(o) == Move(o, "approved", "refunded") /\ emitted' = emitted \cup {<<o, "refunded">>}

\* A checkout the buyer has not completed; the order may still be paid.
Abandon(o) ==
    /\ gateway[o] \in {"pending", "dead"}
    /\ <<o, "cancelled">> \notin emitted
    /\ emitted' = emitted \cup {<<o, "cancelled">>}
    /\ UNCHANGED <<gateway, delivery, sale, user, money, tally, job, cron, history>>

\* Somebody is at an order.
InHand(o) ==
    \/ \E j \in Workers : job[j].at # "idle" /\ job[j].event[1] = o
    \/ reconcile.at # "idle" /\ reconcile.order = o

\* An event is retried until it is answered; sending it again after that, or
\* while it is being handled, is a repeat. Events overtake one another.
Deliver(k, e) ==
    LET again == e \in answered \/ \E j \in Workers : job[j].at # "idle" /\ job[j].event = e
    IN  /\ e \in emitted
        /\ job[k].at = "idle"
        /\ Overlapping \/ ~InHand(e[1])
        /\ again => repeats < MaxRepeats
        /\ repeats' = IF again THEN repeats + 1 ELSE repeats
        /\ job' = [job EXCEPT ![k] = Fresh(e)]
        /\ UNCHANGED <<outside, answered, faults, sale, user, money, tally, cron, history>>

-----------------------------------------------------------------------------
(* Common to the handlers *)

OrderOf(k) == job[k].event[1]
EventOf(k) == job[k].event[2]
BuyerFor(k) == BuyerOf[OrderOf(k)]
Goto(k, point) == job' = [job EXCEPT ![k].at = point]

\* The request is answered and the gateway does not send it again.
Answer(k) ==
    /\ answered' = answered \cup {job[k].event}
    /\ job' = [job EXCEPT ![k] = NoJob]

\* The process dies or a query throws: no answer, or a 500.
Crash(k) ==
    /\ job[k].at # "idle"
    /\ faults < MaxFaults
    /\ faults' = faults + 1
    /\ job' = [job EXCEPT ![k] = NoJob]
    /\ UNCHANGED <<outside, answered, repeats, sale, user, money, tally, cron, history>>

\* Mutant: the callback's answer is not used.
RefusesNothing(k) == FALSE

\* The gateway answers that it did not approve the order.
Refuses(k) == EventOf(k) = "approved" /\ gateway[OrderOf(k)] # "approved"

\* The verified callback: an approval the gateway does not confirm is answered 403.
Verify(k) ==
    /\ job[k].at = "verify"
    /\ OrderOf(k) \notin ByToken
    /\ IF Refuses(k)
         THEN Answer(k)
         ELSE Goto(k, "lookup") /\ UNCHANGED answered
    /\ UNCHANGED <<outside, repeats, faults, sale, user, money, tally, cron, history>>

\* An event of a coproducer's own URL is not verified, and a gateway that cannot
\* be asked does not block.
SkipVerify(k) ==
    /\ job[k].at = "verify"
    /\ OrderOf(k) \in ByToken \/ ~GatewayReachable
    /\ unconfirmed' = IF EventOf(k) = "approved" THEN unconfirmed \cup {OrderOf(k)} ELSE unconfirmed
    /\ Goto(k, "lookup")
    /\ UNCHANGED <<outside, delivery, sale, user, money, tally, cron,
                   granted, recovered, interrupted>>

\* Mutant: an approval is a repeat as soon as there is a row.
DuplicateOfAnyRow(k) ==
    \/ EventOf(k) = "approved" /\ tx[OrderOf(k)] # "none"
    \/ EventOf(k) = "refunded" /\ tx[OrderOf(k)] = "refunded"
    \/ EventOf(k) = "cancelled" /\ tx[OrderOf(k)] = "pending"

\* A repeated event whose effect is already on the order.
Duplicate(k) ==
    \/ EventOf(k) = "approved" /\ tx[OrderOf(k)] = "approved"
    \/ EventOf(k) = "refunded" /\ tx[OrderOf(k)] = "refunded"
    \/ EventOf(k) = "cancelled" /\ tx[OrderOf(k)] = "pending"

\* The order is read once; the handler goes by what it read.
Lookup(k) ==
    LET known == tx[OrderOf(k)]
        first == CASE EventOf(k) = "approved" -> "buyer"
                   [] EventOf(k) = "refunded" ->
                        IF known \notin {"none", "refunded"} THEN "cancelUser" ELSE "unpayAffiliate"
                   [] EventOf(k) = "cancelled" ->
                        IF known \notin {"approved", "refunded"} THEN "notePending" ELSE "readLead"
    IN  /\ job[k].at = "lookup"
        /\ IF Duplicate(k)
             THEN Answer(k)
             ELSE /\ job' = [job EXCEPT ![k].at = first, ![k].known = known]
                  /\ UNCHANGED answered
        /\ UNCHANGED <<outside, repeats, faults, sale, user, money, tally, cron, history>>

-----------------------------------------------------------------------------
(* order.approved *)

\* Mutant: a known buyer is taken for a paying one.
RenewsWhenKnown(b) == account[b] # "none"

Renews(b) ==
    /\ account[b] # "none"
    /\ \E o \in Orders : BuyerOf[o] = b /\ tx[o] = "approved"

\* Is the buyer known, and does another approved transaction of theirs make
\* this sale a renewal?
ReadBuyer(k) ==
    LET b == BuyerFor(k)
    IN  /\ job[k].at = "buyer"
        /\ job' = [job EXCEPT ![k].at = "grant", ![k].buyer = account[b],
                              ![k].renewal = Renews(b)]
        /\ UNCHANGED <<outside, delivery, sale, user, money, tally, cron, history>>

\* The account is created or reactivated and its funnel stage reset. Creating
\* an account that appeared since the read throws (unique e-mail): a 500.
GrantAccess(k) ==
    LET b == BuyerFor(k)
    IN  /\ job[k].at = "grant"
        /\ IF job[k].buyer = "none" /\ account[b] # "none"
             THEN /\ job' = [job EXCEPT ![k] = NoJob]
                  /\ UNCHANGED <<user, granted, recovered>>
             ELSE /\ account' = [account EXCEPT ![b] = "active"]
                  /\ stage' = [stage EXCEPT ![b] = "none"]
                  /\ granted' = granted \cup {OrderOf(k)}
                  /\ recovered' = IF stage[b] = "checkout_failed_sent"
                                    THEN recovered \cup {OrderOf(k)} ELSE recovered
                  /\ Goto(k, "probe")
        /\ UNCHANGED <<outside, delivery, sale, money, tally, cron, interrupted, unconfirmed>>

\* txExistedBefore: any row of the order, a pending one as well.
ProbeTransaction(k) ==
    /\ job[k].at = "probe"
    /\ job' = [job EXCEPT ![k].at = "record", ![k].existed = tx[OrderOf(k)] # "none"]
    /\ UNCHANGED <<outside, delivery, sale, user, money, tally, cron, history>>

RecordSale(k) ==
    /\ job[k].at = "record"
    /\ tx' = [tx EXCEPT ![OrderOf(k)] = "approved"]
    /\ renewal' = [renewal EXCEPT ![OrderOf(k)] = job[k].renewal]
    /\ Goto(k, IF OrderOf(k) \in Couponed /\ ~job[k].existed
                 THEN "coupon" ELSE "affiliateRead")
    /\ UNCHANGED <<outside, delivery, user, money, tally, cron, history>>

\* One more use of an active coupon, then a second look at its cap.
CountCoupon(k) ==
    /\ job[k].at = "coupon"
    /\ counted' = IF coupon THEN [counted EXCEPT ![OrderOf(k)] = @ + 1] ELSE counted
    /\ Goto(k, IF coupon THEN "couponCap" ELSE "affiliateRead")
    /\ UNCHANGED <<outside, delivery, sale, user, money, left, coupon, cron, history>>

DisableCoupon(k) ==
    /\ job[k].at = "couponCap"
    /\ coupon' = (coupon /\ MapThenSumSet(LAMBDA o : counted[o], Orders) < MaxUses)
    /\ Goto(k, "affiliateRead")
    /\ UNCHANGED <<outside, delivery, sale, user, money, left, counted, cron, history>>

\* The stage passed on is the one of the row just updated, as is the code.
ReadAffiliate(k) ==
    LET o == OrderOf(k)
        rows == affiliate[o].pending + affiliate[o].refunded
        credits == BuyerFor(k) \in Referred /\ rows = 0
    IN  /\ job[k].at = "affiliateRead"
        /\ Goto(k, IF credits THEN "affiliateCreate" ELSE "partners")
        /\ UNCHANGED <<outside, delivery, sale, user, money, tally, cron, history>>

CreateAffiliateCommission(k) ==
    /\ job[k].at = "affiliateCreate"
    /\ affiliate' = [affiliate EXCEPT ![OrderOf(k)].pending = @ + 1]
    /\ job' = [job EXCEPT ![k].at = "partners", ![k].credited = TRUE]
    /\ UNCHANGED <<outside, delivery, sale, user, partners, tally, cron, history>>

\* Mutant: an affiliate's sale is shared as well.
EntitledAnyway(k) == ~job[k].existed /\ OrderOf(k) \notin Coproduced

\* First handling of a sale that belongs to no one else.
Entitled(k) == ~job[k].existed /\ OrderOf(k) \notin Coproduced /\ ~job[k].credited

\* The share of the partners; rows that exist already are left as they are.
CreditPartners(k) ==
    LET o == OrderOf(k)
    IN  /\ job[k].at = "partners"
        /\ partners' = IF Entitled(k) /\ partners[o] = "none"
                         THEN [partners EXCEPT ![o] = "pending"] ELSE partners
        /\ Answer(k)
        /\ UNCHANGED <<outside, repeats, faults, sale, user, affiliate, tally, cron, history>>

\* A failing coupon or commission query is caught and the handler goes on.
SwallowError(k) ==
    LET next == CASE job[k].at \in {"coupon", "couponCap"} -> "affiliateRead"
                  [] job[k].at \in {"affiliateRead", "affiliateCreate"} -> "partners"
                  [] job[k].at = "unpayAffiliate" -> "unpayPartners"
                  [] OTHER -> "idle"
    IN  /\ job[k].at \in {"coupon", "couponCap", "affiliateRead", "affiliateCreate",
                          "partners", "unpayAffiliate", "unpayPartners", "markLead"}
        /\ faults < MaxFaults
        /\ faults' = faults + 1
        /\ IF next = "idle" THEN Answer(k) ELSE Goto(k, next) /\ UNCHANGED answered
        /\ UNCHANGED <<outside, repeats, sale, user, money, tally, cron, history>>

-----------------------------------------------------------------------------
(* order.refunded *)

CancelAccount(k) ==
    LET b == BuyerFor(k)
    IN  /\ job[k].at = "cancelUser"
        /\ IF account[b] # "none"
             THEN /\ account' = [account EXCEPT ![b] = "canceled"]
                  /\ Goto(k, "countLeaver")
             ELSE Goto(k, "markRefunded") /\ UNCHANGED account
        /\ UNCHANGED <<outside, delivery, sale, stage, money, tally, cron, history>>

CountLeaver(k) ==
    /\ job[k].at = "countLeaver"
    /\ left' = [left EXCEPT ![OrderOf(k)] = @ + 1]
    /\ Goto(k, "markRefunded")
    /\ UNCHANGED <<outside, delivery, sale, user, money, counted, coupon, cron, history>>

MarkRefunded(k) ==
    /\ job[k].at = "markRefunded"
    /\ tx' = [tx EXCEPT ![OrderOf(k)] = "refunded"]
    /\ Goto(k, "unpayAffiliate")
    /\ UNCHANGED <<outside, delivery, renewal, user, money, tally, cron, history>>

ReverseAffiliate(k) ==
    LET rows == affiliate[OrderOf(k)]
    IN  /\ job[k].at = "unpayAffiliate"
        /\ affiliate' = [affiliate EXCEPT ![OrderOf(k)] =
                           [pending |-> 0, refunded |-> rows.pending + rows.refunded]]
        /\ Goto(k, "unpayPartners")
        /\ UNCHANGED <<outside, delivery, sale, user, partners, tally, cron, history>>

ReversePartners(k) ==
    /\ job[k].at = "unpayPartners"
    /\ partners' = [partners EXCEPT ![OrderOf(k)] = IF @ = "pending" THEN "refunded" ELSE @]
    /\ Answer(k)
    /\ UNCHANGED <<outside, repeats, faults, sale, user, affiliate, tally, cron, history>>

-----------------------------------------------------------------------------
(* order.cancelled *)

NotePending(k) ==
    /\ job[k].at = "notePending"
    /\ tx' = [tx EXCEPT ![OrderOf(k)] = "pending"]
    /\ Goto(k, "readLead")
    /\ UNCHANGED <<outside, delivery, renewal, user, money, tally, cron, history>>

\* Neither an active member nor a lead already contacted is put in the queue.
ReadLead(k) ==
    LET b == BuyerFor(k)
    IN  /\ job[k].at = "readLead"
        /\ IF account[b] = "active" \/ stage[b] = "checkout_failed_sent"
             THEN Answer(k)
             ELSE /\ job' = [job EXCEPT ![k].at = "markLead", ![k].buyer = account[b]]
                  /\ UNCHANGED answered
        /\ UNCHANGED <<outside, repeats, faults, sale, user, money, tally, cron, history>>

\* The lead is queued, or created; creating one that appeared since fails and
\* is caught.
MarkLead(k) ==
    LET b == BuyerFor(k)
        clash == job[k].buyer = "none" /\ account[b] # "none"
    IN  /\ job[k].at = "markLead"
        /\ IF clash
             THEN UNCHANGED user
             ELSE /\ account' = [account EXCEPT ![b] = IF @ = "none" THEN "lead" ELSE @]
                  /\ stage' = [stage EXCEPT ![b] = "checkout_pending"]
        /\ Answer(k)
        /\ UNCHANGED <<outside, repeats, faults, sale, money, tally, cron, history>>

-----------------------------------------------------------------------------
(* Remarketing of abandoned checkouts: a batch is selected, and contacted    *)
(* minutes later one by one.                                               *)

SelectLead(b) ==
    /\ account[b] \notin {"none", "active"}
    /\ stage[b] = "checkout_pending"
    /\ contacting' = contacting \cup {b}
    /\ UNCHANGED <<outside, delivery, sale, user, money, tally, job, reconcile, alerted, history>>

ContactLead(b) ==
    /\ b \in contacting
    /\ contacting' = contacting \ {b}
    /\ stage' = [stage EXCEPT ![b] = "checkout_failed_sent"]
    /\ UNCHANGED <<outside, delivery, sale, account, money, tally, job, reconcile, alerted, history>>

-----------------------------------------------------------------------------
(* Reconciliation with the gateway *)

ReconcileGoto(point) == reconcile' = [reconcile EXCEPT !.at = point]

\* An order still pending here, or approved there and unknown here.
ReconcilePick(o) ==
    /\ Reconciling
    /\ reconcile.at = "idle"
    /\ Overlapping \/ ~InHand(o)
    /\ \/ tx[o] = "pending" /\ reconcile' = [at |-> "ask", order |-> o]
       \/ /\ tx[o] = "none" /\ gateway[o] = "approved"
          /\ reconcile' = [at |-> "register", order |-> o]
    /\ UNCHANGED <<outside, delivery, sale, user, money, tally, job, contacting, alerted, history>>

\* An order still open there, and a question without an answer, are left.
ReconcileAsk ==
    LET status == gateway[reconcile.order]
    IN  /\ reconcile.at = "ask"
        /\ \/ ReconcileGoto(IF status \in {"dead", "approved"} THEN status ELSE "idle")
           \/ ~GatewayReachable /\ ReconcileGoto("idle")
        /\ UNCHANGED <<outside, delivery, sale, user, money, tally, job, contacting, alerted, history>>

ReconcileSettle ==
    /\ reconcile.at = "dead"
    /\ tx' = [tx EXCEPT ![reconcile.order] = "cancelled"]
    /\ ReconcileGoto("idle")
    /\ UNCHANGED <<outside, delivery, renewal, user, money, tally, job, contacting, alerted, history>>

ReconcileApprove ==
    /\ reconcile.at = "approved"
    /\ tx' = [tx EXCEPT ![reconcile.order] = "approved"]
    /\ ReconcileGoto("reactivate")
    /\ UNCHANGED <<outside, delivery, renewal, user, money, tally, job, contacting, alerted, history>>

\* A known buyer is let in.
ReconcileReactivate ==
    LET b == BuyerOf[reconcile.order]
    IN  /\ reconcile.at = "reactivate"
        /\ account' = [account EXCEPT ![b] = IF @ = "none" THEN @ ELSE "active"]
        /\ granted' = IF account[b] \in {"lead", "canceled"}
                        THEN granted \cup {reconcile.order} ELSE granted
        /\ ReconcileGoto("alert")
        /\ UNCHANGED <<outside, delivery, sale, stage, money, tally, job, contacting, alerted,
                       recovered, interrupted, unconfirmed>>

\* A row that appeared since is left alone.
ReconcileRegister ==
    /\ reconcile.at = "register"
    /\ tx' = [tx EXCEPT ![reconcile.order] = IF @ = "none" THEN "approved" ELSE @]
    /\ ReconcileGoto("alert")
    /\ UNCHANGED <<outside, delivery, renewal, user, money, tally, job, contacting, alerted, history>>

\* Mutant: nobody is alerted of a buyer without an account.
AlertIfKnown(o) == IF account[BuyerOf[o]] = "none" THEN {} ELSE {o}

Alert(o) == {o}

\* A person is alerted in any case.
ReconcileAlert ==
    /\ reconcile.at = "alert"
    /\ alerted' = alerted \cup Alert(reconcile.order)
    /\ ReconcileGoto("idle")
    /\ UNCHANGED <<outside, delivery, sale, user, money, tally, job, contacting, history>>

\* The process dies or a query throws: the rest of the batch is not looked at.
ReconcileDies ==
    /\ reconcile.at # "idle"
    /\ faults < MaxFaults
    /\ faults' = faults + 1
    /\ interrupted' = IF reconcile.at \in {"reactivate", "alert"}
                        THEN interrupted \cup {reconcile.order} ELSE interrupted
    /\ ReconcileGoto("idle")
    /\ UNCHANGED <<outside, answered, repeats, sale, user, money, tally, job, contacting, alerted,
                   granted, recovered, unconfirmed>>

-----------------------------------------------------------------------------
ApprovedStep(k) ==
    \/ ReadBuyer(k) \/ GrantAccess(k) \/ ProbeTransaction(k) \/ RecordSale(k)
    \/ CountCoupon(k) \/ DisableCoupon(k)
    \/ ReadAffiliate(k) \/ CreateAffiliateCommission(k) \/ CreditPartners(k)

RefundedStep(k) ==
    \/ CancelAccount(k) \/ CountLeaver(k) \/ MarkRefunded(k)
    \/ ReverseAffiliate(k) \/ ReversePartners(k)

CancelledStep(k) == NotePending(k) \/ ReadLead(k) \/ MarkLead(k)

HandlerStep(k) ==
    Verify(k) \/ SkipVerify(k) \/ Lookup(k) \/ ApprovedStep(k) \/ RefundedStep(k) \/ CancelledStep(k)

ReconcileStep ==
    \/ ReconcileAsk \/ ReconcileSettle \/ ReconcileApprove
    \/ ReconcileReactivate \/ ReconcileRegister \/ ReconcileAlert

GatewayStep(o) == StartCheckout(o) \/ Expire(o) \/ Pay(o) \/ Refund(o) \/ Abandon(o)

Next ==
    \/ \E o \in Orders : GatewayStep(o) \/ ReconcilePick(o)
    \/ \E k \in Workers : HandlerStep(k) \/ Crash(k) \/ SwallowError(k)
    \/ \E k \in Workers, e \in Orders \X Events : Deliver(k, e)
    \/ \E b \in Buyers : SelectLead(b) \/ ContactLead(b)
    \/ ReconcileStep \/ ReconcileDies

\* The gateway retries what was not answered, and what has started goes on.
Fairness ==
    /\ \A e \in Orders \X Events :
          WF_vars(e \notin answered /\ \E k \in Workers : Deliver(k, e))
    /\ \A k \in Workers : WF_vars(HandlerStep(k))
    /\ WF_vars(ReconcileStep)

Spec == Init /\ [][Next]_vars
FairSpec == Spec /\ Fairness

-----------------------------------------------------------------------------
(* Properties *)

\* The state is what the tables, the gateway and the requests can hold.
TypeOK ==
    /\ gateway \in [Orders -> {"none", "pending", "approved", "refunded", "dead"}]
    /\ emitted \subseteq Orders \X Events /\ answered \subseteq emitted
    /\ repeats \in 0..MaxRepeats /\ faults \in 0..MaxFaults
    /\ tx \in [Orders -> TxStatus]
    /\ renewal \in [Orders -> BOOLEAN]
    /\ account \in [Buyers -> AccountStatus]
    /\ stage \in [Buyers -> Stage]
    /\ left \in [Orders -> Nat] /\ counted \in [Orders -> Nat]
    /\ coupon \in BOOLEAN
    /\ affiliate \in [Orders -> [pending : Nat, refunded : Nat]]
    /\ partners \in [Orders -> {"none", "pending", "refunded"}]
    /\ job \in [Workers -> Job]
    /\ contacting \subseteq Buyers
    /\ reconcile \in [at : {"idle", "ask", "dead", "approved", "reactivate", "register", "alert"},
                      order : Orders]
    /\ UNION {alerted, granted, recovered, interrupted, unconfirmed} \subseteq Orders

\* As long as an order is in one hand at a time (~Overlapping), it never goes back
\* from paid to an open or dead checkout, and from refunded to paid only if an
\* approval of it was accepted without the gateway's word, whatever events come late,
\* repeated or out of order, whatever fails, and whatever the reconciliation does
\* ("nunca rebaixa um pedido ja aprovado ou reembolsado").
NeverDowngraded ==
    [][\A o \in Orders :
          /\ tx[o] = "approved" => tx'[o] \in {"approved", "refunded"}
          /\ tx[o] = "refunded" => tx'[o] = "refunded" \/ o \in unconfirmed]_vars

\* "Nunca rebaixa um pedido ja aprovado ou reembolsado", as the handler of an
\* abandoned checkout says of itself.
NeverReopened ==
    [][\A o \in Orders : tx[o] \in {"approved", "refunded"} => tx'[o] # "pending"]_vars

\* A sale recorded as a renewal is one: another order of the buyer was paid
\* before. A retry of the same order must not make it look renewed (isRenewal).
RenewalHasEarlierSale ==
    \A o \in Orders : renewal[o] =>
        \E p \in Orders \ {o} : /\ BuyerOf[p] = BuyerOf[o]
                                /\ gateway[p] \in {"approved", "refunded"}

\* A sale is shared once: never among the partners as well as to an affiliate
\* or a coproducer (the exclusions of the revenue share). An approval that was
\* accepted unconfirmed after a refund may be credited again.
ExclusiveSplit ==
    \A o \in Orders \ unconfirmed :
        /\ partners[o] # "none" => affiliate[o].pending + affiliate[o].refunded = 0
        /\ partners[o] # "none" => o \notin Coproduced
        /\ affiliate[o].pending + affiliate[o].refunded <= 1

\* "A re-delivery should not double-count the use" of a coupon.
CouponCountedOnce == \A o \in Orders : counted[o] <= 1

\* A sale on the books as approved gave its buyer access, or a person was
\* alerted of it: no order of steps lets a paid order be recorded, and every
\* retry be skipped, with the buyer outside. The only hole is a reconciliation
\* that dies between its first write and its alert.
RecordedSaleHasAccess ==
    \A o \in Orders : tx[o] = "approved" =>
        \/ o \in granted \cup alerted \cup interrupted
        \/ reconcile.order = o /\ reconcile.at \in {"reactivate", "alert"}

\* Who pays gets in: access is granted, a person is alerted, or the payment is
\* given back, in spite of crashes, retries and overtaking events (again but
\* for a reconciliation that dies half way).
PaidGetsAccess ==
    \A o \in Orders :
        gateway[o] = "approved" ~>
            (o \in granted \cup alerted \cup interrupted \/ gateway[o] = "refunded")

\* "Sales recovered via remarketing belong to the system per the program
\* rules": no commission for the order of a lead that remarketing won back.
RecoveredSaleNotCommissioned ==
    \A o \in recovered : affiliate[o].pending + affiliate[o].refunded = 0

\* A refund takes one member off currentUsers, "assim uma re-entrega do
\* webhook nao decrementa currentUsers duas vezes".
RefundCountedOnce == \A o \in Orders : left[o] <= 1

\* The net of a paid sale is shared with the partners unless it belongs to a
\* coproducer or an affiliate: an approval handled to its answer left one of
\* the three entitled.
AnsweredSaleIsShared ==
    \A o \in granted :
        <<o, "approved">> \in answered =>
            \/ o \in Coproduced \/ partners[o] # "none"
            \/ affiliate[o].pending + affiliate[o].refunded > 0
=============================================================================
