----------------------------- MODULE Membership -----------------------------
(***************************************************************************)
(* The subscription of a member who pays by card: the Stripe webhook       *)
(* (webhook.routes.ts), the nightly check (jobs/cron.ts), the in-app        *)
(* cancellation (auth.routes.ts) and a trial granted in the panel           *)
(* (admin.routes.ts). A handler's step is one awaited query and the code    *)
(* up to the next. The handlers answer 200 whatever happens.               *)
(* currentUsers, which nothing reads back, and messages are left out.      *)
(***************************************************************************)
EXTENDS Integers, Sequences

CONSTANTS Members,
          Handlers,          \* requests of Stripe handled at a time
          Carried,           \* which of the two objects name the payment intent of their charge
          Period,            \* days a payment buys
          MaxCharges,        \* bound: payments
          MaxFailures        \* bound: handlers and checks that throw

Recorder == {"session", "invoice"}

ASSUME MembershipAssumption ==
    Carried \subseteq Recorder /\ Period \in Nat /\ MaxCharges \in Nat /\ MaxFailures \in Nat

VARIABLES
    account,        \* User of each member
    row,            \* Transaction of each charge, by the handler that writes it
    handler,
    check,          \* the nightly check
    charges,        \* at Stripe: what was paid; a subscription is its first charge
    refunded, ended,
    failures,
    interrupted     \* charges whose handling threw (history)

stripe == <<charges, refunded, ended>>
faults == <<failures, interrupted>>
vars == <<account, row, handler, check, stripe, faults>>

GraceDays == 3
Longest == -(GraceDays + 1)       \* what is longer expired is no different

Charge == 1..MaxCharges
Status == {"none", "active", "grace_period", "overdue", "canceled"}
Account(status, on, days, manual) ==
    [status |-> status, isActive |-> on, left |-> days, sub |-> 0, manual |-> manual]

Point == {"idle", "findTx", "reconcile", "extend", "reactivate", "record", "findUser",
          "findInvoice", "findCharge", "renew", "recordInvoice", "findSub", "close",
          "findRow", "cancel", "mark"}
Idle == [at |-> "idle", charge |-> 0]
Off == [at |-> "off", todo |-> {}]

Init ==
    /\ account \in [Members -> {Account("none", FALSE, 0, FALSE),
                                Account("active", TRUE, Period, TRUE)}]
    /\ row = [via \in Recorder |-> [c \in Charge |-> "none"]]
    /\ handler = [h \in Handlers |-> Idle]
    /\ check = Off
    /\ charges = <<>>
    /\ refunded = {}
    /\ ended = {}
    /\ failures = 0
    /\ interrupted = {}

-----------------------------------------------------------------------------
(* At Stripe *)

Subscribe(m) ==
    /\ Len(charges) < MaxCharges
    /\ charges' = Append(charges, [member |-> m, sub |-> Len(charges) + 1])
    /\ UNCHANGED <<account, row, handler, check, refunded, ended, faults>>

RenewAtStripe(c) ==
    /\ Len(charges) < MaxCharges
    /\ c \in DOMAIN charges
    /\ charges[c].sub = c /\ c \notin ended
    /\ charges' = Append(charges, charges[c])
    /\ UNCHANGED <<account, row, handler, check, refunded, ended, faults>>

EndAtStripe(c) ==
    /\ c \in DOMAIN charges
    /\ charges[c].sub = c /\ c \notin ended
    /\ ended' = ended \cup {c}
    /\ UNCHANGED <<account, row, handler, check, charges, refunded, faults>>

RefundAtStripe(c) ==
    /\ c \in DOMAIN charges \ refunded
    /\ refunded' = refunded \cup {c}
    /\ UNCHANGED <<account, row, handler, check, charges, ended, faults>>

\* An event is delivered at any time after it happened, and again.
Deliver(h, point, c) ==
    /\ handler[h] = Idle
    /\ c \in DOMAIN charges
    /\ CASE point = "findTx" -> charges[c].sub = c
         [] point = "findUser" -> TRUE
         [] point = "findSub" -> c \in ended
         [] point = "findRow" -> c \in refunded
    /\ handler' = [handler EXCEPT ![h] = [at |-> point, charge |-> c]]
    /\ UNCHANGED <<account, row, check, stripe, faults>>

-----------------------------------------------------------------------------
(* The handlers *)

Goto(h, point) == handler' = [handler EXCEPT ![h].at = point]
Done(h) == handler' = [handler EXCEPT ![h] = Idle]
At(h, point) == handler[h].at = point

Buyer(h) == charges[handler[h].charge].member
Sub(h) == charges[handler[h].charge].sub
Linked(h) == {m \in Members : account[m].sub = Sub(h)}

Write(m, new) == account' = [account EXCEPT ![m] = new]

\* handleCheckoutCompleted, from its check for a repeat.
FindTransaction(h) ==
    /\ At(h, "findTx")
    /\ IF row["session"][handler[h].charge] # "none" THEN Done(h) ELSE Goto(h, "reconcile")
    /\ UNCHANGED <<account, row, check, stripe, faults>>

\* reconcileManualStripe links an account that was given access by hand.
Reconcile(h) ==
    /\ At(h, "reconcile")
    /\ IF account[Buyer(h)].manual
         THEN /\ account' = [account EXCEPT ![Buyer(h)].sub = Sub(h), ![Buyer(h)].manual = FALSE]
              /\ Goto(h, "extend")
         ELSE Goto(h, "reactivate") /\ UNCHANGED account
    /\ UNCHANGED <<row, check, stripe, faults>>

Extend(h) ==
    /\ At(h, "extend")
    /\ account' = [account EXCEPT ![Buyer(h)].status = "active", ![Buyer(h)].left = Period]
    /\ Goto(h, "record")
    /\ UNCHANGED <<row, check, stripe, faults>>

\* An existing account is reactivated, its isActive left as it is.
Reactivate(h) ==
    /\ At(h, "reactivate")
    /\ LET was == account[Buyer(h)]
       IN  Write(Buyer(h), [status |-> "active", left |-> Period, sub |-> Sub(h),
                            isActive |-> was.status = "none" \/ was.isActive,
                            manual |-> was.manual])
    /\ Goto(h, "record")
    /\ UNCHANGED <<row, check, stripe, faults>>

\* The order id is unique: a second insert throws, and is answered 200.
Record(h, point, via) ==
    /\ At(h, point)
    /\ row' = IF row[via][handler[h].charge] = "none"
                THEN [row EXCEPT ![via][handler[h].charge] = "approved"] ELSE row
    /\ Done(h)
    /\ UNCHANGED <<account, check, stripe, faults>>

\* handleInvoicePaid.
FindUser(h) ==
    /\ At(h, "findUser")
    /\ IF Linked(h) = {} THEN Done(h) ELSE Goto(h, "findInvoice")
    /\ UNCHANGED <<account, row, check, stripe, faults>>

FindInvoice(h) ==
    /\ At(h, "findInvoice")
    /\ IF row["invoice"][handler[h].charge] # "none" THEN Done(h) ELSE Goto(h, "findCharge")
    /\ UNCHANGED <<account, row, check, stripe, faults>>

\* Mutant: only the invoice itself is looked for.
ChargeNotLookedFor(h) ==
    /\ At(h, "findCharge")
    /\ Goto(h, "renew")
    /\ UNCHANGED <<account, row, check, stripe, faults>>

\* The first invoice is the charge of the checkout. It is known by the payment
\* intent: both the invoice and the session have to name it.
FindCharge(h) ==
    /\ At(h, "findCharge")
    /\ IF Recorder \subseteq Carried /\ row["session"][handler[h].charge] # "none"
         THEN Done(h) ELSE Goto(h, "renew")
    /\ UNCHANGED <<account, row, check, stripe, faults>>

Renew(h) ==
    /\ At(h, "renew")
    /\ account' = [account EXCEPT ![Buyer(h)].status = "active", ![Buyer(h)].left = Period]
    /\ Goto(h, "recordInvoice")
    /\ UNCHANGED <<row, check, stripe, faults>>

\* handleSubscriptionDeleted.
FindSubscriber(h) ==
    /\ At(h, "findSub")
    /\ IF Linked(h) = {} THEN Done(h) ELSE Goto(h, "close")
    /\ UNCHANGED <<account, row, check, stripe, faults>>

\* handleChargeRefunded asks for a transaction with the payment intent of the
\* charge, and not for its status.
FindRow(h) ==
    /\ At(h, "findRow")
    /\ IF \A via \in Carried : row[via][handler[h].charge] = "none"
         THEN Done(h) ELSE Goto(h, "cancel")
    /\ UNCHANGED <<account, row, check, stripe, faults>>

Canceled(m) == [account EXCEPT ![m].status = "canceled", ![m].isActive = FALSE]

Close(h) ==
    /\ \/ At(h, "close") /\ Done(h)
       \/ At(h, "cancel") /\ Goto(h, "mark")
    /\ account' = Canceled(Buyer(h))
    /\ UNCHANGED <<row, check, stripe, faults>>

MarkRefunded(h) ==
    /\ At(h, "mark")
    /\ \E via \in Carried :
          /\ row[via][handler[h].charge] # "none"
          /\ row' = [row EXCEPT ![via][handler[h].charge] = "refunded"]
    /\ Done(h)
    /\ UNCHANGED <<account, check, stripe, faults>>

HandlerThrows(h) ==
    /\ handler[h] # Idle
    /\ failures < MaxFailures
    /\ failures' = failures + 1
    /\ interrupted' = interrupted \cup {handler[h].charge}
    /\ Done(h)
    /\ UNCHANGED <<account, row, check, stripe>>

-----------------------------------------------------------------------------
(* Members and the panel *)

\* POST /cancel-subscription: to be signed in takes an active account.
CancelInApp(m) ==
    /\ account[m].isActive
    /\ account[m].status \notin {"none", "canceled"}
    /\ account' = Canceled(m)
    /\ UNCHANGED <<row, handler, check, stripe, faults>>

\* POST /users/grant-trial.
GrantTrial(m) ==
    /\ Write(m, [status |-> "active", isActive |-> TRUE, left |-> Period,
                 sub |-> account[m].sub, manual |-> account[m].manual])
    /\ UNCHANGED <<row, handler, check, stripe, faults>>

-----------------------------------------------------------------------------
(* The nightly check works through two lists it read before *)

Midnight ==
    /\ check = Off
    /\ account' = [m \in Members |->
                     [account[m] EXCEPT !.left = IF @ > Longest THEN @ - 1 ELSE @]]
    /\ check' = [at |-> "list", todo |-> {}]
    /\ UNCHANGED <<row, handler, stripe, faults>>

ListExpired ==
    /\ check.at = "list"
    /\ check' = [at |-> "expired",
                 todo |-> {<<m, account[m].left>> : m \in
                             {n \in Members : account[n].status = "active" /\ account[n].left < 0}}]
    /\ UNCHANGED <<account, row, handler, stripe, faults>>

Blocked(m) == [account EXCEPT ![m].status = "overdue", ![m].isActive = FALSE]

\* Three days of grace, from the end the list has.
CheckExpired ==
    /\ check.at = "expired"
    /\ \E entry \in check.todo :
          /\ account' = IF entry[2] >= -GraceDays
                          THEN [account EXCEPT ![entry[1]].status = "grace_period"]
                          ELSE Blocked(entry[1])
          /\ check' = [check EXCEPT !.todo = @ \ {entry}]
    /\ UNCHANGED <<row, handler, stripe, faults>>

\* Mutant: the second list only has who reaches the end of the grace this night.
ListGraceOfTheDay ==
    /\ check.at = "expired" /\ check.todo = {}
    /\ check' = [at |-> "grace",
                 todo |-> {<<m, account[m].left>> : m \in
                             {n \in Members : /\ account[n].status = "grace_period"
                                              /\ account[n].left = -GraceDays}}]
    /\ UNCHANGED <<account, row, handler, stripe, faults>>

ListGrace ==
    /\ check.at = "expired" /\ check.todo = {}
    /\ check' = [at |-> "grace",
                 todo |-> {<<m, account[m].left>> : m \in
                             {n \in Members : /\ account[n].status = "grace_period"
                                              /\ account[n].left < -GraceDays}}]
    /\ UNCHANGED <<account, row, handler, stripe, faults>>

CheckGrace ==
    /\ check.at = "grace"
    /\ IF check.todo = {}
         THEN check' = Off /\ UNCHANGED account
         ELSE \E entry \in check.todo : /\ account' = Blocked(entry[1])
                                        /\ check' = [check EXCEPT !.todo = @ \ {entry}]
    /\ UNCHANGED <<row, handler, stripe, faults>>

\* A query that throws ends the check of the night.
CheckFails ==
    /\ check # Off
    /\ failures < MaxFailures
    /\ failures' = failures + 1
    /\ check' = Off
    /\ UNCHANGED <<account, row, handler, stripe, interrupted>>

-----------------------------------------------------------------------------
CheckStep == ListExpired \/ CheckExpired \/ ListGrace \/ CheckGrace

HandlerStep(h) ==
    \/ FindTransaction(h) \/ Reconcile(h) \/ Extend(h) \/ Reactivate(h)
    \/ Record(h, "record", "session") \/ Record(h, "recordInvoice", "invoice")
    \/ FindUser(h) \/ FindInvoice(h) \/ FindCharge(h) \/ Renew(h)
    \/ FindSubscriber(h) \/ FindRow(h) \/ Close(h) \/ MarkRefunded(h)

Next ==
    \/ \E m \in Members : Subscribe(m) \/ CancelInApp(m) \/ GrantTrial(m)
    \/ \E c \in Charge : RenewAtStripe(c) \/ EndAtStripe(c) \/ RefundAtStripe(c)
    \/ \E h \in Handlers, c \in Charge, point \in {"findTx", "findUser", "findSub", "findRow"} :
          Deliver(h, point, c)
    \/ \E h \in Handlers : HandlerStep(h) \/ HandlerThrows(h)
    \/ Midnight \/ CheckStep \/ CheckFails

Fairness == WF_vars(Midnight) /\ WF_vars(CheckStep)

Spec == Init /\ [][Next]_vars /\ Fairness

-----------------------------------------------------------------------------
\* The state is what the tables, the events and the handlers can hold.
TypeOK ==
    /\ account \in [Members -> [status : Status, isActive : BOOLEAN, left : Longest..Period,
                                sub : 0..MaxCharges, manual : BOOLEAN]]
    /\ row \in [Recorder -> [Charge -> {"none", "approved", "refunded"}]]
    /\ handler \in [Handlers -> [at : Point, charge : 0..MaxCharges]]
    /\ check.at \in {"off", "list", "expired", "grace"}
    /\ check.todo \subseteq Members \X (Longest..Period)
    /\ Len(charges) <= MaxCharges
    /\ refunded \cup ended \subseteq DOMAIN charges
    /\ failures \in 0..MaxFailures
    /\ interrupted \subseteq Charge

\* Who is expired for longer than the grace is blocked some night, unless the
\* period is renewed: whichever pass of the check met the account first, and
\* though a night's check may die half way (cron.ts, the daily check).
Expired(m) == account[m].status \in {"active", "grace_period"} /\ account[m].left = Longest

ExpiredIsBlocked == \A m \in Members : Expired(m) ~> ~Expired(m)

\* A charge is recorded by one handler only, whichever of its two events comes
\* first and however often they come ("skip the very first invoice, same charge
\* as the checkout session"). It takes a session and an invoice that both name
\* the payment intent, and no two requests at once.
ChargeRecordedOnce ==
    \A c \in Charge \ interrupted : row["session"][c] = "none" \/ row["invoice"][c] = "none"

\* Reactivation "matches Lojou behaviour": whoever has a running subscription
\* can sign in (handleCheckoutCompleted, handleInvoicePaid).
PaidIsLetIn == \A m \in Members : account[m].status = "active" => account[m].isActive
=============================================================================
