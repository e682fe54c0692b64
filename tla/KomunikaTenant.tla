--------------------------- MODULE KomunikaTenant ---------------------------
(***************************************************************************)
(* The tenant of one member at Komunika (komunika.service.ts): opened when *)
(* an order is approved, extended at renewals, closed when access lapses.  *)
(* The program remembers in two columns what it believes of the tenant.    *)
(* Events start a call and do not wait for it; a call is repeated with     *)
(* growing pauses, and its effect may come without its answer.             *)
(***************************************************************************)
EXTENDS Integers

CONSTANTS Calls,             \* calls that can be under way
          None,
          MaxRetries,        \* length of RETRY_DELAYS_MS
          LastPeriod,        \* bound: paid periods
          MaxEvents,         \* bound: events of the subscription
          Overlapping,       \* an event may come while a call is under way
          BareRenewals       \* Stripe may renew a member without an active tenant

VARIABLES
    member,     \* the account: does it pay, and until which period
    columns,    \* komunikaCompanyId is set, komunikaDeprovisionedAt is set
    remote,     \* the tenant at Komunika
    call,       \* calls under way
    events,     \* events so far
    last,       \* the last event, its call, and whether that succeeded (history)
    torn        \* calls that took effect and are not in the columns (history)

vars == <<member, columns, remote, call, events, last, torn>>

NewCall(op, at, status, done) ==
    [op |-> op, at |-> at, tries |-> 0, status |-> status, end |-> 0, done |-> done]

NoCall == NewCall("none", "idle", "active", FALSE)

Init ==
    /\ member = [pays |-> FALSE, end |-> 0]
    /\ columns = [company |-> FALSE, deprovisioned |-> FALSE]
    /\ remote = [state |-> "none", end |-> 0]
    /\ call = [c \in Calls |-> NoCall]
    /\ events = 0
    /\ last = [event |-> "none", by |-> None, ok |-> TRUE]
    /\ torn = {}

Idle(c) == call[c].at = "idle"
ActiveTenant == columns.company /\ ~columns.deprovisioned

-----------------------------------------------------------------------------
(* Events of the subscription *)

MayHappen(c) ==
    /\ Idle(c)
    /\ Overlapping \/ \A k \in Calls : Idle(k)
    /\ events < MaxEvents
    /\ events' = events + 1

Start(c, op, status) ==
    call' = [call EXCEPT ![c] = NewCall(op, IF op = "sync" THEN "look" ELSE "read",
                                        status, FALSE)]

Happened(event, c) == last' = [event |-> event, by |-> c, ok |-> FALSE]

\* An order is approved, a checkout completes, a class is enrolled.
Approve(c) ==
    /\ MayHappen(c)
    /\ member.end < LastPeriod
    /\ member' = [pays |-> TRUE, end |-> member.end + 1]
    /\ Start(c, "sync", "active")
    /\ Happened("paid", c)
    /\ UNCHANGED <<columns, remote, torn>>

\* An invoice of Stripe is paid: only the subscription of the tenant is updated.
StripeRenew(c) ==
    /\ MayHappen(c)
    /\ member.end \in 1..(LastPeriod - 1)
    /\ BareRenewals \/ ActiveTenant
    /\ member' = [pays |-> TRUE, end |-> member.end + 1]
    /\ Start(c, "update", "active")
    /\ Happened("paid", c)
    /\ UNCHANGED <<columns, remote, torn>>

\* An invoice of Stripe fails: the tenant is suspended, the account is not.
PaymentFails(c) ==
    /\ MayHappen(c)
    /\ member.end > 0
    /\ Start(c, "update", "past_due")
    /\ Happened("unpaid", c)
    /\ UNCHANGED <<member, columns, remote, torn>>

\* Refunded, deleted at Stripe, or blocked by the nightly check.
Lapse(c) ==
    /\ MayHappen(c)
    /\ member.end > 0
    /\ member' = [member EXCEPT !.pays = FALSE]
    /\ Start(c, "deprovision", "active")
    /\ Happened("lapsed", c)
    /\ UNCHANGED <<columns, remote, torn>>

\* An administrator deactivates the account: the columns are read first.
Deactivate(c) ==
    /\ MayHappen(c)
    /\ call' = [call EXCEPT ![c] = NewCall("deprovision", "admin", "active", ~ActiveTenant)]
    /\ Happened("lapsed", c)
    /\ UNCHANGED <<member, columns, remote, torn>>

\* The account is written; no call is made for a tenant that was not active.
DeactivateWrite(c) ==
    /\ call[c].at = "admin"
    /\ member' = [member EXCEPT !.pays = FALSE]
    /\ call' = [call EXCEPT ![c] = IF @.done THEN NoCall ELSE [@ EXCEPT !.at = "read"]]
    /\ last' = IF last.by = c THEN [last EXCEPT !.ok = call[c].done] ELSE last
    /\ UNCHANGED <<columns, remote, events, torn>>

\* The member cancels in the app, which calls nobody at Komunika.
CancelInApp(c) ==
    /\ MayHappen(c)
    /\ member.pays
    /\ member' = [member EXCEPT !.pays = FALSE]
    /\ last' = [event |-> "cancelled", by |-> None, ok |-> TRUE]
    /\ UNCHANGED <<columns, remote, call, torn>>

-----------------------------------------------------------------------------
(* A call *)

End(c, ok) ==
    /\ call' = [call EXCEPT ![c] = NoCall]
    /\ last' = IF last.by = c THEN [last EXCEPT !.ok = ok] ELSE last

Continue(c, next) ==
    /\ call' = [call EXCEPT ![c] = next]
    /\ UNCHANGED last

\* Mutant: a tenant that was closed is only extended.
LookForCompany(c) ==
    /\ call[c].at = "look"
    /\ Continue(c, [call[c] EXCEPT !.op = IF columns.company THEN "update" ELSE "provision",
                                   !.at = "read"])
    /\ UNCHANGED <<member, columns, remote, events, torn>>

\* syncKomunikaOnApprovedOrder: renewal of an active tenant, or provision.
Look(c) ==
    /\ call[c].at = "look"
    /\ Continue(c, [call[c] EXCEPT !.op = IF ActiveTenant THEN "update" ELSE "provision",
                                   !.at = "read"])
    /\ UNCHANGED <<member, columns, remote, events, torn>>

NothingToDo(op) ==
    CASE op = "provision" -> ActiveTenant
      [] op = "update" -> ~columns.company
      [] op = "deprovision" -> ~ActiveTenant

\* The account is read: the idempotence checks, and the period to tell.
Read(c) ==
    /\ call[c].at = "read"
    /\ IF NothingToDo(call[c].op) THEN End(c, TRUE)
       ELSE Continue(c, [call[c] EXCEPT !.at = "send", !.end = member.end])
    /\ UNCHANGED <<member, columns, remote, events, torn>>

\* What Komunika does: it reopens a tenant, extends or suspends one, or blocks it.
Effect(k) ==
    CASE k.op = "provision" -> [state |-> "open", end |-> k.end]
      [] k.op = "update" ->
            [state |-> IF remote.state = "blocked" THEN "blocked"
                       ELSE IF k.status = "active" THEN "open" ELSE "suspended",
             end |-> k.end]
      [] k.op = "deprovision" -> [remote EXCEPT !.state = "blocked"]

\* The answer arrives. An update has nothing more to write.
Answered(c) ==
    /\ call[c].at = "send"
    /\ remote' = Effect(call[c])
    /\ IF call[c].op = "update" THEN End(c, TRUE)
       ELSE Continue(c, [call[c] EXCEPT !.at = "write", !.done = TRUE])
    /\ UNCHANGED <<member, columns, events, torn>>

Tears(k) == IF k.done /\ k.op # "update" THEN {k.op} ELSE {}

\* Ended without its columns.
Fail(c, k) ==
    /\ End(c, FALSE)
    /\ torn' = torn \cup Tears(k)

\* A network error, a timeout, a 5xx or an unreadable body: with its effect or
\* without, the call is made again until the pauses are used up.
Unanswered(c) ==
    /\ call[c].at = "send"
    /\ \E happened \in BOOLEAN :
         LET k == [call[c] EXCEPT !.tries = @ + 1, !.done = @ \/ happened]
         IN  /\ remote' = IF happened THEN Effect(call[c]) ELSE remote
             /\ IF k.tries > MaxRetries THEN Fail(c, k)
                ELSE Continue(c, k) /\ UNCHANGED torn
    /\ UNCHANGED <<member, columns, events>>

\* A 4xx, or an opening that is answered without a company, with its effect or
\* without: final.
Refused(c) ==
    /\ call[c].at = "send"
    /\ \E happened \in {FALSE, call[c].op = "provision"} :
         /\ remote' = IF happened THEN Effect(call[c]) ELSE remote
         /\ Fail(c, [call[c] EXCEPT !.done = @ \/ happened])
    /\ UNCHANGED <<member, columns, events>>

\* The columns follow the answer.
Write(c) ==
    /\ call[c].at = "write"
    /\ columns' = IF call[c].op = "provision"
                  THEN [company |-> TRUE, deprovisioned |-> FALSE]
                  ELSE [columns EXCEPT !.deprovisioned = TRUE]
    /\ End(c, TRUE)
    /\ UNCHANGED <<member, remote, events, torn>>

\* The process dies in a pause of the call, or a query of it fails.
Die(c) ==
    /\ call[c].at \in {"look", "read", "send", "write"}
    /\ Fail(c, call[c])
    /\ UNCHANGED <<member, columns, remote, events>>

Next ==
    \E c \in Calls :
        \/ Approve(c) \/ StripeRenew(c) \/ PaymentFails(c) \/ Lapse(c)
        \/ Deactivate(c) \/ DeactivateWrite(c) \/ CancelInApp(c)
        \/ Look(c) \/ Read(c) \/ Answered(c) \/ Unanswered(c) \/ Refused(c)
        \/ Write(c) \/ Die(c)

Spec == Init /\ [][Next]_vars

-----------------------------------------------------------------------------
(* Properties *)

\* The columns, the tenant and the calls are what they can be.
TypeOK ==
    /\ member \in [pays : BOOLEAN, end : 0..LastPeriod]
    /\ columns \in [company : BOOLEAN, deprovisioned : BOOLEAN]
    /\ remote \in [state : {"none", "open", "suspended", "blocked"}, end : 0..LastPeriod]
    /\ \A c \in Calls : call[c].tries \in 0..MaxRetries /\ call[c].end \in 0..LastPeriod
    /\ torn \subseteq {"provision", "deprovision"}

AtRest == \A c \in Calls : Idle(c)

\* "Every paying member gets a tenant" (komunika.service.ts, lines 261-262): once
\* the call of a payment has succeeded, the tenant is open for the paid period and
\* the member can reach it, unless a closing was torn from its column before.
PayingHasTenant ==
    AtRest /\ member.pays /\ last.event = "paid" /\ last.ok /\ "deprovision" \notin torn
        => /\ remote = [state |-> "open", end |-> member.end]
           /\ ActiveTenant

\* Who stopped paying has no tenant ("deprovisions it when access lapses", line 14),
\* once that call has succeeded, unless an opening was torn from its column before.
LapsedHasNone ==
    AtRest /\ ~member.pays /\ last.event = "lapsed" /\ last.ok /\ "provision" \notin torn
        => remote.state \in {"none", "blocked"} /\ ~ActiveTenant

\* The tenant follows the account, through repeated, lost and torn calls.
TenantFollowsAccount == PayingHasTenant /\ LapsedHasNone

\* "deprovisions it when access lapses" (komunika.service.ts, line 14), of whoever
\* cancels in the app: the cancellation has been answered, and the tenant is closed.
CancelledHasNone ==
    AtRest /\ last.event = "cancelled" => remote.state # "open"
=============================================================================
