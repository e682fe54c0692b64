----------------------------- MODULE CourseSale -----------------------------
(***************************************************************************)
(* The right of one account to one course: sales and refunds told by the   *)
(* gateway on the course's own URL (courseWebhook.routes.ts) or on the     *)
(* main one (webhook.routes.ts, which routes them by product), enrolments  *)
(* for a month or for life (bulkEnroll.service.ts) and removals by an      *)
(* administrator. The rights of different accounts to different courses    *)
(* are different rows, which nothing ties together.                        *)
(***************************************************************************)
EXTENDS Integers

CONSTANTS Orders,          \* orders of this course by this buyer
          OwnUrl,          \* those told on the URL of the course
          Handlers,        \* requests that may be served at once
          Nothing,
          LastDay,         \* bound on the calendar
          MaxFaults,       \* bound: requests cut off by a crash
          Overlapping      \* an enrolment may be served during another grant

VARIABLES
    account,        \* the buyer has an account
    right,          \* CourseAccess: NoRight, the day it ends, or Forever
    tx,             \* Transaction.status of each order
    request,        \* what each handler is serving
    day,            \* the calendar
    faults,
    cut             \* orders whose right was taken away after its grant (history)

vars == <<account, right, tx, request, day, faults, cut>>

NoRight == 0
Gone == -1
Forever == LastDay + 2
Free == [kind |-> "none", at |-> "free", order |-> Nothing, until |-> NoRight, read |-> NoRight]

Init ==
    /\ account = FALSE
    /\ right = NoRight
    /\ tx = [o \in Orders |-> "none"]
    /\ request = [h \in Handlers |-> Free]
    /\ day = 1
    /\ faults = 0
    /\ cut = {}

Goto(h, point) == request' = [request EXCEPT ![h].at = point]
End(h) == request' = [request EXCEPT ![h] = Free]
\* The row is deleted; who has read it can no longer update it.
DeleteRight(others) ==
    /\ right' = NoRight
    /\ cut' = Orders
    /\ request' = [h \in Handlers |->
                     IF others[h].read = NoRight THEN others[h] ELSE [others[h] EXCEPT !.read = Gone]]

Granting(kinds) == \E h \in Handlers : request[h].kind \in kinds

Serve(h, kind, order, until, point) ==
    /\ request[h] = Free
    /\ request' = [request EXCEPT ![h] = [kind |-> kind, at |-> point, order |-> order,
                                          until |-> until, read |-> NoRight]]
    /\ UNCHANGED <<account, right, tx, day, faults, cut>>

\* hasFullAccess, of somebody who has no subscription. Whether the right has
\* ended is left to the routes that read it.
HasFullAccess == right # NoRight

-----------------------------------------------------------------------------
(* Requests *)

\* order.approved: the main URL skips an order that is approved already, the URL
\* of the course takes every delivery.
Approved(h, o) ==
    /\ Overlapping \/ ~Granting({"enrol"})
    /\ o \in OwnUrl \/ tx[o] # "approved"
    /\ Serve(h, "sale", o, Forever, "find")

\* order.refunded: the main URL needs the order's transaction, not refunded yet.
Refunded(h, o) ==
    /\ o \in OwnUrl \/ tx[o] = "approved"
    /\ Serve(h, "refund", o, NoRight, "mark")

\* An enrolment, for thirty days or for life.
Enrol(h) ==
    /\ Overlapping \/ ~Granting({"sale", "enrol"})
    /\ \E until \in {day + 1, Forever} : Serve(h, "enrol", Nothing, until, "find")

\* An administrator takes the right away.
Remove ==
    /\ DeleteRight(request)
    /\ UNCHANGED <<account, tx, day, faults>>

-----------------------------------------------------------------------------
(* Serving a sale or an enrolment *)

FindAccount(h) ==
    /\ request[h].at = "find"
    /\ Goto(h, IF account THEN "read" ELSE "create")
    /\ UNCHANGED <<account, right, tx, day, faults, cut>>

\* E-mail and phone are unique: who comes second fails, and the request with it.
CreateAccount(h) ==
    /\ request[h].at = "create"
    /\ account' = TRUE
    /\ IF account THEN End(h) ELSE Goto(h, "read")
    /\ UNCHANGED <<right, tx, day, faults, cut>>

AfterGrant(h) == IF request[h].kind = "sale" THEN Goto(h, "record") ELSE End(h)

\* Mutant: the rule forgets that "for life" is later than any date.
KeepsDatesOnly(old, new) == old # Forever /\ new # Forever /\ new <= old

\* A date never replaces a right for life, nor one that ends no earlier.
Keeps(old, new) == new # Forever /\ new <= old

\* grantCourseAccess reads the row ...
ReadRight(h) ==
    /\ request[h].at = "read"
    /\ IF right # NoRight /\ Keeps(right, request[h].until)
       THEN AfterGrant(h)
       ELSE request' = [request EXCEPT ![h].at = "write", ![h].read = right]
    /\ UNCHANGED <<account, right, tx, day, faults, cut>>

\* ... and creates it, or updates the one it read. The row of a buyer and a course
\* is unique, and the update of a row that is gone fails: either ends the request.
WriteRight(h) ==
    /\ request[h].at = "write"
    /\ IF request[h].read # Gone /\ (request[h].read = NoRight => right = NoRight)
       THEN /\ right' = request[h].until
            /\ AfterGrant(h)
            /\ cut' = cut \ {request[h].order}
       ELSE End(h) /\ UNCHANGED <<right, cut>>
    /\ UNCHANGED <<account, tx, day, faults>>

\* The sale enters the books, whatever they said of the order. If that fails the
\* request is answered as if it had not.
Record(h) ==
    /\ request[h].at = "record"
    /\ \/ tx' = [tx EXCEPT ![request[h].order] = "approved"]
       \/ UNCHANGED tx
    /\ End(h)
    /\ UNCHANGED <<account, right, day, faults, cut>>

-----------------------------------------------------------------------------
(* Serving a refund *)

\* The order's transaction, if any, is marked. The URL of the course ignores a
\* mark that fails.
MarkRefunded(h) ==
    /\ request[h].at = "mark"
    /\ \/ tx' = [tx EXCEPT ![request[h].order] = IF @ = "none" THEN @ ELSE "refunded"]
       \/ request[h].order \in OwnUrl /\ UNCHANGED tx
    /\ Goto(h, "revoke")
    /\ UNCHANGED <<account, right, day, faults, cut>>

\* Then the right goes, whoever gave it.
Revoke(h) ==
    /\ request[h].at = "revoke"
    /\ IF account
       THEN DeleteRight([request EXCEPT ![h] = Free])
       ELSE End(h) /\ UNCHANGED <<right, cut>>
    /\ UNCHANGED <<account, tx, day, faults>>

-----------------------------------------------------------------------------
(* Environment *)

Crash(h) ==
    /\ request[h] # Free
    /\ faults < MaxFaults
    /\ End(h)
    /\ faults' = faults + 1
    /\ UNCHANGED <<account, right, tx, day, cut>>

NextDay ==
    /\ day < LastDay
    /\ day' = day + 1
    /\ UNCHANGED <<account, right, tx, request, faults, cut>>

Next ==
    \/ \E h \in Handlers :
        \/ \E o \in Orders : Approved(h, o) \/ Refunded(h, o)
        \/ Enrol(h)
        \/ FindAccount(h) \/ CreateAccount(h)
        \/ ReadRight(h) \/ WriteRight(h) \/ Record(h)
        \/ MarkRefunded(h) \/ Revoke(h)
        \/ Crash(h)
    \/ Remove
    \/ NextDay

Spec == Init /\ [][Next]_vars

-----------------------------------------------------------------------------
(* Properties *)

Request == [kind : {"none", "sale", "enrol", "refund"},
            at : {"free", "find", "create", "read", "write", "record", "mark", "revoke"},
            order : Orders \cup {Nothing}, until : NoRight..Forever, read : Gone..Forever]

\* The state is what the tables and the handlers can hold.
TypeOK ==
    /\ account \in BOOLEAN
    /\ right \in NoRight..Forever
    /\ tx \in [Orders -> {"none", "approved", "refunded"}]
    /\ request \in [Handlers -> Request]
    /\ day \in 1..LastDay
    /\ faults \in 0..MaxFaults
    /\ cut \subseteq Orders

\* Who is in the books as a buyer of the course has it for life, unless a refund
\* of the course or an administrator took the right away after the sale gave it:
\* through crashes, repeated deliveries and two requests at once.
BuyerHasCourse ==
    \A o \in Orders : tx[o] = "approved" /\ o \notin cut => HasFullAccess /\ right = Forever

=============================================================================
