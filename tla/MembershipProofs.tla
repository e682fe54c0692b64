-------------------------- MODULE MembershipProofs --------------------------
(***************************************************************************)
(* What holds of the card payments of any number of members and charges:   *)
(* with one request of Stripe handled at a time, and events that name the  *)
(* payment intent, a charge whose handling did not throw is one row.       *)
(***************************************************************************)
EXTENDS Membership, TLAPS

USE DEF stripe, faults, Recorder

Paid == [member : Members, sub : Charge]
Accounts == [status : Status, isActive : BOOLEAN, left : Longest..Period, sub : 0..MaxCharges,
             manual : BOOLEAN]
Checks == [at : {"off", "list", "expired", "grace"}, todo : SUBSET (Members \X (Longest..Period))]

\* A handler works on a charge that was made, or has none.
ChargeInHand ==
    \A h \in Handlers : handler[h] # Idle => /\ handler[h].at # "idle"
                                            /\ handler[h].charge \in DOMAIN charges

TypeInv ==
    /\ TypeOK
    /\ charges \in Seq(Paid)
    /\ check \in Checks
    /\ ChargeInHand

-----------------------------------------------------------------------------
(* Types *)

\* A charge stays what it was.
LEMMA ChargesGrow ==
  ASSUME charges \in Seq(Paid), NEW e \in Paid, charges' = Append(charges, e),
         Len(charges) < MaxCharges
  PROVE  /\ charges' \in Seq(Paid)
         /\ Len(charges') <= MaxCharges
         /\ DOMAIN charges \subseteq DOMAIN charges'
         /\ \A c \in DOMAIN charges : charges'[c] = charges[c]
BY MembershipAssumption DEF Paid

\* A charge that was made has a number and a member.
LEMMA ChargeKnown ==
  ASSUME TypeInv, NEW c \in DOMAIN charges
  PROVE  c \in Charge /\ charges[c].member \in Members /\ charges[c].sub \in Charge
<1>1. charges \in Seq(Paid) /\ Len(charges) <= MaxCharges
  BY DEF TypeInv, TypeOK
<1>2. charges[c] \in Paid /\ c \in 1..Len(charges)
  BY <1>1
<1>3. Len(charges) \in Nat
  BY <1>1
<1> QED
  BY <1>1, <1>2, <1>3, MembershipAssumption DEF Paid, Charge

\* The types hold at first.
LEMMA TypeInvInit == Init => TypeInv
<1> SUFFICES ASSUME Init PROVE TypeInv
  OBVIOUS
<1>1. account \in [Members -> Accounts]
  <2>1. 0 \in Longest..Period /\ Period \in Longest..Period /\ 0 \in 0..MaxCharges
    BY MembershipAssumption DEF Longest, GraceDays
  <2>2. Account("none", FALSE, 0, FALSE) \in Accounts
    BY <2>1 DEF Account, Accounts, Status
  <2>3. Account("active", TRUE, Period, TRUE) \in Accounts
    BY <2>1 DEF Account, Accounts, Status
  <2> QED
    BY <2>2, <2>3 DEF Init
<1>2. /\ row \in [Recorder -> [Charge -> {"none", "approved", "refunded"}]]
      /\ handler \in [Handlers -> [at : Point, charge : 0..MaxCharges]]
      /\ check \in Checks
      /\ ChargeInHand
  BY MembershipAssumption DEF Init, Idle, Off, Point, Checks, ChargeInHand
<1>3. /\ charges \in Seq(Paid) /\ Len(charges) <= MaxCharges
      /\ refunded \cup ended \subseteq DOMAIN charges
      /\ failures \in 0..MaxFailures /\ interrupted \subseteq Charge
  BY MembershipAssumption DEF Init
<1> QED
  BY <1>1, <1>2, <1>3 DEF TypeInv, TypeOK, Accounts, Checks

\* What happens at Stripe keeps the types.
LEMMA StripeKeepsType ==
  ASSUME TypeInv,
         \/ \E m \in Members : Subscribe(m)
         \/ \E c \in Charge : RenewAtStripe(c) \/ EndAtStripe(c) \/ RefundAtStripe(c)
  PROVE  TypeInv'
<1> USE DEF TypeInv, TypeOK
<1>1. ASSUME NEW m \in Members, Subscribe(m) PROVE TypeInv'
  <2>1. [member |-> m, sub |-> Len(charges) + 1] \in Paid
    BY <1>1, MembershipAssumption DEF Subscribe, Paid, Charge
  <2>2. /\ charges' \in Seq(Paid)
        /\ Len(charges') <= MaxCharges
        /\ DOMAIN charges \subseteq DOMAIN charges'
    BY <1>1, <2>1, ChargesGrow DEF Subscribe
  <2> QED
    BY <1>1, <2>2 DEF Subscribe, ChargeInHand
<1>2. ASSUME NEW c \in Charge, RenewAtStripe(c) PROVE TypeInv'
  <2>1. charges[c] \in Paid
    BY <1>2 DEF RenewAtStripe
  <2>2. /\ charges' \in Seq(Paid)
        /\ Len(charges') <= MaxCharges
        /\ DOMAIN charges \subseteq DOMAIN charges'
    BY <1>2, <2>1, ChargesGrow DEF RenewAtStripe
  <2> QED
    BY <1>2, <2>2 DEF RenewAtStripe, ChargeInHand
<1>3. ASSUME NEW c \in Charge, EndAtStripe(c) \/ RefundAtStripe(c) PROVE TypeInv'
  BY <1>3 DEF EndAtStripe, RefundAtStripe, ChargeInHand
<1> QED
  BY <1>1, <1>2, <1>3

\* A handler that goes on, ends or takes an event keeps its charge.
LEMMA HandlerKeepsType ==
  ASSUME TypeInv, NEW h \in Handlers, NEW point \in Point \ {"idle"},
         handler[h] # Idle,
         Goto(h, point) \/ Done(h)
  PROVE  /\ handler' \in [Handlers -> [at : Point, charge : 0..MaxCharges]]
         /\ \A g \in Handlers : handler'[g] # Idle => /\ handler'[g].at # "idle"
                                                     /\ handler'[g].charge \in DOMAIN charges
<1>1. /\ handler \in [Handlers -> [at : Point, charge : 0..MaxCharges]]
      /\ ChargeInHand
  BY DEF TypeInv, TypeOK
<1>2. Idle \in [at : Point, charge : 0..MaxCharges]
  BY MembershipAssumption DEF Idle, Point
<1>3. CASE Goto(h, point)
  BY <1>1, <1>3 DEF Goto, ChargeInHand
<1>4. CASE Done(h)
  BY <1>1, <1>2, <1>4 DEF Done, ChargeInHand, Idle
<1> QED
  BY <1>3, <1>4

\* An account that is canceled or blocked is an account.
LEMMA ClosedIsAccount ==
  ASSUME account \in [Members -> Accounts], NEW m \in Members
  PROVE  Canceled(m) \in [Members -> Accounts] /\ Blocked(m) \in [Members -> Accounts]
<1>1. Canceled(m) \in [Members -> Accounts]
  BY DEF Canceled, Accounts, Status
<1>2. Blocked(m) \in [Members -> Accounts]
  BY DEF Blocked, Accounts, Status
<1> QED
  BY <1>1, <1>2

\* A step of a handler keeps the types.
LEMMA HandlerStepKeepsType ==
  ASSUME TypeInv, NEW h \in Handlers, HandlerStep(h)
  PROVE  TypeInv'
<1> USE DEF At
<1>1. handler[h] # Idle
  BY DEF Idle, HandlerStep, FindTransaction, Reconcile, Extend, Reactivate, Record, FindUser, FindInvoice,
         FindCharge, Renew, FindSubscriber, FindRow, Close, MarkRefunded
<1>2. /\ handler[h].charge \in DOMAIN charges
      /\ handler[h].charge \in Charge
      /\ Buyer(h) \in Members
      /\ Sub(h) \in 0..MaxCharges
  BY <1>1, ChargeKnown, MembershipAssumption DEF TypeInv, ChargeInHand, Buyer, Sub, Charge
<1>3. ASSUME \E point \in Point \ {"idle"} : Goto(h, point) \/ Done(h)
      PROVE  /\ handler' \in [Handlers -> [at : Point, charge : 0..MaxCharges]]
             /\ \A g \in Handlers : handler'[g] # Idle => /\ handler'[g].at # "idle"
                                                     /\ handler'[g].charge \in DOMAIN charges
  BY <1>1, <1>3, HandlerKeepsType
<1>4. /\ account \in [Members -> Accounts]
      /\ row \in [Recorder -> [Charge -> {"none", "approved", "refunded"}]]
      /\ Period \in Longest..Period
  BY MembershipAssumption DEF TypeInv, TypeOK, Accounts, Longest, GraceDays
<1>5. ASSUME \E point \in Point \ {"idle"} : Goto(h, point) \/ Done(h),
             account' \in [Members -> Accounts],
             row' \in [Recorder -> [Charge -> {"none", "approved", "refunded"}]],
             UNCHANGED <<check, stripe, faults>>
      PROVE  TypeInv'
  BY <1>3, <1>5 DEF TypeInv, TypeOK, ChargeInHand, Accounts
<1>6. CASE \/ FindTransaction(h) \/ FindUser(h) \/ FindInvoice(h) \/ FindCharge(h)
           \/ FindSubscriber(h) \/ FindRow(h)
  BY <1>4, <1>5, <1>6 DEF FindTransaction, FindUser, FindInvoice, FindCharge, FindSubscriber, FindRow,
                          Point
<1>7. CASE Reconcile(h)
  BY <1>2, <1>4, <1>5, <1>7 DEF Reconcile, Point, Accounts
<1>8. CASE Extend(h) \/ Renew(h)
  BY <1>2, <1>4, <1>5, <1>8 DEF Extend, Renew, Point, Accounts, Status
<1>9. CASE Reactivate(h)
  BY <1>2, <1>4, <1>5, <1>9 DEF Reactivate, Write, Point, Accounts, Status
<1>10. ASSUME NEW via \in {"session", "invoice"}, NEW point \in {"record", "recordInvoice"},
              Record(h, point, via)
       PROVE  TypeInv'
  BY <1>2, <1>4, <1>5, <1>10 DEF Record, Point
<1>11. CASE Close(h)
  BY <1>2, <1>4, <1>5, <1>11, ClosedIsAccount DEF Close, Point
<1>12. CASE MarkRefunded(h)
  BY <1>2, <1>4, <1>5, <1>12, MembershipAssumption DEF MarkRefunded, Point
<1> QED
  BY <1>6, <1>7, <1>8, <1>9, <1>10, <1>11, <1>12 DEF HandlerStep

\* A step of the check keeps the types.
LEMMA CheckStepKeepsType ==
  ASSUME TypeInv, CheckStep \/ CheckFails \/ Midnight
  PROVE  TypeInv'
<1>1. /\ account \in [Members -> Accounts] /\ check \in Checks
      /\ failures \in 0..MaxFailures
  BY DEF TypeInv, TypeOK, Accounts
<1>2. ASSUME account' \in [Members -> Accounts], check' \in Checks, failures' \in 0..MaxFailures,
             UNCHANGED <<row, handler, stripe, interrupted>>
      PROVE  TypeInv'
  BY <1>2 DEF TypeInv, TypeOK, ChargeInHand, Accounts, Checks
<1>3. CASE Midnight
  <2>1. \A m \in Members : [account[m] EXCEPT !.left = IF @ > Longest THEN @ - 1 ELSE @] \in Accounts
    BY <1>1, MembershipAssumption DEF Accounts, Longest, GraceDays
  <2> QED
    BY <1>1, <1>2, <1>3, <2>1 DEF Midnight, Checks
<1>4. CASE ListExpired
  BY <1>1, <1>2, <1>4 DEF ListExpired, Checks, Accounts
<1>5. CASE CheckExpired
  <2>1. PICK entry \in check.todo :
          /\ account' = IF entry[2] >= -GraceDays
                          THEN [account EXCEPT ![entry[1]].status = "grace_period"]
                          ELSE Blocked(entry[1])
          /\ check' = [check EXCEPT !.todo = @ \ {entry}]
    BY <1>5 DEF CheckExpired
  <2>2. entry[1] \in Members /\ check' \in Checks
    BY <1>1, <2>1 DEF Checks
  <2>3. [account EXCEPT ![entry[1]].status = "grace_period"] \in [Members -> Accounts]
    BY <1>1, <2>2 DEF Accounts, Status
  <2> QED
    BY <1>1, <1>2, <1>5, <2>1, <2>2, <2>3, ClosedIsAccount DEF CheckExpired
<1>6. CASE ListGrace
  BY <1>1, <1>2, <1>6 DEF ListGrace, Checks, Accounts
<1>7. CASE CheckGrace
  <2>1. CASE check.todo = {}
    BY <1>1, <1>2, <1>7, <2>1 DEF CheckGrace, Checks, Off
  <2>2. CASE check.todo # {}
    <3>1. PICK entry \in check.todo : /\ account' = Blocked(entry[1])
                                      /\ check' = [check EXCEPT !.todo = @ \ {entry}]
      BY <1>7, <2>2 DEF CheckGrace
    <3>2. entry[1] \in Members /\ check' \in Checks
      BY <1>1, <3>1 DEF Checks
    <3> QED
      BY <1>1, <1>2, <1>7, <3>1, <3>2, ClosedIsAccount DEF CheckGrace
  <2> QED
    BY <2>1, <2>2
<1>8. CASE CheckFails
  BY <1>1, <1>2, <1>8, MembershipAssumption DEF CheckFails, Checks, Off
<1> QED
  BY <1>3, <1>4, <1>5, <1>6, <1>7, <1>8 DEF CheckStep

\* Any step keeps the types.
LEMMA TypeInvNext == TypeInv /\ [Next]_vars => TypeInv'
<1> SUFFICES ASSUME TypeInv, [Next]_vars PROVE TypeInv'
  OBVIOUS
<1>1. ASSUME NEW m \in Members, CancelInApp(m) \/ GrantTrial(m) PROVE TypeInv'
  <2>1. account \in [Members -> Accounts] /\ Period \in Longest..Period
    BY MembershipAssumption DEF TypeInv, TypeOK, Accounts, Longest, GraceDays
  <2>2. account' \in [Members -> Accounts] /\ UNCHANGED <<row, handler, check, stripe, faults>>
    <3>1. CASE CancelInApp(m)
      BY <2>1, <3>1, ClosedIsAccount DEF CancelInApp
    <3>2. CASE GrantTrial(m)
      BY <2>1, <3>2 DEF GrantTrial, Write, Accounts, Status
    <3> QED
      BY <1>1, <3>1, <3>2
  <2> QED
    BY <2>2 DEF TypeInv, TypeOK, ChargeInHand, Accounts
<1>2. ASSUME NEW h \in Handlers, NEW c \in Charge,
             NEW point \in {"findTx", "findUser", "findSub", "findRow"}, Deliver(h, point, c)
      PROVE  TypeInv'
  <2>1. [at |-> point, charge |-> c] \in [at : Point, charge : 0..MaxCharges]
    BY MembershipAssumption DEF Point, Charge
  <2> QED
    BY <1>2, <2>1 DEF Deliver, TypeInv, TypeOK, ChargeInHand
<1>3. ASSUME NEW h \in Handlers, HandlerThrows(h) PROVE TypeInv'
  <2>1. handler[h].charge \in Charge
    BY <1>3, ChargeKnown DEF TypeInv, ChargeInHand, HandlerThrows
  <2>2. Idle \in [at : Point, charge : 0..MaxCharges]
    BY MembershipAssumption DEF Idle, Point
  <2>3. interrupted' \subseteq Charge /\ failures' \in 0..MaxFailures
    BY <1>3, <2>1, MembershipAssumption DEF HandlerThrows, TypeInv, TypeOK
  <2> QED
    BY <1>3, <2>2, <2>3 DEF HandlerThrows, Done, TypeInv, TypeOK, ChargeInHand
<1>4. CASE UNCHANGED vars
  BY <1>4 DEF vars, TypeInv, TypeOK, ChargeInHand
<1> QED
  BY <1>1, <1>2, <1>3, <1>4, StripeKeepsType, HandlerStepKeepsType, CheckStepKeepsType DEF Next

-----------------------------------------------------------------------------
(* One charge, one row *)

\* Two requests of Stripe are not handled at once.
OneHandler == \A g, h \in Handlers : g = h

\* The session and the invoice of a charge both name its payment intent.
IntentsCarried == Recorder \subseteq Carried

Recorded(via, c) == row[via][c] # "none"
Handled == Charge \ interrupted

\* The checkout's row is of a subscription's first charge, the invoice's of a
\* charge that was made and is none.
RowsKnowTheirCharge ==
    \A c \in Handled :
        /\ Recorded("session", c) => c \in DOMAIN charges /\ charges[c].sub = c
        /\ Recorded("invoice", c) => c \in DOMAIN charges /\ charges[c].sub # c

\* A checkout is handled for a subscription's first charge.
CheckoutIsFirst ==
    \A h \in Handlers : handler[h].at \in {"findTx", "reconcile", "extend", "reactivate", "record"} =>
        charges[handler[h].charge].sub = handler[h].charge

\* An account has a subscription whose checkout was recorded or is about to be.
LinkIsRecorded ==
    \A c \in Handled, m \in Members : account[m].sub = c =>
        \/ Recorded("session", c)
        \/ \E h \in Handlers : handler[h].at \in {"extend", "record"} /\ handler[h].charge = c

\* So that an invoice on its way to a row is no checkout's charge.
InvoiceLooksFirst ==
    \A h \in Handlers : handler[h].charge \in Handled =>
        /\ handler[h].at \in {"findInvoice", "findCharge"} =>
              (charges[handler[h].charge].sub = handler[h].charge
                 => Recorded("session", handler[h].charge))
        /\ handler[h].at \in {"renew", "recordInvoice"} =>
              charges[handler[h].charge].sub # handler[h].charge

ChargeInv ==
    /\ TypeInv /\ RowsKnowTheirCharge /\ CheckoutIsFirst /\ LinkIsRecorded /\ InvoiceLooksFirst

\* Which charge a row knows is what the property asks.
LEMMA ChargeInvSuffices == ChargeInv => ChargeRecordedOnce
BY DEF ChargeInv, RowsKnowTheirCharge, ChargeRecordedOnce, Recorded, Handled

\* No row and no link at first.
LEMMA ChargeInvInit == Init => ChargeInv
<1> SUFFICES ASSUME Init PROVE ChargeInv
  OBVIOUS
<1>1. \A m \in Members : account[m].sub = 0
  BY DEF Init, Account
<1>2. \A c \in Charge : c # 0
  BY MembershipAssumption DEF Charge
<1> QED
  BY <1>1, <1>2, TypeInvInit
     DEF Init, Idle, ChargeInv, RowsKnowTheirCharge, CheckoutIsFirst, LinkIsRecorded,
         InvoiceLooksFirst, Recorded, Handled

\* Steps that touch neither rows, links nor handlers, and only add charges.
LEMMA ElsewhereKeepsCharges ==
  ASSUME ChargeInv, TypeInv', UNCHANGED <<row, handler, interrupted>>,
         DOMAIN charges \subseteq DOMAIN charges',
         \A c \in DOMAIN charges : charges'[c] = charges[c],
         \A m \in Members : account'[m].sub = account[m].sub
  PROVE  ChargeInv'
<1>1. \A h \in Handlers : handler[h].at # "idle" => handler[h].charge \in DOMAIN charges
  BY DEF ChargeInv, TypeInv, ChargeInHand, Idle
<1>2. RowsKnowTheirCharge'
  BY DEF ChargeInv, RowsKnowTheirCharge, Recorded, Handled
<1>3. CheckoutIsFirst'
  BY <1>1 DEF ChargeInv, CheckoutIsFirst
<1>4. LinkIsRecorded'
  BY DEF ChargeInv, LinkIsRecorded, Recorded, Handled
<1>5. InvoiceLooksFirst'
  BY <1>1 DEF ChargeInv, InvoiceLooksFirst, Recorded, Handled
<1> QED
  BY <1>2, <1>3, <1>4, <1>5 DEF ChargeInv

\* What one handler does keeps which charge a row knows.
LEMMA HandlerStepKeepsCharges ==
  ASSUME ChargeInv, OneHandler, IntentsCarried, NEW h \in Handlers, HandlerStep(h)
  PROVE  ChargeInv'
<1> DEFINE k == handler[h].charge
<1> USE DEF At
<1>0. TypeInv'
  BY HandlerStepKeepsType DEF ChargeInv
<1>1. /\ handler[h] # Idle
      /\ UNCHANGED <<charges, interrupted>>
  BY DEF Idle, HandlerStep, FindTransaction, Reconcile, Extend, Reactivate, Record, FindUser,
         FindInvoice, FindCharge, Renew, FindSubscriber, FindRow, Close, MarkRefunded
<1>2. k \in DOMAIN charges /\ k \in Charge /\ Buyer(h) \in Members
  BY <1>1, ChargeKnown DEF ChargeInv, TypeInv, ChargeInHand, Buyer
<1>3. /\ handler \in [Handlers -> [at : Point, charge : 0..MaxCharges]]
      /\ account \in [Members -> Accounts]
      /\ row \in [Recorder -> [Charge -> {"none", "approved", "refunded"}]]
      /\ \A g \in Handlers : g = h
  BY DEF ChargeInv, TypeInv, TypeOK, Accounts, OneHandler
<1> HIDE DEF k
<1>4. SUFFICES RowsKnowTheirCharge' /\ CheckoutIsFirst' /\ LinkIsRecorded' /\ InvoiceLooksFirst'
  BY <1>0 DEF ChargeInv
<1>5. RowsKnowTheirCharge /\ CheckoutIsFirst /\ LinkIsRecorded /\ InvoiceLooksFirst
  BY DEF ChargeInv
<1> USE DEF k, RowsKnowTheirCharge, CheckoutIsFirst, LinkIsRecorded, InvoiceLooksFirst, Recorded,
            Handled, Goto, Done, Idle
<1>6. CASE FindTransaction(h)
  BY <1>1, <1>2, <1>3, <1>5, <1>6 DEF FindTransaction
<1>7. CASE Reconcile(h)
  BY <1>1, <1>2, <1>3, <1>5, <1>7 DEF Reconcile, Sub, Accounts
<1>8. CASE Extend(h)
  BY <1>1, <1>2, <1>3, <1>5, <1>8 DEF Extend, Accounts
<1>9. CASE Reactivate(h)
  BY <1>1, <1>2, <1>3, <1>5, <1>9 DEF Reactivate, Write, Sub, Accounts
<1>10. CASE Record(h, "record", "session")
  BY <1>1, <1>2, <1>3, <1>5, <1>10 DEF Record
<1>11. CASE Record(h, "recordInvoice", "invoice")
  BY <1>1, <1>2, <1>3, <1>5, <1>11 DEF Record
<1>12. CASE FindUser(h)
  BY <1>1, <1>2, <1>3, <1>5, <1>12 DEF FindUser, Linked, Sub
<1>13. CASE FindInvoice(h)
  BY <1>1, <1>2, <1>3, <1>5, <1>13 DEF FindInvoice
<1>14. CASE FindCharge(h)
  BY <1>1, <1>2, <1>3, <1>5, <1>14 DEF FindCharge, IntentsCarried
<1>15. CASE Renew(h)
  BY <1>1, <1>2, <1>3, <1>5, <1>15 DEF Renew, Accounts
<1>16. CASE FindSubscriber(h)
  BY <1>1, <1>2, <1>3, <1>5, <1>16 DEF FindSubscriber
<1>17. CASE FindRow(h)
  BY <1>1, <1>2, <1>3, <1>5, <1>17 DEF FindRow
<1>18. CASE Close(h)
  BY <1>1, <1>2, <1>3, <1>5, <1>18 DEF Close, Canceled, Accounts
<1>19. CASE MarkRefunded(h)
  BY <1>1, <1>2, <1>3, <1>5, <1>19, MembershipAssumption DEF MarkRefunded
<1> QED
  BY <1>6, <1>7, <1>8, <1>9, <1>10, <1>11, <1>12, <1>13, <1>14, <1>15, <1>16, <1>17, <1>18, <1>19
     DEF HandlerStep

\* The check, the member and the panel leave the subscription as it is.
LEMMA LinksStay ==
  ASSUME TypeInv, CheckStep \/ CheckFails \/ Midnight
                  \/ \E m \in Members : CancelInApp(m) \/ GrantTrial(m)
  PROVE  /\ \A m \in Members : account'[m].sub = account[m].sub
         /\ UNCHANGED <<row, handler, charges, interrupted>>
<1>1. account \in [Members -> Accounts] /\ check \in Checks
  BY DEF TypeInv, TypeOK, Accounts
<1> USE DEF Accounts
<1>2. CASE Midnight
  BY <1>1, <1>2 DEF Midnight
<1>3. CASE ListExpired \/ ListGrace \/ CheckFails
  BY <1>1, <1>3 DEF ListExpired, ListGrace, CheckFails
<1>4. CASE CheckExpired
  BY <1>1, <1>4 DEF CheckExpired, Checks, Blocked
<1>5. CASE CheckGrace
  <2>1. CASE check.todo = {}
    BY <1>5, <2>1 DEF CheckGrace
  <2>2. CASE check.todo # {}
    <3>1. PICK entry \in check.todo : account' = Blocked(entry[1])
      BY <1>5, <2>2 DEF CheckGrace
    <3> QED
      BY <1>1, <1>5, <3>1 DEF CheckGrace, Checks, Blocked
  <2> QED
    BY <2>1, <2>2
<1>6. ASSUME NEW m \in Members, CancelInApp(m) \/ GrantTrial(m)
      PROVE  /\ \A n \in Members : account'[n].sub = account[n].sub
             /\ UNCHANGED <<row, handler, charges, interrupted>>
  <2>1. CASE CancelInApp(m)
    BY <1>1, <2>1 DEF CancelInApp, Canceled
  <2>2. CASE GrantTrial(m)
    BY <1>1, <2>2 DEF GrantTrial, Write
  <2> QED
    BY <1>6, <2>1, <2>2
<1> QED
  BY <1>2, <1>3, <1>4, <1>5, <1>6 DEF CheckStep

\* Any step keeps which charge a row knows.
LEMMA ChargeInvNext ==
    ChargeInv /\ OneHandler /\ IntentsCarried /\ [Next]_vars => ChargeInv'
<1> SUFFICES ASSUME ChargeInv, OneHandler, IntentsCarried, [Next]_vars PROVE ChargeInv'
  OBVIOUS
<1>0. TypeInv /\ TypeInv'
  BY TypeInvNext DEF ChargeInv
<1>1. CASE \/ \E m \in Members : Subscribe(m)
           \/ \E c \in Charge : RenewAtStripe(c) \/ EndAtStripe(c) \/ RefundAtStripe(c)
  <2>1. \A e : /\ DOMAIN charges \subseteq DOMAIN Append(charges, e)
               /\ \A c \in DOMAIN charges : Append(charges, e)[c] = charges[c]
    BY <1>0 DEF TypeInv
  <2> QED
    BY <1>0, <1>1, <2>1, ElsewhereKeepsCharges
       DEF Subscribe, RenewAtStripe, EndAtStripe, RefundAtStripe
<1>2. CASE CheckStep \/ CheckFails \/ Midnight \/ \E m \in Members : CancelInApp(m) \/ GrantTrial(m)
  BY <1>0, <1>2, LinksStay, ElsewhereKeepsCharges
<1>3. ASSUME NEW h \in Handlers, NEW c \in Charge,
             NEW point \in {"findTx", "findUser", "findSub", "findRow"}, Deliver(h, point, c)
      PROVE  ChargeInv'
  <2>1. /\ handler[h] = Idle
        /\ handler' = [handler EXCEPT ![h] = [at |-> point, charge |-> c]]
        /\ UNCHANGED <<account, row, charges, interrupted>>
        /\ point = "findTx" => charges[c].sub = c
    BY <1>3 DEF Deliver
  <2>2. \A g \in Handlers : handler'[g] = [at |-> point, charge |-> c] /\ handler[g] = Idle
    BY <1>0, <2>1 DEF OneHandler, TypeInv, TypeOK
  <2>3. RowsKnowTheirCharge'
    BY <2>1 DEF ChargeInv, RowsKnowTheirCharge, Recorded, Handled
  <2>4. CheckoutIsFirst'
    BY <2>1, <2>2 DEF CheckoutIsFirst
  <2>5. LinkIsRecorded'
    BY <2>1, <2>2 DEF ChargeInv, LinkIsRecorded, Recorded, Handled, Idle
  <2>6. InvoiceLooksFirst'
    BY <2>2 DEF InvoiceLooksFirst
  <2> QED
    BY <1>0, <2>3, <2>4, <2>5, <2>6 DEF ChargeInv
<1>4. ASSUME NEW h \in Handlers, HandlerThrows(h) PROVE ChargeInv'
  BY <1>0, <1>4
     DEF HandlerThrows, Done, Idle, TypeInv, TypeOK, OneHandler, ChargeInv, RowsKnowTheirCharge,
         CheckoutIsFirst, LinkIsRecorded, InvoiceLooksFirst, Recorded, Handled
<1>5. CASE UNCHANGED vars
  BY <1>0, <1>5, ElsewhereKeepsCharges DEF vars
<1> QED
  BY <1>1, <1>2, <1>3, <1>4, <1>5, HandlerStepKeepsCharges DEF Next

-----------------------------------------------------------------------------
\* The state is what the tables, the events and the handlers can hold, for any
\* number of members, handlers and charges.
THEOREM MembershipTypes == Spec => []TypeOK
<1>1. TypeInv => TypeOK
  BY DEF TypeInv
<1> QED
  BY <1>1, TypeInvInit, TypeInvNext, PTL DEF Spec

\* With one request of Stripe at a time, and sessions and invoices that name the
\* payment intent, a charge is recorded by one of its two events, whichever
\* comes first and however often they come, unless its handling threw
\* (handleCheckoutCompleted, handleInvoicePaid: "same charge").
THEOREM MembershipChargeOnce ==
  ASSUME OneHandler, IntentsCarried
  PROVE  Spec => []ChargeRecordedOnce
<1>1. ChargeInv /\ [Next]_vars => ChargeInv'
  BY ChargeInvNext
<1> QED
  BY <1>1, ChargeInvInit, ChargeInvSuffices, PTL DEF Spec
=============================================================================
