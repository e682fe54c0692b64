------------------------- MODULE OrderWebhookProofs -------------------------
(***************************************************************************)
(* What holds of the orders of any number of buyers, with any number of    *)
(* faults and repeats: for any number of requests at once, and, where it   *)
(* takes that, for one request at a time.                                  *)
(***************************************************************************)
EXTENDS OrderWebhook, TLAPS

USE DEF outside, delivery, sale, user, money, tally, cron, history

Places == [at : {"idle", "ask", "dead", "approved", "reactivate", "register", "alert"},
           order : Orders]

\* A request is about an event that was sent.
EventInHand == \A k \in Workers : job[k].at # "idle" => job[k].event \in emitted

TypeInv == TypeOK /\ EventInHand

-----------------------------------------------------------------------------
(* Types *)

\* Requests that rest or begin are requests.
LEMMA JobTypes ==
  /\ NoJob \in Job /\ NoJob.at = "idle"
  /\ \A e \in Orders \X Events : Fresh(e) \in Job /\ Fresh(e).event = e
  /\ NoOrder \in Places
<1>1. \A e \in Orders \X Events : Fresh(e) \in Job /\ Fresh(e).event = e
  BY DEF Fresh, Job, Point, TxStatus, AccountStatus
<1>2. <<CHOOSE o \in Orders : TRUE, "approved">> \in Orders \X Events
  BY WebhookAssumption DEF Events
<1>3. NoJob \in Job /\ NoJob.at = "idle"
  BY <1>1, <1>2 DEF NoJob, Job, Point, Fresh
<1>4. NoOrder \in Places
  BY WebhookAssumption DEF NoOrder, Places
<1> QED
  BY <1>1, <1>3, <1>4

\* The types hold at first.
LEMMA TypeInvInit == Init => TypeInv
BY JobTypes, WebhookAssumption
   DEF Init, TypeInv, TypeOK, EventInHand, Places, TxStatus, AccountStatus, Stage

\* A request that is answered, goes on or ends keeps the types of the requests.
LEMMA JobKeepsType ==
  ASSUME TypeInv, NEW k \in Workers, NEW j \in Job, job' = [job EXCEPT ![k] = j],
         j.at # "idle" => j.event \in emitted
  PROVE  /\ job' \in [Workers -> Job]
         /\ \A w \in Workers : job'[w].at # "idle" => job'[w].event \in emitted
BY DEF TypeInv, TypeOK, EventInHand

\* What a request reads of itself.
LEMMA JobKnown ==
  ASSUME TypeInv, NEW k \in Workers
  PROVE  /\ job[k] \in Job /\ job[k].event \in Orders \X Events
         /\ OrderOf(k) \in Orders /\ EventOf(k) \in Events /\ BuyerFor(k) \in Buyers
         /\ job[k].at # "idle" => job[k].event \in emitted
BY WebhookAssumption DEF TypeInv, TypeOK, EventInHand, OrderOf, EventOf, BuyerFor, Job

JobsTyped(jobs) ==
    /\ jobs \in [Workers -> Job]
    /\ \A w \in Workers : jobs[w].at # "idle" => jobs[w].event \in emitted

\* The ways a request moves on.
LEMMA GotoTyped ==
  ASSUME TypeInv, NEW k \in Workers, NEW point \in Point, job[k].at # "idle", Goto(k, point)
  PROVE  JobsTyped(job')
<1>1. [job[k] EXCEPT !.at = point] \in Job
  BY JobKnown DEF Job
<1>2. [job[k] EXCEPT !.at = point].event \in emitted
  BY JobKnown DEF Job
<1> QED
  BY <1>1, <1>2, JobKeepsType DEF Goto, JobsTyped

LEMMA EndTyped ==
  ASSUME TypeInv, NEW k \in Workers, job' = [job EXCEPT ![k] = NoJob]
  PROVE  JobsTyped(job')
BY JobTypes, JobKeepsType DEF JobsTyped

LEMMA AnswerTyped ==
  ASSUME TypeInv, NEW k \in Workers, job[k].at # "idle", Answer(k)
  PROVE  JobsTyped(job') /\ answered' \subseteq emitted
<1>1. JobsTyped(job')
  BY EndTyped DEF Answer
<1>2. answered' \subseteq emitted
  BY JobKnown DEF Answer, TypeInv, TypeOK
<1> QED
  BY <1>1, <1>2

\* What the gateway does keeps the types.
LEMMA GatewayKeepsType ==
  ASSUME TypeInv, NEW o \in Orders, GatewayStep(o)
  PROVE  TypeInv'
<1> USE DEF TypeInv, TypeOK, EventInHand, Move, Events
<1>1. CASE StartCheckout(o)
  BY <1>1 DEF StartCheckout
<1>2. CASE Expire(o)
  BY <1>2 DEF Expire
<1>3. CASE Pay(o)
  BY <1>3 DEF Pay
<1>4. CASE Refund(o)
  BY <1>4 DEF Refund
<1>5. CASE Abandon(o)
  BY <1>5 DEF Abandon
<1> QED
  BY <1>1, <1>2, <1>3, <1>4, <1>5 DEF GatewayStep

\* An approval's steps keep the types.
LEMMA ApprovedKeepsType ==
  ASSUME TypeInv, NEW k \in Workers, ApprovedStep(k)
  PROVE  TypeInv'
<1>1. job[k].at # "idle"
  BY DEF ApprovedStep, ReadBuyer, GrantAccess, ProbeTransaction, RecordSale, CountCoupon, DisableCoupon,
         ReadAffiliate, CreateAffiliateCommission, CreditPartners
<1>2. /\ OrderOf(k) \in Orders /\ BuyerFor(k) \in Buyers
      /\ job[k] \in Job /\ job[k].event \in emitted
  BY <1>1, JobKnown
<1>3. TypeOK /\ job \in [Workers -> Job]
  BY DEF TypeInv, TypeOK
<1>5. ASSUME JobsTyped(job'), answered' \subseteq emitted,
             tx' \in [Orders -> TxStatus], renewal' \in [Orders -> BOOLEAN],
             account' \in [Buyers -> AccountStatus], stage' \in [Buyers -> Stage],
             counted' \in [Orders -> Nat], coupon' \in BOOLEAN,
             affiliate' \in [Orders -> [pending : Nat, refunded : Nat]],
             partners' \in [Orders -> {"none", "pending", "refunded"}],
             granted' \subseteq Orders, recovered' \subseteq Orders,
             UNCHANGED <<outside, repeats, faults, left, cron, interrupted, unconfirmed>>
      PROVE  TypeInv'
  BY <1>3, <1>5 DEF TypeInv, TypeOK, EventInHand, JobsTyped
<1> USE DEF TypeOK
<1>6. CASE ReadBuyer(k)
  <2>1. /\ [job[k] EXCEPT !.at = "grant", !.buyer = account[BuyerFor(k)],
                          !.renewal = Renews(BuyerFor(k))] \in Job
    BY <1>2, <1>3 DEF Job, Point, Renews
  <2>2. [job[k] EXCEPT !.at = "grant", !.buyer = account[BuyerFor(k)],
                       !.renewal = Renews(BuyerFor(k))].event = job[k].event
    BY <1>2 DEF Job
  <2>3. JobsTyped(job')
    BY <1>2, <1>6, <2>1, <2>2, JobKeepsType DEF ReadBuyer, JobsTyped
  <2> QED
    BY <1>3, <1>5, <1>6, <2>3 DEF ReadBuyer
<1>7. CASE GrantAccess(k)
  <2>1. JobsTyped(job')
    BY <1>1, <1>7, EndTyped, GotoTyped DEF GrantAccess, Point
  <2> QED
    BY <1>2, <1>3, <1>5, <1>7, <2>1 DEF GrantAccess, AccountStatus, Stage
<1>8. CASE ProbeTransaction(k)
  <2>1. /\ [job[k] EXCEPT !.at = "record", !.existed = tx[OrderOf(k)] # "none"] \in Job
        /\ [job[k] EXCEPT !.at = "record", !.existed = tx[OrderOf(k)] # "none"].event = job[k].event
    BY <1>2, <1>3 DEF Job, Point
  <2>2. JobsTyped(job')
    BY <1>2, <1>8, <2>1, JobKeepsType DEF ProbeTransaction, JobsTyped
  <2> QED
    BY <1>3, <1>5, <1>8, <2>2 DEF ProbeTransaction
<1>9. CASE RecordSale(k)
  <2>1. JobsTyped(job')
    BY <1>1, <1>9, GotoTyped DEF RecordSale, Point
  <2> QED
    BY <1>2, <1>3, <1>5, <1>9, <2>1 DEF RecordSale, TxStatus, Job
<1>10. CASE CountCoupon(k)
  <2>1. JobsTyped(job')
    BY <1>1, <1>10, GotoTyped DEF CountCoupon, Point
  <2> QED
    BY <1>2, <1>3, <1>5, <1>10, <2>1 DEF CountCoupon
<1>11. CASE DisableCoupon(k)
  <2>1. JobsTyped(job')
    BY <1>1, <1>11, GotoTyped DEF DisableCoupon, Point
  <2>2. coupon' \in BOOLEAN
    BY <1>11 DEF DisableCoupon
  <2> QED
    BY <1>3, <1>5, <1>11, <2>1, <2>2 DEF DisableCoupon
<1>12. CASE ReadAffiliate(k)
  <2>1. JobsTyped(job')
    BY <1>1, <1>12, GotoTyped DEF ReadAffiliate, Point
  <2> QED
    BY <1>3, <1>5, <1>12, <2>1 DEF ReadAffiliate
<1>13. CASE CreateAffiliateCommission(k)
  <2>1. /\ [job[k] EXCEPT !.at = "partners", !.credited = TRUE] \in Job
        /\ [job[k] EXCEPT !.at = "partners", !.credited = TRUE].event = job[k].event
    BY <1>2 DEF Job, Point
  <2>2. JobsTyped(job')
    BY <1>2, <1>13, <2>1, JobKeepsType DEF CreateAffiliateCommission, JobsTyped
  <2> QED
    BY <1>2, <1>3, <1>5, <1>13, <2>2 DEF CreateAffiliateCommission
<1>14. CASE CreditPartners(k)
  <2>1. JobsTyped(job') /\ answered' \subseteq emitted
    BY <1>1, <1>14, AnswerTyped DEF CreditPartners
  <2> QED
    BY <1>2, <1>3, <1>5, <1>14, <2>1 DEF CreditPartners
<1> QED
  BY <1>6, <1>7, <1>8, <1>9, <1>10, <1>11, <1>12, <1>13, <1>14 DEF ApprovedStep

\* A refund's steps keep the types.
LEMMA RefundedKeepsType ==
  ASSUME TypeInv, NEW k \in Workers, RefundedStep(k)
  PROVE  TypeInv'
<1>1. job[k].at # "idle"
  BY DEF RefundedStep, CancelAccount, CountLeaver, MarkRefunded, ReverseAffiliate, ReversePartners
<1>2. OrderOf(k) \in Orders /\ BuyerFor(k) \in Buyers
  BY JobKnown
<1>3. TypeOK
  BY DEF TypeInv
<1>4. ASSUME JobsTyped(job'), answered' \subseteq emitted,
             tx' \in [Orders -> TxStatus],
             account' \in [Buyers -> AccountStatus],
             left' \in [Orders -> Nat],
             affiliate' \in [Orders -> [pending : Nat, refunded : Nat]],
             partners' \in [Orders -> {"none", "pending", "refunded"}],
             UNCHANGED <<outside, repeats, faults, renewal, stage, counted, coupon, cron, history>>
      PROVE  TypeInv'
  BY <1>3, <1>4 DEF TypeInv, TypeOK, EventInHand, JobsTyped
<1> USE DEF TypeOK
<1>5. CASE CancelAccount(k)
  <2>1. JobsTyped(job')
    BY <1>1, <1>5, GotoTyped DEF CancelAccount, Point
  <2> QED
    BY <1>2, <1>3, <1>4, <1>5, <2>1 DEF CancelAccount, AccountStatus
<1>6. CASE CountLeaver(k)
  <2>1. JobsTyped(job')
    BY <1>1, <1>6, GotoTyped DEF CountLeaver, Point
  <2> QED
    BY <1>2, <1>3, <1>4, <1>6, <2>1 DEF CountLeaver
<1>7. CASE MarkRefunded(k)
  <2>1. JobsTyped(job')
    BY <1>1, <1>7, GotoTyped DEF MarkRefunded, Point
  <2> QED
    BY <1>2, <1>3, <1>4, <1>7, <2>1 DEF MarkRefunded, TxStatus
<1>8. CASE ReverseAffiliate(k)
  <2>1. JobsTyped(job')
    BY <1>1, <1>8, GotoTyped DEF ReverseAffiliate, Point
  <2> QED
    BY <1>2, <1>3, <1>4, <1>8, <2>1 DEF ReverseAffiliate
<1>9. CASE ReversePartners(k)
  <2>1. JobsTyped(job') /\ answered' \subseteq emitted
    BY <1>1, <1>9, AnswerTyped DEF ReversePartners
  <2> QED
    BY <1>2, <1>3, <1>4, <1>9, <2>1 DEF ReversePartners
<1> QED
  BY <1>5, <1>6, <1>7, <1>8, <1>9 DEF RefundedStep

\* What every event begins with, the abandoned checkout's steps, and failures
\* keep the types.
LEMMA RequestKeepsType ==
  ASSUME TypeInv, NEW k \in Workers,
         Verify(k) \/ SkipVerify(k) \/ Lookup(k) \/ CancelledStep(k) \/ Crash(k) \/ SwallowError(k)
  PROVE  TypeInv'
<1>1. job[k].at # "idle"
  BY DEF Verify, SkipVerify, Lookup, CancelledStep, NotePending, ReadLead, MarkLead, Crash, SwallowError
<1>2. /\ OrderOf(k) \in Orders /\ BuyerFor(k) \in Buyers /\ EventOf(k) \in Events
      /\ job[k] \in Job /\ job[k].event \in emitted
  BY <1>1, JobKnown
<1>3. TypeOK
  BY DEF TypeInv
<1>4. ASSUME JobsTyped(job'), answered' \subseteq emitted, faults' \in 0..MaxFaults,
             tx' \in [Orders -> TxStatus],
             account' \in [Buyers -> AccountStatus], stage' \in [Buyers -> Stage],
             unconfirmed' \subseteq Orders,
             UNCHANGED <<outside, repeats, renewal, money, tally, cron, granted, recovered, interrupted>>
      PROVE  TypeInv'
  BY <1>3, <1>4 DEF TypeInv, TypeOK, EventInHand, JobsTyped
<1> USE DEF TypeOK
<1>5. CASE Verify(k)
  <2>1. JobsTyped(job') /\ answered' \subseteq emitted
    BY <1>1, <1>3, <1>5, AnswerTyped, GotoTyped DEF Verify, Point
  <2> QED
    BY <1>3, <1>4, <1>5, <2>1 DEF Verify
<1>5a. CASE SkipVerify(k)
  <2>1. JobsTyped(job')
    BY <1>1, <1>5a, GotoTyped DEF SkipVerify, Point
  <2> QED
    BY <1>2, <1>3, <1>4, <1>5a, <2>1 DEF SkipVerify
<1>6. CASE Lookup(k)
  <2>1. CASE Duplicate(k)
    <3>1. JobsTyped(job') /\ answered' \subseteq emitted
      BY <1>1, <1>6, <2>1, AnswerTyped DEF Lookup
    <3> QED
      BY <1>3, <1>4, <1>6, <3>1 DEF Lookup
  <2>2. CASE ~Duplicate(k)
    <3>1. PICK first \in {"buyer", "cancelUser", "unpayAffiliate", "notePending", "readLead"} :
            job' = [job EXCEPT ![k].at = first, ![k].known = tx[OrderOf(k)]]
      <4>1. CASE EventOf(k) = "approved"
        BY <1>6, <2>2, <4>1 DEF Lookup
      <4>2. CASE EventOf(k) = "refunded"
        BY <1>6, <2>2, <4>2 DEF Lookup
      <4>3. CASE EventOf(k) = "cancelled"
        BY <1>6, <2>2, <4>3 DEF Lookup
      <4> QED
        BY <1>2, <4>1, <4>2, <4>3 DEF Events
    <3>2. /\ [job[k] EXCEPT !.at = first, !.known = tx[OrderOf(k)]] \in Job
          /\ [job[k] EXCEPT !.at = first, !.known = tx[OrderOf(k)]].event = job[k].event
      BY <1>2, <1>3 DEF Job, Point
    <3>3. job' = [job EXCEPT ![k] = [job[k] EXCEPT !.at = first, !.known = tx[OrderOf(k)]]]
      BY <3>1
    <3>4. JobsTyped(job')
      BY <1>2, <3>2, <3>3, JobKeepsType DEF JobsTyped
    <3> QED
      BY <1>3, <1>4, <1>6, <2>2, <3>4 DEF Lookup
  <2> QED
    BY <2>1, <2>2
<1>7. CASE NotePending(k)
  <2>1. JobsTyped(job')
    BY <1>1, <1>7, GotoTyped DEF NotePending, Point
  <2> QED
    BY <1>2, <1>3, <1>4, <1>7, <2>1 DEF NotePending, TxStatus
<1>8. CASE ReadLead(k)
  <2>1. /\ [job[k] EXCEPT !.at = "markLead", !.buyer = account[BuyerFor(k)]] \in Job
        /\ [job[k] EXCEPT !.at = "markLead", !.buyer = account[BuyerFor(k)]].event = job[k].event
    BY <1>2, <1>3 DEF Job, Point
  <2>2. JobsTyped(job') /\ answered' \subseteq emitted
    <3>1. CASE Answer(k)
      BY <1>1, <3>1, AnswerTyped
    <3>2. CASE /\ job' = [job EXCEPT ![k].at = "markLead", ![k].buyer = account[BuyerFor(k)]]
               /\ UNCHANGED answered
      <4>1. job' = [job EXCEPT ![k] = [job[k] EXCEPT !.at = "markLead",
                                                     !.buyer = account[BuyerFor(k)]]]
        BY <3>2
      <4>2. JobsTyped(job')
        BY <1>2, <2>1, <4>1, JobKeepsType DEF JobsTyped
      <4> QED
        BY <1>3, <1>8, <3>2, <4>2 DEF ReadLead
    <3> QED
      BY <1>8, <3>1, <3>2 DEF ReadLead
  <2> QED
    BY <1>3, <1>4, <1>8, <2>2 DEF ReadLead
<1>9. CASE MarkLead(k)
  <2>1. JobsTyped(job') /\ answered' \subseteq emitted
    BY <1>1, <1>9, AnswerTyped DEF MarkLead
  <2> QED
    BY <1>2, <1>3, <1>4, <1>9, <2>1 DEF MarkLead, AccountStatus, Stage
<1>10. CASE Crash(k)
  <2>1. JobsTyped(job')
    BY <1>10, EndTyped DEF Crash
  <2> QED
    BY <1>3, <1>4, <1>10, <2>1, WebhookAssumption DEF Crash
<1>11. CASE SwallowError(k)
  <2>1. JobsTyped(job') /\ answered' \subseteq emitted
    BY <1>1, <1>3, <1>11, AnswerTyped, GotoTyped DEF SwallowError, Point
  <2> QED
    BY <1>3, <1>4, <1>11, <2>1, WebhookAssumption DEF SwallowError
<1> QED
  BY <1>5, <1>5a, <1>6, <1>7, <1>8, <1>9, <1>10, <1>11 DEF CancelledStep

\* The cron jobs keep the types.
LEMMA CronKeepsType ==
  ASSUME TypeInv,
         \/ \E b \in Buyers : SelectLead(b) \/ ContactLead(b)
         \/ \E o \in Orders : ReconcilePick(o)
         \/ ReconcileStep \/ ReconcileDies
  PROVE  TypeInv'
<1>1. TypeOK /\ reconcile \in Places
  BY DEF TypeInv, TypeOK, Places
<1>2. reconcile.order \in Orders /\ BuyerOf[reconcile.order] \in Buyers
  BY <1>1, WebhookAssumption DEF Places
<1>3. ASSUME reconcile' \in Places, contacting' \subseteq Buyers,
             faults' \in 0..MaxFaults,
             tx' \in [Orders -> TxStatus],
             account' \in [Buyers -> AccountStatus], stage' \in [Buyers -> Stage],
             alerted' \subseteq Orders, granted' \subseteq Orders, interrupted' \subseteq Orders,
             UNCHANGED <<outside, answered, repeats, renewal, money, tally, job, recovered, unconfirmed>>
      PROVE  TypeInv'
  BY <1>1, <1>3 DEF TypeInv, TypeOK, EventInHand, Places
<1> USE DEF TypeOK, Places, ReconcileGoto
<1>4. ASSUME NEW b \in Buyers, SelectLead(b) \/ ContactLead(b) PROVE TypeInv'
  BY <1>1, <1>3, <1>4 DEF SelectLead, ContactLead, Stage
<1>5. ASSUME NEW o \in Orders, ReconcilePick(o) PROVE TypeInv'
  BY <1>1, <1>3, <1>5 DEF ReconcilePick
<1>6. CASE ReconcileAsk
  BY <1>1, <1>2, <1>3, <1>6 DEF ReconcileAsk
<1>7. CASE ReconcileSettle
  BY <1>1, <1>2, <1>3, <1>7 DEF ReconcileSettle, TxStatus
<1>8. CASE ReconcileApprove
  BY <1>1, <1>2, <1>3, <1>8 DEF ReconcileApprove, TxStatus
<1>9. CASE ReconcileReactivate
  BY <1>1, <1>2, <1>3, <1>9 DEF ReconcileReactivate, AccountStatus
<1>10. CASE ReconcileRegister
  BY <1>1, <1>2, <1>3, <1>10 DEF ReconcileRegister, TxStatus
<1>11. CASE ReconcileAlert
  BY <1>1, <1>2, <1>3, <1>11 DEF ReconcileAlert, Alert
<1>12. CASE ReconcileDies
  BY <1>1, <1>2, <1>3, <1>12, WebhookAssumption DEF ReconcileDies
<1> QED
  BY <1>4, <1>5, <1>6, <1>7, <1>8, <1>9, <1>10, <1>11, <1>12 DEF ReconcileStep

\* Any step keeps the types.
LEMMA TypeInvNext == TypeInv /\ [Next]_vars => TypeInv'
<1> SUFFICES ASSUME TypeInv, [Next]_vars PROVE TypeInv'
  OBVIOUS
<1>1. ASSUME NEW k \in Workers, NEW e \in Orders \X Events, Deliver(k, e) PROVE TypeInv'
  <2>1. JobsTyped(job') /\ repeats' \in 0..MaxRepeats
    <3>1. JobsTyped(job')
      BY <1>1, JobTypes, JobKeepsType DEF Deliver, JobsTyped
    <3>2. repeats' \in 0..MaxRepeats
      BY <1>1, WebhookAssumption DEF Deliver, TypeInv, TypeOK
    <3> QED
      BY <3>1, <3>2
  <2> QED
    BY <1>1, <2>1 DEF Deliver, TypeInv, TypeOK, EventInHand, JobsTyped
<1>2. CASE UNCHANGED vars
  BY <1>2 DEF vars, TypeInv, TypeOK, EventInHand
<1>3. ASSUME NEW k \in Workers, HandlerStep(k) PROVE TypeInv'
  BY <1>3, RequestKeepsType, ApprovedKeepsType, RefundedKeepsType DEF HandlerStep
<1> QED
  BY <1>1, <1>2, <1>3, GatewayKeepsType, RequestKeepsType, CronKeepsType DEF Next

\* The state is what the tables, the gateway and the requests can hold, for any
\* number of orders, requests, faults and repeats.
THEOREM WebhookTypes == Spec => []TypeOK
<1>1. TypeInv => TypeOK
  BY DEF TypeInv
<1> QED
  BY <1>1, TypeInvInit, TypeInvNext, PTL DEF Spec

-----------------------------------------------------------------------------
(* Who paid has access, for any number of requests at once *)

\* A sale is recorded once its buyer was let in.
GrantedBeforeRecorded ==
    \A k \in Workers : job[k].at \in {"probe", "record"} => job[k].event[1] \in granted

AccessInv == TypeInv /\ GrantedBeforeRecorded /\ RecordedSaleHasAccess

\* A step of a request: what it records was granted, and nothing is taken back.
LEMMA RequestKeepsAccess ==
  ASSUME AccessInv, TypeInv', NEW k \in Workers,
         \A w \in Workers \ {k} : job'[w] = job[w],
         job'[k].at \in {"probe", "record"} => job'[k].event[1] \in granted',
         granted \subseteq granted',
         \A o \in Orders : tx'[o] = "approved" => tx[o] = "approved" \/ o \in granted',
         UNCHANGED <<reconcile, alerted, interrupted>>
  PROVE  AccessInv'
<1>1. GrantedBeforeRecorded'
  BY DEF AccessInv, GrantedBeforeRecorded
<1>2. RecordedSaleHasAccess'
  BY DEF AccessInv, RecordedSaleHasAccess
<1> QED
  BY <1>1, <1>2 DEF AccessInv

\* A step that leaves the sales and the requests alone.
LEMMA ElsewhereKeepsAccess ==
  ASSUME AccessInv, TypeInv', UNCHANGED <<tx, job, granted, reconcile, alerted, interrupted>>
  PROVE  AccessInv'
BY DEF AccessInv, GrantedBeforeRecorded, RecordedSaleHasAccess

\* The steps of a request.
LEMMA HandlerKeepsAccess ==
  ASSUME AccessInv, TypeInv', NEW k \in Workers,
         HandlerStep(k) \/ Crash(k) \/ SwallowError(k)
  PROVE  AccessInv'
<1>1. /\ job \in [Workers -> Job] /\ tx \in [Orders -> TxStatus]
      /\ OrderOf(k) \in Orders /\ job[k].event[1] = OrderOf(k)
  BY JobKnown DEF AccessInv, TypeInv, TypeOK, OrderOf
<1>2. /\ UNCHANGED <<reconcile, alerted, interrupted>>
      /\ granted \subseteq granted'
  <2>1. CASE Verify(k) \/ SkipVerify(k) \/ Lookup(k) \/ Crash(k) \/ SwallowError(k)
    BY <2>1 DEF Verify, SkipVerify, Lookup, Crash, SwallowError
  <2>2. CASE ApprovedStep(k)
    BY <2>2 DEF ApprovedStep, ReadBuyer, GrantAccess, ProbeTransaction, RecordSale, CountCoupon,
                DisableCoupon, ReadAffiliate, CreateAffiliateCommission, CreditPartners
  <2>3. CASE RefundedStep(k) \/ CancelledStep(k)
    BY <2>3 DEF RefundedStep, CancelAccount, CountLeaver, MarkRefunded, ReverseAffiliate,
                ReversePartners, CancelledStep, NotePending, ReadLead, MarkLead
  <2> QED
    BY <2>1, <2>2, <2>3 DEF HandlerStep
<1>3. \A w \in Workers \ {k} : job'[w] = job[w]
  <2>1. CASE Verify(k) \/ SkipVerify(k) \/ Lookup(k) \/ Crash(k) \/ SwallowError(k)
    BY <1>1, <2>1 DEF Verify, SkipVerify, Lookup, Crash, SwallowError, Answer, Goto
  <2>2. CASE ApprovedStep(k)
    BY <1>1, <2>2 DEF ApprovedStep, ReadBuyer, GrantAccess, ProbeTransaction, RecordSale, CountCoupon,
                DisableCoupon, ReadAffiliate, CreateAffiliateCommission, CreditPartners, Answer, Goto
  <2>3. CASE RefundedStep(k) \/ CancelledStep(k)
    BY <1>1, <2>3 DEF RefundedStep, CancelAccount, CountLeaver, MarkRefunded, ReverseAffiliate,
                ReversePartners, CancelledStep, NotePending, ReadLead, MarkLead, Answer, Goto
  <2> QED
    BY <2>1, <2>2, <2>3 DEF HandlerStep
<1>4. /\ \A o \in Orders : tx'[o] = "approved" => tx[o] = "approved" \/ o \in granted'
      /\ job'[k].at \in {"probe", "record"} => job'[k].event[1] \in granted'
  <2>a. /\ \A point \in Point : Goto(k, point) => job'[k].at = point
        /\ Answer(k) => job'[k].at = "idle"
        /\ job' = [job EXCEPT ![k] = NoJob] => job'[k].at = "idle"
    BY <1>1, JobTypes DEF Goto, Answer, Job
  <2>1. CASE Verify(k) \/ SkipVerify(k) \/ Lookup(k) \/ Crash(k) \/ SwallowError(k)
    <3>1. CASE Verify(k) \/ SkipVerify(k) \/ Crash(k) \/ SwallowError(k)
      BY <2>a, <3>1 DEF Verify, SkipVerify, Crash, SwallowError, Point
    <3>2. CASE Lookup(k)
      <4>1. EventOf(k) \in Events
        BY JobKnown DEF AccessInv
      <4>2. UNCHANGED tx
        BY <3>2 DEF Lookup
      <4>3. CASE Duplicate(k)
        BY <2>a, <3>2, <4>2, <4>3 DEF Lookup
      <4>4. CASE ~Duplicate(k)
        <5>1. CASE EventOf(k) = "approved"
          BY <1>1, <3>2, <4>2, <4>4, <5>1 DEF Lookup, Job
        <5>2. CASE EventOf(k) = "refunded"
          BY <1>1, <3>2, <4>2, <4>4, <5>2 DEF Lookup, Job
        <5>3. CASE EventOf(k) = "cancelled"
          BY <1>1, <3>2, <4>2, <4>4, <5>3 DEF Lookup, Job
        <5> QED
          BY <4>1, <5>1, <5>2, <5>3 DEF Events
      <4> QED
        BY <4>3, <4>4
    <3> QED
      BY <2>1, <3>1, <3>2
  <2>2. CASE GrantAccess(k)
    BY <1>1, <2>2, <2>a DEF GrantAccess, Goto, Job
  <2>3. CASE ProbeTransaction(k)
    BY <1>1, <2>3 DEF ProbeTransaction, AccessInv, GrantedBeforeRecorded, Job
  <2>4. CASE RecordSale(k)
    <3>1. job'[k].at \notin {"probe", "record"}
      BY <2>a, <2>4 DEF RecordSale, Point
    <3>2. OrderOf(k) \in granted'
      BY <1>1, <1>2, <2>4 DEF RecordSale, AccessInv, GrantedBeforeRecorded
    <3> QED
      BY <1>1, <2>4, <3>1, <3>2 DEF RecordSale
  <2>5. CASE \/ ReadBuyer(k) \/ CountCoupon(k) \/ DisableCoupon(k) \/ ReadAffiliate(k)
             \/ CreateAffiliateCommission(k) \/ CreditPartners(k)
    <3>1. CASE CountCoupon(k) \/ DisableCoupon(k) \/ ReadAffiliate(k) \/ CreditPartners(k)
      BY <2>a, <3>1 DEF CountCoupon, DisableCoupon, ReadAffiliate, CreditPartners, Point
    <3>2. CASE ReadBuyer(k) \/ CreateAffiliateCommission(k)
      BY <1>1, <3>2 DEF ReadBuyer, CreateAffiliateCommission, Job
    <3> QED
      BY <2>5, <3>1, <3>2
  <2>6. CASE RefundedStep(k) \/ CancelledStep(k)
    <3>1. job'[k].at \notin {"probe", "record"}
      <4>1. CASE RefundedStep(k)
        BY <2>a, <4>1 DEF RefundedStep, CancelAccount, CountLeaver, MarkRefunded, ReverseAffiliate,
                          ReversePartners, Point
      <4>2. CASE NotePending(k) \/ MarkLead(k)
        BY <2>a, <4>2 DEF NotePending, MarkLead, Point
      <4>3. CASE ReadLead(k)
        BY <1>1, <2>a, <4>3 DEF ReadLead, Job
      <4> QED
        BY <2>6, <4>1, <4>2, <4>3 DEF CancelledStep
    <3>2. \A o \in Orders : tx'[o] = "approved" => tx[o] = "approved"
      BY <1>1, <2>6 DEF RefundedStep, CancelAccount, CountLeaver, MarkRefunded,
                 ReverseAffiliate, ReversePartners, CancelledStep, NotePending, ReadLead, MarkLead
    <3> QED
      BY <3>1, <3>2
  <2> QED
    BY <2>1, <2>2, <2>3, <2>4, <2>5, <2>6 DEF HandlerStep, ApprovedStep
<1> QED
  BY <1>2, <1>3, <1>4, RequestKeepsAccess

\* The steps of the reconciliation.
LEMMA ReconcileKeepsAccess ==
  ASSUME AccessInv, TypeInv', ReconcileStep \/ ReconcileDies \/ \E o \in Orders : ReconcilePick(o)
  PROVE  AccessInv'
<1>1. reconcile \in Places /\ tx \in [Orders -> TxStatus]
  BY DEF AccessInv, TypeInv, TypeOK, Places
<1>2. UNCHANGED job /\ granted \subseteq granted'
  BY DEF ReconcileStep, ReconcileDies, ReconcilePick, ReconcileAsk, ReconcileSettle, ReconcileApprove,
         ReconcileReactivate, ReconcileRegister, ReconcileAlert
<1>3. GrantedBeforeRecorded'
  BY <1>2 DEF AccessInv, GrantedBeforeRecorded
<1>4. RecordedSaleHasAccess
  BY DEF AccessInv
<1>5. RecordedSaleHasAccess'
  <2> USE DEF RecordedSaleHasAccess, ReconcileGoto, Places
  <2>1. ASSUME NEW o \in Orders, ReconcilePick(o) PROVE RecordedSaleHasAccess'
    BY <1>1, <1>4, <2>1 DEF ReconcilePick
  <2>2. CASE ReconcileAsk
    BY <1>1, <1>4, <2>2 DEF ReconcileAsk
  <2>3. CASE ReconcileSettle
    BY <1>1, <1>4, <2>3 DEF ReconcileSettle
  <2>4. CASE ReconcileApprove
    BY <1>1, <1>4, <2>4 DEF ReconcileApprove
  <2>5. CASE ReconcileReactivate
    BY <1>1, <1>4, <2>5 DEF ReconcileReactivate
  <2>6. CASE ReconcileRegister
    BY <1>1, <1>4, <2>6 DEF ReconcileRegister
  <2>7. CASE ReconcileAlert
    BY <1>1, <1>4, <2>7 DEF ReconcileAlert, Alert
  <2>8. CASE ReconcileDies
    BY <1>1, <1>4, <2>8 DEF ReconcileDies
  <2> QED
    BY <2>1, <2>2, <2>3, <2>4, <2>5, <2>6, <2>7, <2>8 DEF ReconcileStep
<1> QED
  BY <1>3, <1>5 DEF AccessInv

\* Any step keeps who paid inside.
LEMMA AccessInvNext == AccessInv /\ [Next]_vars => AccessInv'
<1> SUFFICES ASSUME AccessInv, [Next]_vars PROVE AccessInv'
  OBVIOUS
<1>1. TypeInv'
  BY TypeInvNext DEF AccessInv
<1>2. ASSUME NEW k \in Workers, NEW e \in Orders \X Events, Deliver(k, e) PROVE AccessInv'
  <2>1. job'[k].at = "verify" /\ \A w \in Workers \ {k} : job'[w] = job[w]
    BY <1>2 DEF Deliver, Fresh, AccessInv, TypeInv, TypeOK
  <2> QED
    BY <1>1, <1>2, <2>1, RequestKeepsAccess DEF Deliver
<1>3. ASSUME NEW o \in Orders, GatewayStep(o) PROVE AccessInv'
  BY <1>1, <1>3, ElsewhereKeepsAccess
     DEF GatewayStep, Move, StartCheckout, Expire, Pay, Refund, Abandon
<1>4. ASSUME NEW b \in Buyers, SelectLead(b) \/ ContactLead(b) PROVE AccessInv'
  BY <1>1, <1>4, ElsewhereKeepsAccess DEF SelectLead, ContactLead
<1>5. CASE UNCHANGED vars
  BY <1>1, <1>5, ElsewhereKeepsAccess DEF vars
<1> QED
  BY <1>1, <1>2, <1>3, <1>4, <1>5, HandlerKeepsAccess, ReconcileKeepsAccess DEF Next

\* A sale on the books gave its buyer access, or a person was alerted of it,
\* whatever requests, reconciliations and crashes do between any two queries
\* (handleLojouWebhook; lojouReconcile.ts).
THEOREM RecordedHasAccess == Spec => []RecordedSaleHasAccess
<1>1. Init => AccessInv
  BY TypeInvInit, JobTypes DEF Init, AccessInv, GrantedBeforeRecorded, RecordedSaleHasAccess
<1>2. AccessInv => RecordedSaleHasAccess
  BY DEF AccessInv
<1> QED
  BY <1>1, <1>2, AccessInvNext, PTL DEF Spec

-----------------------------------------------------------------------------
(* One request at a time, every approval verified, and no reconciliation: each *)
(* sale once *)

Alone ==
    /\ \A j, k \in Workers : j = k
    /\ GatewayReachable /\ ByToken = {}
    /\ ~Reconciling

Paid(o) == gateway[o] \in {"approved", "refunded"}
Settled(o) == tx[o] \in {"approved", "refunded"}
Rows(o) == affiliate[o].pending + affiliate[o].refunded
Unshared(o) == partners[o] = "none" /\ Rows(o) = 0
EarlierSale(o) == \E p \in Orders \ {o} : BuyerOf[p] = BuyerOf[o] /\ Paid(p)

\* What the books and the events say, the gateway did.
GatewayAgrees ==
    \A o \in Orders :
        /\ tx[o] = "approved" => Paid(o)
        /\ tx[o] = "refunded" => gateway[o] = "refunded"
        /\ <<o, "refunded">> \in emitted => gateway[o] = "refunded"

\* Only a sale on the books is shared, and its coupon counted.
SharedIsSettled ==
    \A o \in Orders : ~Unshared(o) \/ counted[o] # 0 => Settled(o)

BeforeSale == {"buyer", "grant", "probe", "record"}
AfterSale == {"coupon", "couponCap", "affiliateRead", "affiliateCreate", "partners"}
RefundPoints == {"cancelUser", "countLeaver", "markRefunded", "unpayAffiliate", "unpayPartners"}

\* What a request relies on at each place.
Relies(j) ==
    LET o == j.event[1]
    IN  /\ j.at \in BeforeSale => Paid(o) /\ ~Settled(o)
        /\ j.at = "lookup" /\ j.event[2] = "approved" => Paid(o) /\ tx[o] # "refunded"
        /\ j.at \in RefundPoints => j.event[2] = "refunded"
        /\ j.at \in AfterSale => tx[o] = "approved" /\ partners[o] = "none"
        /\ j.at \in AfterSale \ {"partners"} => Rows(o) = 0
        /\ j.at = "partners" /\ ~j.credited => Rows(o) = 0
        /\ j.at = "coupon" => counted[o] = 0
        /\ j.at = "notePending" => ~Settled(o)
        /\ j.at \in {"grant", "probe", "record"} /\ j.renewal => EarlierSale(o)

JobsRely == \A k \in Workers : Relies(job[k])

\* ExclusiveSplit, of every order.
SplitOnce ==
    \A o \in Orders :
        /\ partners[o] # "none" => affiliate[o].pending + affiliate[o].refunded = 0
        /\ partners[o] # "none" => o \notin Coproduced
        /\ affiliate[o].pending + affiliate[o].refunded <= 1

SaleInv ==
    /\ TypeInv /\ GatewayAgrees /\ SharedIsSettled /\ JobsRely /\ reconcile.at = "idle"
    /\ RenewalHasEarlierSale /\ SplitOnce /\ CouponCountedOnce

\* Steps that leave the gateway and the books alone.
LEMMA BooksUntouched ==
  ASSUME SaleInv, TypeInv', JobsRely',
         UNCHANGED <<gateway, emitted, tx, renewal, counted, affiliate, partners, reconcile>>
  PROVE  SaleInv'
BY DEF SaleInv, GatewayAgrees, SharedIsSettled, RenewalHasEarlierSale, SplitOnce,
       CouponCountedOnce, Paid, Settled, Rows, Unshared

\* Who goes on or ends, goes on with the same event.
LEMMA WhereItGoes ==
  ASSUME TypeInv, NEW k \in Workers
  PROVE  /\ \A point \in Point : Goto(k, point) => job'[k] = [job[k] EXCEPT !.at = point]
         /\ Answer(k) => job'[k].at = "idle"
         /\ job' = [job EXCEPT ![k] = NoJob] => job'[k].at = "idle"
BY JobTypes DEF TypeInv, TypeOK, Goto, Answer, Job

\* A request at rest relies on nothing.
LEMMA RestRelies ==
  ASSUME Alone, NEW k \in Workers, job'[k].at \in {"idle", "verify", "readLead", "markLead"}
  PROVE  JobsRely'
BY DEF Alone, JobsRely, Relies, BeforeSale, AfterSale, RefundPoints

\* The steps of an approval.
LEMMA ApprovedKeepsSale ==
  ASSUME SaleInv, Alone, TypeInv', NEW k \in Workers, ApprovedStep(k)
  PROVE  SaleInv'
<1> DEFINE o == OrderOf(k)
<1>1. /\ TypeInv /\ TypeOK
      /\ job[k] \in Job /\ o \in Orders /\ job[k].event[1] = o
      /\ BuyerFor(k) = BuyerOf[o]
      /\ \A w \in Workers : w = k
  BY JobKnown DEF SaleInv, TypeInv, Alone, OrderOf, BuyerFor
<1>2. /\ Relies(job[k])
      /\ GatewayAgrees /\ SharedIsSettled /\ JobsRely
      /\ RenewalHasEarlierSale /\ SplitOnce /\ CouponCountedOnce
  BY DEF SaleInv, JobsRely
<1> USE DEF BeforeSale, AfterSale, RefundPoints
<1>3. CASE ReadBuyer(k)
  <2>1. /\ job'[k] = [job[k] EXCEPT !.at = "grant", !.buyer = account[BuyerFor(k)],
                                    !.renewal = Renews(BuyerFor(k))]
        /\ UNCHANGED <<outside, delivery, sale, user, money, tally, cron, history>>
    BY <1>1, <1>3 DEF ReadBuyer, TypeOK
  <2>2. Paid(o) /\ ~Settled(o)
    BY <1>1, <1>2, <1>3 DEF Relies, ReadBuyer
  <2>3. Renews(BuyerFor(k)) => EarlierSale(o)
    BY <1>1, <1>2, <2>2 DEF Renews, EarlierSale, GatewayAgrees, Settled
  <2>4. Relies(job[k])'
    BY <1>1, <2>1, <2>2, <2>3 DEF Relies, Job, Paid, Settled, EarlierSale
  <2> QED
    BY <1>1, <2>1, <2>4, BooksUntouched DEF JobsRely
<1>4. CASE GrantAccess(k)
  <2>1. CASE Goto(k, "probe")
    <3>1. job'[k] = [job[k] EXCEPT !.at = "probe"]
      BY <1>1, <2>1, WhereItGoes DEF Point
    <3>2. Relies(job[k])'
      BY <1>1, <1>2, <1>4, <3>1 DEF GrantAccess, Relies, Job, Paid, Settled, EarlierSale
    <3> QED
      BY <1>1, <1>4, <3>2, BooksUntouched DEF JobsRely, GrantAccess
  <2>2. CASE job' = [job EXCEPT ![k] = NoJob]
    BY <1>1, <1>4, <2>2, WhereItGoes, RestRelies, BooksUntouched DEF GrantAccess
  <2> QED
    BY <1>4, <2>1, <2>2 DEF GrantAccess
<1>5. CASE ProbeTransaction(k)
  <2>1. /\ job'[k].at = "record" /\ job'[k].event = job[k].event
        /\ job'[k].renewal = job[k].renewal
    BY <1>1, <1>5 DEF ProbeTransaction, TypeOK, Job
  <2>2. Relies(job[k])'
    BY <1>1, <1>2, <1>5, <2>1 DEF ProbeTransaction, Relies, Job, Paid, Settled, EarlierSale
  <2> QED
    BY <1>1, <1>5, <2>2, BooksUntouched DEF JobsRely, ProbeTransaction
<1>6. CASE RecordSale(k)
  <2>1. PICK point \in {"coupon", "affiliateRead"} : job'[k] = [job[k] EXCEPT !.at = point]
    <3>1. \E point \in {"coupon", "affiliateRead"} : Goto(k, point)
      BY <1>6 DEF RecordSale
    <3> QED
      BY <1>1, <3>1, WhereItGoes DEF Point
  <2>2. /\ tx' = [tx EXCEPT ![o] = "approved"]
        /\ renewal' = [renewal EXCEPT ![o] = job[k].renewal]
        /\ UNCHANGED <<gateway, emitted, counted, affiliate, partners, reconcile>>
    BY <1>6 DEF RecordSale
  <2>3. /\ Paid(o) /\ ~Settled(o) /\ (job[k].renewal => EarlierSale(o))
        /\ Unshared(o) /\ counted[o] = 0
    BY <1>1, <1>2, <1>6 DEF RecordSale, Relies, SharedIsSettled
  <2>4. Relies(job[k])'
    BY <1>1, <2>1, <2>2, <2>3 DEF Relies, Job, Paid, Settled, Unshared, Rows, TypeOK
  <2>5. GatewayAgrees' /\ SharedIsSettled'
    BY <1>1, <1>2, <2>2, <2>3 DEF GatewayAgrees, SharedIsSettled, Paid, Settled, Unshared, Rows, TypeOK
  <2>6. RenewalHasEarlierSale'
    BY <1>1, <1>2, <2>2, <2>3 DEF RenewalHasEarlierSale, EarlierSale, Paid, TypeOK
  <2> QED
    BY <1>1, <1>2, <2>2, <2>4, <2>5, <2>6
       DEF SaleInv, JobsRely, SplitOnce, CouponCountedOnce
<1>7. CASE CountCoupon(k)
  <2>1. job'[k] = [job[k] EXCEPT !.at = IF coupon THEN "couponCap" ELSE "affiliateRead"]
    BY <1>1, <1>7, WhereItGoes DEF CountCoupon, Point
  <2>2. /\ counted' = IF coupon THEN [counted EXCEPT ![o] = @ + 1] ELSE counted
        /\ UNCHANGED <<gateway, emitted, tx, renewal, affiliate, partners, reconcile>>
    BY <1>7 DEF CountCoupon
  <2>3. tx[o] = "approved" /\ counted[o] = 0
    BY <1>1, <1>2, <1>7 DEF CountCoupon, Relies
  <2>4. Relies(job[k])'
    BY <1>1, <1>2, <1>7, <2>1, <2>2 DEF CountCoupon, Relies, Job, Rows
  <2>5. SharedIsSettled' /\ CouponCountedOnce'
    BY <1>1, <1>2, <2>2, <2>3
       DEF SharedIsSettled, CouponCountedOnce, Settled, Unshared, Rows, TypeOK
  <2> QED
    BY <1>1, <1>2, <2>2, <2>4, <2>5
       DEF SaleInv, JobsRely, GatewayAgrees, Paid, SplitOnce, RenewalHasEarlierSale
<1>8. CASE DisableCoupon(k)
  <2>1. job'[k] = [job[k] EXCEPT !.at = "affiliateRead"]
    BY <1>1, <1>8, WhereItGoes DEF DisableCoupon, Point
  <2>2. Relies(job[k])'
    BY <1>1, <1>2, <1>8, <2>1 DEF DisableCoupon, Relies, Job, Rows
  <2> QED
    BY <1>1, <1>8, <2>2, BooksUntouched DEF JobsRely, DisableCoupon
<1>9. CASE ReadAffiliate(k)
  <2>1. PICK point \in {"affiliateCreate", "partners"} : job'[k] = [job[k] EXCEPT !.at = point]
    BY <1>1, <1>9, WhereItGoes DEF ReadAffiliate, Point
  <2>2. Relies(job[k])'
    BY <1>1, <1>2, <1>9, <2>1 DEF ReadAffiliate, Relies, Job, Rows
  <2> QED
    BY <1>1, <1>9, <2>2, BooksUntouched DEF JobsRely, ReadAffiliate
<1>10. CASE CreateAffiliateCommission(k)
  <2>1. /\ job'[k] = [job[k] EXCEPT !.at = "partners", !.credited = TRUE]
        /\ affiliate' = [affiliate EXCEPT ![o].pending = @ + 1]
        /\ UNCHANGED <<gateway, emitted, tx, renewal, counted, partners, reconcile>>
    BY <1>1, <1>10 DEF CreateAffiliateCommission, TypeOK
  <2>2. tx[o] = "approved" /\ partners[o] = "none" /\ Rows(o) = 0
    BY <1>1, <1>2, <1>10 DEF CreateAffiliateCommission, Relies
  <2>3. Relies(job[k])'
    BY <1>1, <2>1, <2>2 DEF Relies, Job
  <2>4. \A p \in Orders \ {o} : affiliate'[p] = affiliate[p]
    BY <1>1, <2>1 DEF TypeOK
  <2>5. affiliate'[o].pending + affiliate'[o].refunded = 1
    BY <1>1, <2>1, <2>2 DEF Rows, TypeOK
  <2>6. SharedIsSettled' /\ SplitOnce'
    BY <1>1, <1>2, <2>1, <2>2, <2>4, <2>5
       DEF SharedIsSettled, SplitOnce, Settled, Unshared, Rows
  <2> QED
    BY <1>1, <1>2, <2>1, <2>3, <2>6
       DEF SaleInv, JobsRely, GatewayAgrees, Paid, CouponCountedOnce, RenewalHasEarlierSale
<1>11. CASE CreditPartners(k)
  <2>1. /\ job'[k].at = "idle"
        /\ partners' = IF Entitled(k) /\ partners[o] = "none"
                         THEN [partners EXCEPT ![o] = "pending"] ELSE partners
        /\ UNCHANGED <<gateway, emitted, tx, renewal, counted, affiliate, reconcile>>
    BY <1>1, <1>11, WhereItGoes DEF CreditPartners
  <2>2. /\ tx[o] = "approved"
        /\ Entitled(k) => Rows(o) = 0 /\ o \notin Coproduced
    BY <1>1, <1>2, <1>11 DEF CreditPartners, Relies, Entitled
  <2>3. SharedIsSettled' /\ SplitOnce'
    BY <1>1, <1>2, <2>1, <2>2
       DEF SharedIsSettled, SplitOnce, Settled, Unshared, Rows, TypeOK
  <2>4. JobsRely'
    BY <2>1, RestRelies
  <2> QED
    BY <1>1, <1>2, <2>1, <2>3, <2>4
       DEF SaleInv, GatewayAgrees, Paid, CouponCountedOnce, RenewalHasEarlierSale
<1> QED
  BY <1>3, <1>4, <1>5, <1>6, <1>7, <1>8, <1>9, <1>10, <1>11 DEF ApprovedStep

\* The steps of a refund.
LEMMA RefundedKeepsSale ==
  ASSUME SaleInv, Alone, TypeInv', NEW k \in Workers, RefundedStep(k)
  PROVE  SaleInv'
<1> DEFINE o == OrderOf(k)
<1>1. /\ TypeInv /\ TypeOK
      /\ job[k] \in Job /\ o \in Orders /\ job[k].event[1] = o
      /\ job[k].event \in Orders \X Events
      /\ \A w \in Workers : w = k
  BY JobKnown DEF SaleInv, TypeInv, Alone, OrderOf
<1>2. /\ Relies(job[k])
      /\ GatewayAgrees /\ SharedIsSettled /\ JobsRely
      /\ RenewalHasEarlierSale /\ SplitOnce /\ CouponCountedOnce
  BY DEF SaleInv, JobsRely
<1>3. job[k].at \in RefundPoints
  BY DEF RefundedStep, RefundPoints, CancelAccount, CountLeaver, MarkRefunded, ReverseAffiliate,
         ReversePartners
<1>4. job[k].event[2] = "refunded"
  BY <1>2, <1>3 DEF Relies
<1>5. gateway[o] = "refunded"
  <2>1. job[k].event = <<o, "refunded">> /\ job[k].event \in emitted
    BY <1>1, <1>3, <1>4 DEF TypeInv, EventInHand, RefundPoints
  <2> QED
    BY <1>1, <1>2, <2>1 DEF GatewayAgrees
<1>6. ASSUME \/ job'[k].at = "idle"
             \/ \E point \in RefundPoints : job'[k] = [job[k] EXCEPT !.at = point]
      PROVE  JobsRely'
  <2>1. CASE job'[k].at = "idle"
    BY <2>1, RestRelies
  <2>2. ASSUME NEW point \in RefundPoints, job'[k] = [job[k] EXCEPT !.at = point]
        PROVE  JobsRely'
    <3>1. job'[k].at = point /\ job'[k].event[2] = "refunded"
      BY <1>1, <1>4, <2>2 DEF Job
    <3>2. Relies(job[k])'
      BY <3>1 DEF Relies, BeforeSale, AfterSale, RefundPoints
    <3> QED
      BY <1>1, <3>2 DEF JobsRely
  <2> QED
    BY <1>6, <2>1, <2>2
<1>7. CASE CancelAccount(k) \/ CountLeaver(k)
  <2>1. \E point \in RefundPoints : job'[k] = [job[k] EXCEPT !.at = point]
    BY <1>1, <1>7, WhereItGoes DEF CancelAccount, CountLeaver, RefundPoints, Point
  <2> QED
    BY <1>6, <1>7, <2>1, BooksUntouched DEF CancelAccount, CountLeaver
<1>8. CASE MarkRefunded(k)
  <2>1. \E point \in RefundPoints : job'[k] = [job[k] EXCEPT !.at = point]
    BY <1>1, <1>8, WhereItGoes DEF MarkRefunded, RefundPoints, Point
  <2>2. /\ tx' = [tx EXCEPT ![o] = "refunded"]
        /\ UNCHANGED <<gateway, emitted, renewal, counted, affiliate, partners, reconcile>>
    BY <1>8 DEF MarkRefunded
  <2>3. GatewayAgrees' /\ SharedIsSettled'
    BY <1>1, <1>2, <1>5, <2>2 DEF GatewayAgrees, SharedIsSettled, Paid, Settled, Unshared, Rows, TypeOK
  <2> QED
    BY <1>1, <1>2, <1>6, <2>1, <2>2, <2>3
       DEF SaleInv, SplitOnce, CouponCountedOnce, RenewalHasEarlierSale
<1>9. CASE ReverseAffiliate(k)
  <2>1. \E point \in RefundPoints : job'[k] = [job[k] EXCEPT !.at = point]
    BY <1>1, <1>9, WhereItGoes DEF ReverseAffiliate, RefundPoints, Point
  <2>2. /\ affiliate' = [affiliate EXCEPT ![o] = [pending |-> 0, refunded |-> Rows(o)]]
        /\ UNCHANGED <<gateway, emitted, tx, renewal, counted, partners, reconcile>>
    BY <1>9 DEF ReverseAffiliate, Rows
  <2>3. \A p \in Orders : affiliate'[p].pending + affiliate'[p].refunded = Rows(p)
    BY <1>1, <2>2 DEF Rows, TypeOK
  <2>4. SharedIsSettled' /\ SplitOnce'
    BY <1>2, <2>2, <2>3 DEF SharedIsSettled, SplitOnce, Settled, Unshared, Rows
  <2> QED
    BY <1>1, <1>2, <1>6, <2>1, <2>2, <2>4
       DEF SaleInv, GatewayAgrees, Paid, CouponCountedOnce, RenewalHasEarlierSale
<1>10. CASE ReversePartners(k)
  <2>1. /\ job'[k].at = "idle"
        /\ partners' = [partners EXCEPT ![o] = IF @ = "pending" THEN "refunded" ELSE @]
        /\ UNCHANGED <<gateway, emitted, tx, renewal, counted, affiliate, reconcile>>
    BY <1>1, <1>10, WhereItGoes DEF ReversePartners
  <2>2. \A p \in Orders : partners'[p] = "none" <=> partners[p] = "none"
    BY <1>1, <2>1 DEF TypeOK
  <2>3. SharedIsSettled' /\ SplitOnce'
    BY <1>2, <2>1, <2>2 DEF SharedIsSettled, SplitOnce, Settled, Unshared, Rows
  <2> QED
    BY <1>1, <1>2, <1>6, <2>1, <2>3
       DEF SaleInv, GatewayAgrees, Paid, CouponCountedOnce, RenewalHasEarlierSale
<1> QED
  BY <1>7, <1>8, <1>9, <1>10 DEF RefundedStep

\* What every event begins with, an abandoned checkout, and failures.
LEMMA RequestKeepsSale ==
  ASSUME SaleInv, Alone, TypeInv', NEW k \in Workers,
         Verify(k) \/ SkipVerify(k) \/ Lookup(k) \/ CancelledStep(k) \/ Crash(k) \/ SwallowError(k)
  PROVE  SaleInv'
<1> DEFINE o == OrderOf(k)
<1>1. /\ TypeInv /\ TypeOK
      /\ job[k] \in Job /\ o \in Orders /\ job[k].event[1] = o
      /\ EventOf(k) = job[k].event[2] /\ EventOf(k) \in Events
      /\ \A w \in Workers : w = k
      /\ Workers # {}
  BY JobKnown DEF SaleInv, TypeInv, Alone, OrderOf, EventOf
<1>2. /\ Relies(job[k])
      /\ GatewayAgrees /\ SharedIsSettled /\ JobsRely
      /\ RenewalHasEarlierSale /\ SplitOnce /\ CouponCountedOnce
  BY DEF SaleInv, JobsRely
<1> USE DEF BeforeSale, AfterSale, RefundPoints
<1>3. CASE Verify(k)
  <2>1. CASE Refuses(k)
    BY <1>1, <1>3, <2>1, WhereItGoes, RestRelies, BooksUntouched DEF Verify
  <2>2. CASE ~Refuses(k)
    <3>1. job'[k] = [job[k] EXCEPT !.at = "lookup"]
      BY <1>1, <1>3, <2>2, WhereItGoes DEF Verify, Point
    <3>2. EventOf(k) = "approved" => gateway[o] = "approved" /\ tx[o] # "refunded"
      BY <1>1, <1>2, <2>2 DEF Refuses, GatewayAgrees
    <3>3. Relies(job[k])'
      BY <1>1, <1>3, <3>1, <3>2 DEF Verify, Relies, Job, Paid
    <3> QED
      BY <1>1, <1>3, <3>3, BooksUntouched DEF JobsRely, Verify
  <2> QED
    BY <2>1, <2>2
<1>3a. CASE SkipVerify(k)
  BY <1>3a DEF SkipVerify, Alone
<1>4. CASE Lookup(k)
  <2>1. CASE Duplicate(k)
    BY <1>1, <1>4, <2>1, WhereItGoes, RestRelies, BooksUntouched DEF Lookup
  <2>2. CASE ~Duplicate(k)
    <3>1. CASE EventOf(k) = "approved"
      <4>1. job'[k] = [job[k] EXCEPT !.at = "buyer", !.known = tx[o]]
        BY <1>1, <1>4, <2>2, <3>1 DEF Lookup, TypeOK
      <4>2. Relies(job[k])'
        BY <1>1, <1>2, <1>4, <2>2, <3>1, <4>1
           DEF Lookup, Duplicate, Relies, Job, Paid, Settled
      <4> QED
        BY <1>1, <1>4, <4>2, BooksUntouched DEF JobsRely, Lookup
    <3>2. CASE EventOf(k) = "refunded"
      <4>1. PICK point \in {"cancelUser", "unpayAffiliate"} :
              job'[k] = [job[k] EXCEPT !.at = point, !.known = tx[o]]
        BY <1>1, <1>4, <2>2, <3>2 DEF Lookup, TypeOK
      <4>2. Relies(job[k])'
        BY <1>1, <3>2, <4>1 DEF Relies, Job
      <4> QED
        BY <1>1, <1>4, <4>2, BooksUntouched DEF JobsRely, Lookup
    <3>3. CASE EventOf(k) = "cancelled"
      <4>1. job'[k] = [job[k] EXCEPT !.at = IF ~Settled(o) THEN "notePending" ELSE "readLead",
                                     !.known = tx[o]]
        BY <1>1, <1>4, <2>2, <3>3 DEF Lookup, Settled, TypeOK
      <4>2. Relies(job[k])'
        BY <1>1, <1>4, <4>1 DEF Lookup, Relies, Job, Settled
      <4> QED
        BY <1>1, <1>4, <4>2, BooksUntouched DEF JobsRely, Lookup
    <3> QED
      BY <1>1, <3>1, <3>2, <3>3 DEF Events
  <2> QED
    BY <2>1, <2>2
<1>5. CASE NotePending(k)
  <2>1. /\ job'[k] = [job[k] EXCEPT !.at = "readLead"]
        /\ tx' = [tx EXCEPT ![o] = "pending"]
        /\ UNCHANGED <<gateway, emitted, renewal, counted, affiliate, partners, reconcile>>
    BY <1>1, <1>5, WhereItGoes DEF NotePending, Point
  <2>2. ~Settled(o)
    BY <1>1, <1>2, <1>5 DEF NotePending, Relies
  <2>3. GatewayAgrees' /\ SharedIsSettled'
    BY <1>1, <1>2, <2>1, <2>2 DEF GatewayAgrees, SharedIsSettled, Paid, Settled, Unshared, Rows, TypeOK
  <2>4. JobsRely'
    BY <1>1, <2>1, RestRelies DEF Job
  <2> QED
    BY <1>1, <1>2, <2>1, <2>3, <2>4
       DEF SaleInv, SplitOnce, CouponCountedOnce, RenewalHasEarlierSale
<1>6. CASE ReadLead(k)
  <2>1. job'[k].at \in {"idle", "markLead"}
    BY <1>1, <1>6, WhereItGoes DEF ReadLead, TypeOK, Job
  <2> QED
    BY <1>1, <1>6, <2>1, RestRelies, BooksUntouched DEF ReadLead
<1>7. CASE MarkLead(k) \/ Crash(k)
  <2>1. job'[k].at = "idle"
    BY <1>1, <1>7, WhereItGoes DEF MarkLead, Crash
  <2> QED
    BY <1>1, <1>7, <2>1, RestRelies, BooksUntouched DEF MarkLead, Crash
<1>8. CASE SwallowError(k)
  <2>1. CASE Answer(k)
    BY <1>1, <1>8, <2>1, WhereItGoes, RestRelies, BooksUntouched DEF SwallowError
  <2>2. CASE Goto(k, "affiliateRead") /\ job[k].at \in {"coupon", "couponCap"}
    <3>1. job'[k] = [job[k] EXCEPT !.at = "affiliateRead"]
      BY <1>1, <2>2, WhereItGoes DEF Point
    <3>2. Relies(job[k])'
      BY <1>1, <1>2, <1>8, <2>2, <3>1 DEF SwallowError, Relies, Job, Rows
    <3> QED
      BY <1>1, <1>8, <3>2, BooksUntouched DEF JobsRely, SwallowError
  <2>3. CASE Goto(k, "partners") /\ job[k].at \in {"affiliateRead", "affiliateCreate"}
    <3>1. job'[k] = [job[k] EXCEPT !.at = "partners"]
      BY <1>1, <2>3, WhereItGoes DEF Point
    <3>2. Relies(job[k])'
      BY <1>1, <1>2, <1>8, <2>3, <3>1 DEF SwallowError, Relies, Job, Rows
    <3> QED
      BY <1>1, <1>8, <3>2, BooksUntouched DEF JobsRely, SwallowError
  <2>4. CASE Goto(k, "unpayPartners") /\ job[k].at = "unpayAffiliate"
    <3>1. job'[k] = [job[k] EXCEPT !.at = "unpayPartners"]
      BY <1>1, <2>4, WhereItGoes DEF Point
    <3>2. Relies(job[k])'
      BY <1>1, <1>2, <2>4, <3>1 DEF Relies, Job
    <3> QED
      BY <1>1, <1>8, <3>2, BooksUntouched DEF JobsRely, SwallowError
  <2> QED
    BY <1>8, <2>1, <2>2, <2>3, <2>4 DEF SwallowError
<1> QED
  BY <1>3, <1>3a, <1>4, <1>5, <1>6, <1>7, <1>8 DEF CancelledStep

\* What happens at the gateway, between the requests.
LEMMA GatewayKeepsSale ==
  ASSUME SaleInv, TypeInv', NEW o \in Orders, GatewayStep(o)
  PROVE  SaleInv'
<1>1. /\ gateway \in [Orders -> {"none", "pending", "approved", "refunded", "dead"}]
      /\ emitted \subseteq Orders \X Events
  BY DEF SaleInv, TypeInv, TypeOK
<1>2. UNCHANGED <<tx, renewal, counted, affiliate, partners, reconcile, job>>
  BY DEF GatewayStep, Move, StartCheckout, Expire, Pay, Refund, Abandon
<1>3. \A p \in Orders : /\ Paid(p) => Paid(p)'
                        /\ gateway[p] = "refunded" => gateway'[p] = "refunded"
                        /\ <<p, "refunded">> \in emitted'
                             => <<p, "refunded">> \in emitted \/ gateway'[p] = "refunded"
  <2>1. CASE StartCheckout(o)
    BY <1>1, <2>1 DEF StartCheckout, Move, Paid
  <2>2. CASE Expire(o)
    BY <1>1, <2>2 DEF Expire, Move, Paid
  <2>3. CASE Pay(o)
    BY <1>1, <2>3 DEF Pay, Move, Paid
  <2>4. CASE Refund(o)
    BY <1>1, <2>4 DEF Refund, Move, Paid
  <2>5. CASE Abandon(o)
    BY <1>1, <2>5 DEF Abandon, Paid
  <2> QED
    BY <2>1, <2>2, <2>3, <2>4, <2>5 DEF GatewayStep
<1>4. GatewayAgrees'
  BY <1>2, <1>3 DEF SaleInv, GatewayAgrees
<1>5. SharedIsSettled' /\ SplitOnce' /\ CouponCountedOnce'
  BY <1>2 DEF SaleInv, SharedIsSettled, SplitOnce, CouponCountedOnce, Settled, Unshared, Rows
<1>6. RenewalHasEarlierSale'
  BY <1>2, <1>3 DEF SaleInv, RenewalHasEarlierSale, Paid
<1>7. JobsRely'
  <2> SUFFICES ASSUME NEW k \in Workers PROVE Relies(job[k])'
    BY DEF JobsRely
  <2>1. Relies(job[k]) /\ (job[k].at # "idle" => job[k].event[1] \in Orders)
    BY JobKnown DEF SaleInv, JobsRely, OrderOf
  <2>2. EarlierSale(job[k].event[1]) => EarlierSale(job[k].event[1])'
    BY <1>2, <1>3 DEF EarlierSale
  <2> QED
    BY <1>2, <1>3, <2>1, <2>2 DEF Relies, Settled, Rows, BeforeSale, AfterSale, RefundPoints
<1> QED
  BY <1>2, <1>4, <1>5, <1>6, <1>7 DEF SaleInv

\* Any step of one request at a time keeps each sale once.
LEMMA SaleInvNext == SaleInv /\ Alone /\ [Next]_vars => SaleInv'
<1> SUFFICES ASSUME SaleInv, Alone, [Next]_vars PROVE SaleInv'
  OBVIOUS
<1>1. TypeInv'
  BY TypeInvNext DEF SaleInv
<1>2. ASSUME NEW k \in Workers, NEW e \in Orders \X Events, Deliver(k, e) PROVE SaleInv'
  <2>1. job'[k].at = "verify"
    BY <1>2 DEF Deliver, Fresh, SaleInv, TypeInv, TypeOK
  <2> QED
    BY <1>1, <1>2, <2>1, RestRelies, BooksUntouched DEF Deliver
<1>3. ASSUME NEW b \in Buyers, SelectLead(b) \/ ContactLead(b) PROVE SaleInv'
  <2>1. JobsRely'
    BY <1>3 DEF SelectLead, ContactLead, SaleInv, JobsRely, Relies, Paid, Settled, Rows, EarlierSale
  <2> QED
    BY <1>1, <1>3, <2>1, BooksUntouched DEF SelectLead, ContactLead
<1>4. ASSUME NEW o \in Orders, ReconcilePick(o) PROVE SaleInv'
  BY <1>4 DEF ReconcilePick, Alone
<1>5. CASE ReconcileStep \/ ReconcileDies
  BY <1>5 DEF SaleInv, ReconcileStep, ReconcileDies, ReconcileAsk, ReconcileSettle, ReconcileApprove,
              ReconcileReactivate, ReconcileRegister, ReconcileAlert
<1>6. CASE UNCHANGED vars
  <2>1. JobsRely'
    BY <1>6 DEF vars, SaleInv, JobsRely, Relies, Paid, Settled, Rows, EarlierSale
  <2> QED
    BY <1>1, <1>6, <2>1, BooksUntouched DEF vars
<1> QED
  BY <1>1, <1>2, <1>3, <1>4, <1>5, <1>6, GatewayKeepsSale, RequestKeepsSale, ApprovedKeepsSale,
     RefundedKeepsSale DEF Next, HandlerStep

\* Nothing is on the books at first.
LEMMA SaleInvInit == Init => SaleInv
<1> SUFFICES ASSUME Init PROVE SaleInv
  OBVIOUS
<1>1. \A k \in Workers : job[k].at = "idle"
  BY JobTypes DEF Init
<1>2. JobsRely
  BY <1>1 DEF JobsRely, Relies, BeforeSale, AfterSale, RefundPoints
<1>3. GatewayAgrees /\ SharedIsSettled /\ reconcile.at = "idle"
  BY DEF Init, GatewayAgrees, SharedIsSettled, Unshared, Rows, NoOrder
<1>4. RenewalHasEarlierSale /\ SplitOnce /\ CouponCountedOnce
  BY DEF Init, RenewalHasEarlierSale, SplitOnce, CouponCountedOnce
<1> QED
  BY <1>2, <1>3, <1>4, TypeInvInit DEF SaleInv

\* Requests that come one at a time keep SaleInv.
LEMMA SaleInvAlways == ASSUME Alone PROVE Spec => []SaleInv
<1>1. SaleInv /\ [Next]_vars => SaleInv'
  BY SaleInvNext
<1> QED
  BY <1>1, SaleInvInit, PTL DEF Spec

\* When requests come one at a time, approvals are verified and nothing is
\* reconciled, a sale counted as a renewal has an earlier one, for any number of
\* orders, faults and repeats (handleLojouWebhook: isRenewal).
THEOREM RenewalsHaveEarlierSale == ASSUME Alone PROVE Spec => []RenewalHasEarlierSale
<1>1. SaleInv => RenewalHasEarlierSale
  BY DEF SaleInv
<1> QED
  BY <1>1, SaleInvAlways, PTL

\* Nor is a sale credited twice, or to the partners as well as to an affiliate or a
\* coproducer (the credits of handleLojouWebhook).
THEOREM SaleSharedOnce == ASSUME Alone PROVE Spec => []ExclusiveSplit
<1>1. SaleInv => ExclusiveSplit
  BY DEF SaleInv, SplitOnce, ExclusiveSplit
<1> QED
  BY <1>1, SaleInvAlways, PTL

\* Nor is its coupon counted twice (txExistedBefore).
THEOREM CouponsCountedOnce == ASSUME Alone PROVE Spec => []CouponCountedOnce
<1>1. SaleInv => CouponCountedOnce
  BY DEF SaleInv
<1> QED
  BY <1>1, SaleInvAlways, PTL

-----------------------------------------------------------------------------
(* Each order in one hand at a time, of any number: nothing is reopened *)

\* What a handler goes by while nobody else is at its order: an approval that was
\* confirmed is of an order not refunded, what is to be noted as open is not
\* settled, and only a refund marks an order as refunded.
Goes(j) ==
    LET o == j.event[1]
    IN  /\ j.at = "lookup" /\ j.event[2] = "approved" => tx[o] # "refunded" \/ o \in unconfirmed
        /\ j.at \in BeforeSale => tx[o] # "refunded" \/ o \in unconfirmed
        /\ j.at \in RefundPoints => j.event[2] = "refunded"
        /\ j.at = "notePending" => ~Settled(o)

\* What the reconciliation settles or approves is still open.
ReconcileGoes == reconcile.at \in {"ask", "dead", "approved"} => tx[reconcile.order] = "pending"

\* Nobody is at an order together with another.
HandsApart ==
    /\ \A j, k \in Workers :
          /\ j # k /\ job[j].at # "idle" /\ job[k].at # "idle"
          => job[j].event[1] # job[k].event[1]
    /\ \A k \in Workers :
          job[k].at # "idle" /\ reconcile.at # "idle" => job[k].event[1] # reconcile.order

\* A refund on the books, or told, is one of the gateway.
RefundsAgree ==
    \A o \in Orders : tx[o] = "refunded" \/ <<o, "refunded">> \in emitted => gateway[o] = "refunded"

KeptInv ==
    /\ TypeInv /\ RefundsAgree /\ HandsApart /\ ReconcileGoes
    /\ \A k \in Workers : Goes(job[k])

Kept == \A o \in Orders : /\ tx[o] = "approved" => tx'[o] \in {"approved", "refunded"}
                          /\ tx[o] = "refunded" => tx'[o] = "refunded" \/ o \in unconfirmed

\* A request goes on with its own event, or ends.
GoesOn(k) ==
    /\ job[k].at # "idle"
    /\ \A w \in Workers \ {k} : job'[w] = job[w]
    /\ job'[k].at = "idle" \/ job'[k].event = job[k].event
    /\ UNCHANGED <<reconcile, gateway, emitted>>

\* A request that only touches its own order leaves the others what they go by.
LEMMA OwnOrderOnly ==
  ASSUME KeptInv, TypeInv', NEW k \in Workers, GoesOn(k), Goes(job[k])',
         \A p \in Orders \ {OrderOf(k)} : tx'[p] = tx[p],
         unconfirmed \subseteq unconfirmed',
         tx'[OrderOf(k)] = "refunded" => tx[OrderOf(k)] = "refunded" \/ gateway[OrderOf(k)] = "refunded"
  PROVE  KeptInv'
<1> USE DEF GoesOn
<1>1. /\ OrderOf(k) \in Orders /\ job[k].event[1] = OrderOf(k)
      /\ \A w \in Workers : job[w].event[1] \in Orders
      /\ reconcile.order \in Orders
  BY JobKnown DEF KeptInv, OrderOf, TypeInv, TypeOK
<1>2. HandsApart'
  BY DEF KeptInv, HandsApart
<1>3. RefundsAgree'
  BY <1>1 DEF KeptInv, RefundsAgree
<1>4. ReconcileGoes'
  BY <1>1 DEF KeptInv, ReconcileGoes, HandsApart
<1>5. ASSUME NEW w \in Workers \ {k} PROVE Goes(job[w])'
  <2>1. CASE job[w].at = "idle"
    BY <2>1 DEF Goes, BeforeSale, RefundPoints
  <2>2. CASE job[w].at # "idle"
    <3>1. job[w].event[1] # OrderOf(k) /\ Goes(job[w])
      BY <1>1, <2>2 DEF KeptInv, HandsApart
    <3> QED
      BY <1>1, <3>1 DEF Goes, Settled
  <2> QED
    BY <2>1, <2>2
<1> QED
  BY <1>2, <1>3, <1>4, <1>5 DEF KeptInv

\* Steps that leave the books and the requests alone.
LEMMA BooksKept ==
  ASSUME KeptInv, TypeInv', HandsApart', ReconcileGoes', RefundsAgree',
         UNCHANGED <<tx, job, unconfirmed>>
  PROVE  KeptInv'
BY DEF KeptInv, Goes, Settled

\* An idle request relies on nothing.
LEMMA IdleGoes == ASSUME NEW k \in Workers, job'[k].at = "idle" PROVE Goes(job[k])'
BY DEF Goes, BeforeSale, RefundPoints

\* The steps of a request.
LEMMA HandlerKeepsKept ==
  ASSUME KeptInv, TypeInv', NEW k \in Workers,
         HandlerStep(k) \/ Crash(k) \/ SwallowError(k)
  PROVE  KeptInv' /\ Kept
<1> DEFINE o == OrderOf(k)
<1>1. /\ TypeInv /\ TypeOK /\ tx \in [Orders -> TxStatus] /\ job \in [Workers -> Job]
      /\ job[k] \in Job /\ o \in Orders /\ job[k].event[1] = o
      /\ EventOf(k) = job[k].event[2] /\ EventOf(k) \in Events
      /\ Goes(job[k])
  BY JobKnown DEF KeptInv, TypeInv, TypeOK, OrderOf, EventOf
<1>2. /\ job[k].at # "idle"
      /\ UNCHANGED <<reconcile, gateway, emitted>>
      /\ \A w \in Workers \ {k} : job'[w] = job[w]
      /\ unconfirmed \subseteq unconfirmed'
  <2>1. CASE Verify(k) \/ SkipVerify(k) \/ Lookup(k) \/ Crash(k) \/ SwallowError(k)
    BY <1>1, <2>1 DEF Verify, SkipVerify, Lookup, Crash, SwallowError, Answer, Goto
  <2>2. CASE ApprovedStep(k)
    BY <1>1, <2>2 DEF ApprovedStep, ReadBuyer, GrantAccess, ProbeTransaction, RecordSale, CountCoupon,
                DisableCoupon, ReadAffiliate, CreateAffiliateCommission, CreditPartners, Answer, Goto
  <2>3. CASE RefundedStep(k) \/ CancelledStep(k)
    BY <1>1, <2>3 DEF RefundedStep, CancelAccount, CountLeaver, MarkRefunded, ReverseAffiliate,
                ReversePartners, CancelledStep, NotePending, ReadLead, MarkLead, Answer, Goto
  <2> QED
    BY <2>1, <2>2, <2>3 DEF HandlerStep
<1> USE DEF BeforeSale, RefundPoints
<1>3. ASSUME UNCHANGED tx, Goes(job[k])', job'[k].at = "idle" \/ job'[k].event = job[k].event
      PROVE  KeptInv' /\ Kept
  BY <1>1, <1>2, <1>3, OwnOrderOnly DEF GoesOn, Kept
<1>4. ASSUME UNCHANGED tx, Answer(k) \/ job' = [job EXCEPT ![k] = NoJob]
      PROVE  KeptInv' /\ Kept
  BY <1>1, <1>3, <1>4, WhereItGoes, IdleGoes
<1>5. ASSUME NEW point \in Point, Goto(k, point)
      PROVE  /\ job'[k].at = point /\ job'[k].event = job[k].event
  <2>1. job' = [job EXCEPT ![k].at = point]
    BY <1>5 DEF Goto
  <2>2. job \in [Workers -> Job]
    BY <1>1
  <2> QED
    BY <2>1, <2>2 DEF Job
<1>6. CASE Verify(k)
  <2>1. CASE Refuses(k)
    BY <1>4, <1>6, <2>1 DEF Verify
  <2>2. CASE ~Refuses(k)
    <3>1. job'[k].at = "lookup" /\ job'[k].event = job[k].event /\ UNCHANGED tx
      BY <1>5, <1>6, <2>2 DEF Verify, Point
    <3>2. EventOf(k) = "approved" => tx[o] # "refunded"
      BY <1>1, <2>2 DEF Refuses, KeptInv, RefundsAgree
    <3>3. Goes(job[k])'
      BY <1>1, <3>1, <3>2 DEF Goes
    <3> QED
      BY <1>3, <3>1, <3>3
  <2> QED
    BY <2>1, <2>2
<1>7. CASE SkipVerify(k)
  <2>1. job'[k].at = "lookup" /\ job'[k].event = job[k].event /\ UNCHANGED tx
    BY <1>5, <1>7 DEF SkipVerify, Point
  <2>2. EventOf(k) = "approved" => o \in unconfirmed'
    BY <1>1, <1>7 DEF SkipVerify
  <2>3. Goes(job[k])'
    BY <1>1, <2>1, <2>2 DEF Goes
  <2> QED
    BY <1>3, <2>1, <2>3
<1>8. CASE Lookup(k)
  <2>1. CASE Duplicate(k)
    BY <1>4, <1>8, <2>1 DEF Lookup
  <2>2. CASE ~Duplicate(k)
    <3>1. PICK first \in Point :
             /\ job' = [job EXCEPT ![k].at = first, ![k].known = tx[o]]
             /\ first \in BeforeSale => EventOf(k) = "approved"
             /\ first \in RefundPoints => EventOf(k) = "refunded"
             /\ first = "notePending" => ~Settled(o)
             /\ first # "lookup"
      <4>1. CASE EventOf(k) = "approved"
        BY <1>8, <2>2, <4>1 DEF Lookup, Point
      <4>2. CASE EventOf(k) = "refunded"
        BY <1>8, <2>2, <4>2 DEF Lookup, Point
      <4>3. CASE EventOf(k) = "cancelled"
        BY <1>8, <2>2, <4>3 DEF Lookup, Settled, Point
      <4> QED
        BY <1>1, <4>1, <4>2, <4>3 DEF Events
    <3>2. job'[k].at = first /\ job'[k].event = job[k].event /\ UNCHANGED <<tx, unconfirmed>>
      BY <1>1, <1>8, <3>1 DEF Lookup, Job
    <3>3. Goes(job[k])'
      BY <1>1, <1>8, <3>1, <3>2 DEF Goes, Lookup, Settled
    <3> QED
      BY <1>3, <3>2, <3>3
  <2> QED
    BY <2>1, <2>2
<1>9. CASE RecordSale(k)
  <2>1. \E point \in {"coupon", "affiliateRead"} :
           job'[k].at = point /\ job'[k].event = job[k].event
    BY <1>5, <1>9 DEF RecordSale, Point
  <2>2. /\ tx' = [tx EXCEPT ![o] = "approved"]
        /\ tx[o] # "refunded" \/ o \in unconfirmed
    BY <1>1, <1>9 DEF RecordSale, Goes
  <2>3. Goes(job[k])'
    BY <2>1 DEF Goes
  <2> QED
    BY <1>1, <1>2, <2>1, <2>2, <2>3, OwnOrderOnly DEF GoesOn, Kept
<1>10. CASE MarkRefunded(k)
  <2>1. job'[k].at = "unpayAffiliate" /\ job'[k].event = job[k].event
    BY <1>5, <1>10 DEF MarkRefunded, Point
  <2>2. EventOf(k) = "refunded" /\ gateway[o] = "refunded"
    <3>1. EventOf(k) = "refunded" /\ job[k].event \in emitted
      BY <1>1, <1>2, <1>10, JobKnown DEF MarkRefunded, Goes
    <3>2. job[k].event = <<o, "refunded">>
      <4>1. job[k].event \in Orders \X Events
        BY <1>1, JobKnown
      <4>2. job[k].event[1] = o /\ job[k].event[2] = "refunded"
        BY <1>1, <3>1
      <4> QED
        BY <4>1, <4>2
    <3> QED
      BY <1>1, <3>1, <3>2 DEF KeptInv, RefundsAgree
  <2>3. tx' = [tx EXCEPT ![o] = "refunded"]
    BY <1>10 DEF MarkRefunded
  <2>4. Goes(job[k])'
    BY <1>1, <2>1, <2>2 DEF Goes
  <2> QED
    BY <1>1, <1>2, <2>1, <2>2, <2>3, <2>4, OwnOrderOnly DEF GoesOn, Kept
<1>11. CASE NotePending(k)
  <2>1. job'[k].at = "readLead" /\ job'[k].event = job[k].event
    BY <1>5, <1>11 DEF NotePending, Point
  <2>2. tx' = [tx EXCEPT ![o] = "pending"] /\ ~Settled(o)
    BY <1>1, <1>11 DEF NotePending, Goes
  <2>3. Goes(job[k])'
    BY <2>1 DEF Goes
  <2> QED
    BY <1>1, <1>2, <2>1, <2>2, <2>3, OwnOrderOnly DEF GoesOn, Kept, Settled
<1>12. CASE ReadBuyer(k) \/ GrantAccess(k) \/ ProbeTransaction(k)
  <2>1. UNCHANGED <<tx, unconfirmed>>
    BY <1>12 DEF ReadBuyer, GrantAccess, ProbeTransaction
  <2>2. CASE job' = [job EXCEPT ![k] = NoJob]
    BY <1>4, <2>1, <2>2
  <2>3. CASE job' # [job EXCEPT ![k] = NoJob]
    <3>1. job'[k].at \in {"grant", "probe", "record"} /\ job'[k].event = job[k].event
      <4>1. CASE ReadBuyer(k) \/ ProbeTransaction(k)
        BY <1>1, <4>1 DEF ReadBuyer, ProbeTransaction, Job
      <4>2. CASE GrantAccess(k)
        BY <1>5, <2>3, <4>2 DEF GrantAccess, Point
      <4> QED
        BY <1>12, <4>1, <4>2
    <3>2. Goes(job[k])'
      BY <1>1, <1>12, <2>1, <3>1 DEF Goes, ReadBuyer, GrantAccess, ProbeTransaction
    <3> QED
      BY <1>3, <2>1, <3>1, <3>2
  <2> QED
    BY <2>2, <2>3
<1>13. CASE \/ CountCoupon(k) \/ DisableCoupon(k) \/ ReadAffiliate(k)
            \/ CreateAffiliateCommission(k)
  <2>1. UNCHANGED tx
    BY <1>13 DEF CountCoupon, DisableCoupon, ReadAffiliate, CreateAffiliateCommission
  <2>2. /\ job'[k].at \in {"couponCap", "affiliateRead", "affiliateCreate", "partners"}
        /\ job'[k].event = job[k].event
    <3>1. CASE CountCoupon(k) \/ DisableCoupon(k) \/ ReadAffiliate(k)
      BY <1>5, <3>1 DEF CountCoupon, DisableCoupon, ReadAffiliate, Point
    <3>2. CASE CreateAffiliateCommission(k)
      BY <1>1, <3>2 DEF CreateAffiliateCommission, Job
    <3> QED
      BY <1>13, <3>1, <3>2
  <2>3. Goes(job[k])'
    BY <2>2 DEF Goes
  <2> QED
    BY <1>3, <2>1, <2>2, <2>3
<1>14. CASE CancelAccount(k) \/ CountLeaver(k) \/ ReverseAffiliate(k)
  <2>1. UNCHANGED tx /\ job[k].at \in RefundPoints
    BY <1>14 DEF CancelAccount, CountLeaver, ReverseAffiliate
  <2>2. job'[k].at \in RefundPoints /\ job'[k].event = job[k].event
    BY <1>5, <1>14 DEF CancelAccount, CountLeaver, ReverseAffiliate, Point
  <2>3. Goes(job[k])'
    BY <1>1, <2>1, <2>2 DEF Goes
  <2> QED
    BY <1>3, <2>1, <2>2, <2>3
<1>15. CASE CreditPartners(k) \/ ReversePartners(k) \/ MarkLead(k) \/ Crash(k)
  BY <1>4, <1>15 DEF CreditPartners, ReversePartners, MarkLead, Crash
<1>16. CASE ReadLead(k)
  <2>1. CASE Answer(k)
    BY <1>4, <1>16, <2>1 DEF ReadLead
  <2>2. CASE ~Answer(k)
    <3>1. job'[k].at = "markLead" /\ job'[k].event = job[k].event /\ UNCHANGED tx
      BY <1>1, <1>16, <2>2 DEF ReadLead, Job
    <3>2. Goes(job[k])'
      BY <3>1 DEF Goes
    <3> QED
      BY <1>3, <3>1, <3>2
  <2> QED
    BY <2>1, <2>2
<1>17. CASE SwallowError(k)
  <2>1. CASE Answer(k)
    BY <1>4, <1>17, <2>1 DEF SwallowError
  <2>2. CASE ~Answer(k)
    <3>1. /\ job'[k].at \in {"affiliateRead", "partners", "unpayPartners"}
          /\ job'[k].at = "unpayPartners" => job[k].at = "unpayAffiliate"
          /\ job'[k].event = job[k].event /\ UNCHANGED tx
      BY <1>5, <1>17, <2>2 DEF SwallowError, Point
    <3>2. Goes(job[k])'
      BY <1>1, <3>1 DEF Goes
    <3> QED
      BY <1>3, <3>1, <3>2
  <2> QED
    BY <2>1, <2>2
<1> QED
  BY <1>6, <1>7, <1>8, <1>9, <1>10, <1>11, <1>12, <1>13, <1>14, <1>15, <1>16, <1>17
     DEF HandlerStep, ApprovedStep, RefundedStep, CancelledStep

\* The steps of the reconciliation.
LEMMA ReconcileKeepsKept ==
  ASSUME KeptInv, ~Overlapping, TypeInv',
         ReconcileStep \/ ReconcileDies \/ \E o \in Orders : ReconcilePick(o)
  PROVE  KeptInv' /\ Kept
<1> DEFINE o == reconcile.order
<1>1. reconcile \in Places /\ o \in Orders /\ tx \in [Orders -> TxStatus]
  BY DEF KeptInv, TypeInv, TypeOK, Places
<1> USE DEF Places, ReconcileGoto
<1>2. UNCHANGED <<job, gateway, emitted, unconfirmed>>
  BY DEF ReconcileStep, ReconcileDies, ReconcilePick, ReconcileAsk, ReconcileSettle, ReconcileApprove,
         ReconcileReactivate, ReconcileRegister, ReconcileAlert
<1>3. HandsApart'
  <2>1. CASE \E p \in Orders : ReconcilePick(p)
    BY <1>2, <2>1 DEF ReconcilePick, InHand, KeptInv, HandsApart
  <2>2. CASE ReconcileStep \/ ReconcileDies
    <3>1. reconcile'.order = o /\ reconcile.at # "idle"
      BY <1>1, <2>2 DEF ReconcileStep, ReconcileDies, ReconcileAsk, ReconcileSettle, ReconcileApprove,
              ReconcileReactivate, ReconcileRegister, ReconcileAlert
    <3> QED
      BY <1>2, <3>1 DEF KeptInv, HandsApart
  <2> QED
    BY <2>1, <2>2
<1>4. CASE UNCHANGED tx
  <2>1. ReconcileGoes'
    BY <1>1, <1>4 DEF ReconcileStep, ReconcileDies, ReconcilePick, ReconcileAsk, ReconcileSettle,
       ReconcileApprove, ReconcileReactivate, ReconcileRegister, ReconcileAlert, KeptInv, ReconcileGoes
  <2>2. RefundsAgree'
    BY <1>2, <1>4 DEF KeptInv, RefundsAgree
  <2> QED
    BY <1>2, <1>3, <1>4, <2>1, <2>2, BooksKept DEF Kept
<1>5. CASE ReconcileSettle \/ ReconcileApprove \/ ReconcileRegister
  <2>1. PICK status \in {"cancelled", "approved"} :
           tx' = [tx EXCEPT ![o] = status] \/ UNCHANGED tx
    BY <1>1, <1>5 DEF ReconcileSettle, ReconcileApprove, ReconcileRegister
  <2>2. tx[o] \in {"pending", "none"} \/ UNCHANGED tx
    BY <1>1, <1>5 DEF ReconcileSettle, ReconcileApprove, ReconcileRegister, KeptInv, ReconcileGoes
  <2>3. CASE ~UNCHANGED tx
    <3>1. reconcile'.at \notin {"ask", "dead", "approved"} /\ reconcile.at # "idle"
      BY <1>1, <1>5 DEF ReconcileSettle, ReconcileApprove, ReconcileRegister
    <3>2. \A k \in Workers : job[k].at = "idle" \/ job[k].event[1] # o
      BY <3>1 DEF KeptInv, HandsApart
    <3>3. \A k \in Workers : Goes(job[k])'
      <4> SUFFICES ASSUME NEW k \in Workers PROVE Goes(job[k])'
        OBVIOUS
      <4>1. CASE job[k].at = "idle"
        BY <1>2, <4>1 DEF Goes, BeforeSale, RefundPoints
      <4>2. CASE job[k].at # "idle"
        <5>1. Goes(job[k]) /\ job[k].event[1] \in Orders \ {o}
          BY <3>2, <4>2, JobKnown DEF KeptInv, OrderOf
        <5>2. tx'[job[k].event[1]] = tx[job[k].event[1]]
          BY <1>1, <2>1, <2>3, <5>1
        <5> QED
          BY <1>2, <5>1, <5>2 DEF Goes, Settled
      <4> QED
        BY <4>1, <4>2
    <3>4. RefundsAgree' /\ Kept
      BY <1>1, <1>2, <2>1, <2>2, <2>3 DEF KeptInv, RefundsAgree, Kept
    <3>5. ReconcileGoes'
      BY <3>1 DEF ReconcileGoes
    <3> QED
      BY <1>3, <3>3, <3>4, <3>5 DEF KeptInv
  <2> QED
    BY <1>4, <2>3
<1>6. CASE ~(ReconcileSettle \/ ReconcileApprove \/ ReconcileRegister)
  <2>1. UNCHANGED tx
    BY <1>6 DEF ReconcileStep, ReconcileDies, ReconcilePick, ReconcileAsk, ReconcileReactivate,
                ReconcileAlert
  <2> QED
    BY <1>4, <2>1
<1> QED
  BY <1>5, <1>6

\* Any step keeps what is settled, if no order is in two hands.
LEMMA KeptInvNext == KeptInv /\ ~Overlapping /\ [Next]_vars => KeptInv' /\ [Kept]_vars
<1> SUFFICES ASSUME KeptInv, ~Overlapping, [Next]_vars PROVE KeptInv' /\ [Kept]_vars
  OBVIOUS
<1>1. TypeInv'
  BY TypeInvNext DEF KeptInv
<1>2. ASSUME NEW k \in Workers, NEW e \in Orders \X Events, Deliver(k, e) PROVE KeptInv' /\ Kept
  <2>1. /\ job'[k].at = "verify" /\ job'[k].event = e
        /\ \A w \in Workers \ {k} : job'[w] = job[w]
        /\ UNCHANGED <<tx, gateway, emitted, reconcile, unconfirmed>>
        /\ ~InHand(e[1])
    BY <1>2 DEF Deliver, Fresh, KeptInv, TypeInv, TypeOK
  <2>2. HandsApart'
    BY <2>1 DEF InHand, KeptInv, HandsApart
  <2>3. Goes(job[k])'
    BY <2>1 DEF Goes, BeforeSale, RefundPoints
  <2>4. \A w \in Workers \ {k} : Goes(job[w])'
    BY <2>1 DEF KeptInv, Goes, Settled
  <2>5. RefundsAgree' /\ ReconcileGoes' /\ Kept
    BY <2>1 DEF KeptInv, RefundsAgree, ReconcileGoes, Kept
  <2> QED
    BY <1>1, <2>2, <2>3, <2>4, <2>5 DEF KeptInv
<1>3. ASSUME NEW o \in Orders, GatewayStep(o) PROVE KeptInv' /\ Kept
  <2>1. UNCHANGED <<tx, job, reconcile, unconfirmed>>
    BY <1>3 DEF GatewayStep, Move, StartCheckout, Expire, Pay, Refund, Abandon
  <2>2. /\ gateway \in [Orders -> {"none", "pending", "approved", "refunded", "dead"}]
        /\ RefundsAgree
    BY DEF KeptInv, TypeInv, TypeOK
  <2>3. RefundsAgree'
    <3>1. CASE StartCheckout(o)
      BY <2>1, <2>2, <3>1 DEF StartCheckout, Move, RefundsAgree
    <3>2. CASE Expire(o)
      BY <2>1, <2>2, <3>2 DEF Expire, Move, RefundsAgree
    <3>3. CASE Pay(o)
      BY <2>1, <2>2, <3>3 DEF Pay, Move, RefundsAgree
    <3>4. CASE Refund(o)
      BY <2>1, <2>2, <3>4 DEF Refund, Move, RefundsAgree
    <3>5. CASE Abandon(o)
      BY <2>1, <2>2, <3>5 DEF Abandon, RefundsAgree
    <3> QED
      BY <1>3, <3>1, <3>2, <3>3, <3>4, <3>5 DEF GatewayStep
  <2>4. HandsApart' /\ ReconcileGoes' /\ Kept
    BY <2>1 DEF KeptInv, HandsApart, ReconcileGoes, Kept
  <2> QED
    BY <1>1, <2>1, <2>3, <2>4, BooksKept
<1>4. ASSUME \/ \E b \in Buyers : SelectLead(b) \/ ContactLead(b)
             \/ UNCHANGED vars
      PROVE  KeptInv' /\ Kept
  <2>1. UNCHANGED <<tx, job, reconcile, unconfirmed, gateway, emitted>>
    BY <1>4 DEF SelectLead, ContactLead, vars
  <2>2. RefundsAgree' /\ HandsApart' /\ ReconcileGoes' /\ Kept
    BY <2>1 DEF KeptInv, RefundsAgree, HandsApart, ReconcileGoes, Kept
  <2> QED
    BY <1>1, <2>1, <2>2, BooksKept
<1> QED
  BY <1>1, <1>2, <1>3, <1>4, HandlerKeepsKept, ReconcileKeepsKept DEF Next

\* As long as no order is in two hands at once, none goes back from paid to an open
\* or dead checkout, and from refunded to paid only if an approval of it was accepted
\* without the gateway's word: for any number of orders and of requests at once, of
\* different orders, with the reconciliation, a gateway that cannot always be asked, and
\* any number of faults and repeats (handleLojouWebhook, lojouReconcile.ts).
THEOREM PaidStaysPaid ==
  ASSUME ~Overlapping
  PROVE  Spec => NeverDowngraded
<1>1. Init => KeptInv
  <2> SUFFICES ASSUME Init PROVE KeptInv
    OBVIOUS
  <2>1. \A k \in Workers : job[k].at = "idle"
    BY JobTypes DEF Init
  <2>2. \A k \in Workers : Goes(job[k])
    BY <2>1 DEF Goes, BeforeSale, RefundPoints
  <2>3. RefundsAgree /\ HandsApart /\ ReconcileGoes
    BY <2>1 DEF Init, RefundsAgree, HandsApart, ReconcileGoes, NoOrder
  <2> QED
    BY <2>2, <2>3, TypeInvInit DEF KeptInv
<1>2. KeptInv /\ [Next]_vars => KeptInv' /\ [Kept]_vars
  BY KeptInvNext
<1> QED
  BY <1>1, <1>2, PTL DEF Spec, NeverDowngraded, Kept
=============================================================================
