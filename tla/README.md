# Código Zero: TLA+ specifications

Código Zero sells a monthly subscription (and single courses) through the Lojou and Stripe
gateways, shares the income with partners and affiliates, and talks to its members over
WhatsApp (Komunika, Evolution), e-mail, push and its own pages. The backend is one Node
process, or several replicas of it, over one PostgreSQL database through Prisma: HTTP handlers
and cron jobs that run interleaved at every `await`, with few transactions. That is where its
difficulty lies, and what these modules are about: **the state shared through the database by
handlers, cron jobs, gateways' retries and crashes**, and by the pages that follow it through
streams and polls.

Paths are under `src/backend/src/` unless they start with `frontend/`.

## 1. Inventory

| Component | State | Operations | Interacts with | What is hard | What makes it correct |
|---|---|---|---|---|---|
| Partner ledger (`services/partner.service.ts`, `cost.service.ts`, `routes/partner.admin.routes.ts`) | PartnerCommission, PartnerCostShare, PartnerWithdrawal, PartnerAccount | credit, mature, reverse, create/delete a cost, request a withdrawal, approve, reject, offboard | credited and reversed by the webhook, matured by cron | reads before a transaction's writes, reviewers that decide on what they read, balances read in several queries | a payout is funded once and in full; nothing is stranded; a refund is final |
| Affiliate ledger (`services/affiliate.service.ts`, `routes/affiliate.routes.ts`) | AffiliateCommission, AffiliateWithdrawal, AffiliateReferral, AffiliateAccount | credit, mature, refund, request, review, enrol, disable | webhook, cron, panel | as the partner ledger, and no unique key per sale | a sale is commissioned once; a payout is funded |
| Order webhook (`routes/webhook.routes.ts` 416-1312) | Transaction, User, Coupon, SystemConfig.currentUsers | approved, refunded, cancelled | both ledgers, Komunika, credentials, push | retries, repeats and reordering by the gateway; a failure between any two queries | no sale is reopened, counted or shared twice; who pays gets in |
| Reconciliation (`services/lojouReconcile.ts`) | Transaction, User | settle, approve, reactivate, register, alert | the gateway's API, the webhook | it decides on a status read earlier | a lost webhook does not leave a buyer outside |
| Leads and remarketing (`routes/landing.routes.ts`, `lp.routes.ts`, `contentPage.routes.ts`, `jobs/cron.ts` 279-524) | User.remarketingStage, leadSource, newsletterWelcomeDueAt, newsletterWelcomeSentAt | fill in a form, click, cancel, pay; select, contact, advance; welcome | webhook, Komunika SDR | minutes pass between selection and write, and anything may happen to the lead; three newest first; welcome ticks with no flag and calls with no limit of time | a lead is contacted once for each time it came; whoever waits is recovered |
| Stripe webhook (`routes/webhook.routes.ts` 1314-1893) and nightly check (`jobs/cron.ts` 29-100) | User.subscriptionStatus, isActive, subscriptionEnd; Transaction | checkout, renewal, deletion, refund; expire, grace, block; in-app cancellation, trial | ledgers, gateway | two events of one charge in either order; lists read before the writes | one charge is one row; who is expired is blocked; who pays is let in |
| Courses (`services/courseSale.service.ts`, `courseAccess.service.ts`, `routes/courseWebhook.routes.ts`) | CourseAccess, Transaction | sell, refund, enrol, remove | two webhook URLs, panel | a right is read, then written; several sources grant it | a buyer has the course for life |
| Scheduled dispatches (`services/dispatch.service.ts`, cancel route of `routes/radar.routes.ts`, recovery in `jobs/cron.ts`) | ScheduledDispatch, DispatchLog | claim, send, save, cancel, finish, recover at boot | Komunika | replicas, crashes, long pauses, cancellations in flight | one sender; nobody twice; nobody left out |
| Broadcasts (`services/broadcast.service.ts`, `frontend/app/admin/broadcast/page.tsx`) | AdminBroadcast, AdminBroadcastRecipient; the page's interval and localStorage | start, claim, send, pause, stop, resume; poll | Komunika, push | several loops, crash between claim and result; overlapping answers on the page | each recipient at most once; the end is told once |
| Credential delivery (`services/credentialDelivery.service.ts`, `bulkEnroll.service.ts`) | CredentialDelivery, User.passwordHash, e-mail quota | enqueue, claim, send, retry, give up | webhook, e-mail, WhatsApp | an immediate delivery and the queue race over one password | nobody is locked out in silence |
| Group queues (`lib/membersGroup.ts`, `lib/centralAnnounce.ts`) | GroupMessageQueue, CentralAnnouncement, GroupRemovalQueue | post, announce; check, batch, remove | Evolution, pages of the Central | claims by date, lost replies, stale look-ups | posted once; who lapsed leaves; who renewed stays |
| Feedback surveys (`services/feedback.service.ts`, feedback routes) | FeedbackSurvey, FeedbackResponse | enrol, sweep, ask, poll; reply, vote, submit | WhatsApp webhook, e-mail, web form | no order and repeats of replies, three writers of one row | consent first, nothing after a no, thanked once |
| Support chat (`routes/chat.routes.ts`, `frontend/app/(auth)/chat/page.tsx`) | ChatMessage, stream signature; the page's list | post, delete, react, stream, merge; alert | | snapshots older than what the page shows | what was sent stays visible; one alert a session |
| Prospecting (`routes/radar.routes.ts`, `workers/scraper.worker.ts`, `frontend/hooks/useRadar.ts`) | ScrapeJob, leads, daily count; the page's list | start, scrape, stream, poll | BullMQ, Redis | a stream without replay, snapshots that come late | what is shown as complete is complete |
| Lesson video (`services/transcode.service.ts`, `courseContent.service.ts`, `r2.service.ts`, `frontend/components/LessonVideoUploader.tsx`) | Lesson, objects, multipart uploads | upload, complete, remove, convert | object store, ffmpeg | a video or playlist replaced while it is converted, restarts | what is served is whole; conversions end |
| Curriculum (`services/courseContent.service.ts`, `frontend/components/CourseContentManager.tsx`) | Module, Lesson: parent and sortOrder; the page's copy, its dialogs | create, save, move, delete, drag | the video of a lesson | the page shows what it loaded and its own drags; a dialog sends all it holds | the page shows what is saved; lessons of a module have different places |
| Sessions (`middlewares/auth.middleware.ts`, `lib/authToken.ts`, `lib/autoLoginToken.ts`, login routes) | User.tokenVersion, isActive; a cache in each process; tokens, links, codes for the members' area | sign in, check, exchange a session for a link or a code, change the password | panel, credential queue | seconds of cache, rows read before an await | a change takes effect within the seconds of the cache; a session is one of the account's version |
| New passwords (`services/otp.service.ts`, password routes of `routes/auth.routes.ts`) | OtpCode, PasswordResetToken | request, present, count, consume; send and redeem a link | WhatsApp, e-mail | look, comparison, consumption and effect are separate queries | what was spent stays spent; attempts are limited |
| Komunika tenants (`services/komunika.service.ts`) | two columns of User; the tenant at Komunika | provision, update, deprovision | both gateways, nightly check, panel | calls nobody waits for, retried, with lost answers | who pays has a tenant, who lapsed has none |
| Coproducers, onboarding, panels, tracking, fees | own tables | CRUD, checks of one request, reports | | mostly one query per request | covered by the repository's tests |

`PROJECT.json` lists all of them under `components`, with what is left out and why, and under
`hazards` every place where this code is hard to test, with the properties that guard it.

## 2. Modules

| Module | Role |
|---|---|
| `PayoutLedger` | what a commission ledger promises: rows are credited, mature, are reversed, or fund one payout; every operation in one step |
| `PartnerLedger`, `AffiliateLedger` | the two ledgers, query by query; each shown to implement `PayoutLedger` |
| `OrderWebhook` | the three events of the main product, the reconciliation and the remarketing, query by query, with the gateway as environment |
| `LeadFunnel` | people who left their number: forms, clicks, cancellations, purchases; the remarketing and the welcome |
| `Membership` | a member who pays by card: Stripe's events, the nightly check, cancellation and trial |
| `CourseSale` | the right of one account to one course: sales, refunds, enrolments, removals |
| `Dispatch` | scheduled dispatches run by several processes that crash and boot |
| `BroadcastJob` | what the panel may see of a mass send |
| `Broadcast` | the send itself; shown to implement `BroadcastJob` |
| `BroadcastPage` | the page that watches one `BroadcastJob` after another |
| `CredentialDelivery` | the password queue, the immediate attempt, the class enrolment |
| `GroupQueue` | messages and news posted to the group |
| `GroupRemoval` | who lapsed is removed from the group |
| `FeedbackSurvey` | one buyer's survey: tick, replies, votes, web form |
| `Chat`, `SupportSession` | a member's chat page and the server behind it; the alert of a session |
| `Radar` | a search, its worker, its stream and its page |
| `LessonVideo` | one lesson's upload, completion, removal and conversion |
| `Curriculum` | the modules and lessons of a course and the page that edits them |
| `Sessions` | tokens, links, codes and caches of one account |
| `PasswordReset` | codes and links for a new password, query by query |
| `KomunikaTenant` | one member's tenant at Komunika, the calls and what is remembered of them |
| `MCPartnerLedger`, `MCAffiliateLedger`, `MCOrderWebhook`, `MCDispatch` | instances for TLC |
| `MCOrders` | `OrderWebhook` for TLC: a buyer with two orders, or one order to which more happens (the constraint `Bounds`) |
| `MCLeadFunnel` | `LeadFunnel` for TLC, from two starts: people who do everything, and a queue longer than a batch |
| `MCServices`, `MCMemberArea` | several components side by side (below) |
| `PartnerLedgerProofs`, `AffiliateLedgerProofs`, `OrderWebhookProofs`, `MembershipProofs`, `DispatchProofs` | theorems about the module of that name, checked by TLAPS |
| `ServicesInvariants` | the inductive invariants of the parts of `MCServices` |
| `ServicesProofs`, `MemberAreaProofs`, `LeadFunnelProofs` | theorems about the parts of `MCServices`, `MCMemberArea` and `MCLeadFunnel`, a section for each part, and about the composites themselves |

**Side by side.** The components in `MCServices` (broadcast and its page, credentials, the two
posting queues, the survey, sessions, codes and links, the tenant, the curriculum) share no table
in what the models keep of them, and neither do those in `MCMemberArea` (removal, course, chat,
support, prospecting, video). A behaviour of such a composite exercises one part, chosen at the
start, while the variables of the others stay at their initial values: the states are the sum of
the parts' and not their product, and a run shows of each part what a run of its own would.
Fairness of a part is stated on that part's variables.

### How a module corresponds to the code

A step is one awaited query or call, with the code up to the next one: whatever another request
can do, it does between two steps. Queries of one database transaction whose writes lock what
they touch are one step. Guards are the code's `where` clauses, conditions and early returns.
Where a handler goes by a value it read earlier, the value is kept in the state (`poolRead`,
`review`, `job[k].existed`, `run[..].done`, `worker[p].read`, `vote[v].read`) and may be stale
when it is used. Variables marked *(history)* in their declaration are read by properties only.

**PartnerLedger.** A commission is the pair ⟨partner, order⟩, the table's unique key; orders
are numbered by time of sale, and `due` is the last order past its three days, so the code's
`orderBy availableAt` is the order of the numbers. `requestWithdrawal` is `ReadPool`,
`ReadShares` and `Commit` or `Conflict`: it runs under READ COMMITTED, so that its two reads
see different states and only the counts of its conditional updates (`Unchanged`) protect it.
`Consumed` is the greedy loop. A review reads the withdrawal (`Review`) and writes later
(`Approve`, `Reject`); the offboarding after an approval is `ReadAggregate` in any order,
`CheckBalance`, `CountPending`, `Scrub`. `AbandonCredit` is a failure in the credit loop.

**AffiliateLedger.** A row is ⟨order, handling⟩: the table has no unique key per sale, so that
which handling of the approval created a row matters, and only `FindExisting` before the
insertion keeps a sale from being credited twice. Requests are as above; the two review routes
read the withdrawal (`Review`) and write without looking at its status again (`MarkPaid`,
`RejectWithdrawal`).

**OrderWebhook.** `job[k]` is a request in flight: its place, its event and the local variables
later code depends on (`known` is `existingTransaction.status`, `buyer` is `preExisting`,
`existed` is `txExistedBefore`, `credited` is `affiliateCredited`). `Crash` is a process that
dies or a query that throws (no answer, or a 500: the gateway sends the event again);
`SwallowError` is a failure caught by the handler. The gateway is an environment: it delivers
an event until it is answered, may repeat it, and events overtake one another. An approval is asked
about (`Verify`), or goes on without an answer: when the gateway cannot be reached, or the event came
by the coproducer's own URL (`SkipVerify`); `unconfirmed` are the orders of such approvals.
`alerted` is the push to the administrators.

**LeadFunnel.** A person is an account, numbered in the order of creation. Of its row there are the
status, whether it has a source, the remarketing stage, the welcome, and whether `updatedAt` is older
than the minutes the filters ask for (`quiet`, set by `Elapse`). `batch[p]` is the list that a tick
read at its start; each contact is a call (`Delivered`, `NotDelivered`) and the write of the stage
(`WriteStage`), which asks for nothing, and between two contacts two to five minutes pass in which
people go on. A message counts as a contact when the gateway takes it, as the code has it; each call
makes several attempts, and one that went out without an answer (`Unanswered`, `WelcomeUnanswered`)
is tried again. `greeting[t]` is a tick of the welcome with its reader in hand: the code has nothing
that keeps two apart, and `Overlapping` says whether two may be. `order.cancelled` is a read of the
lead (`CancellationRead`) and a write (`OrderCancelled`). Whether the
assistant or the model message is sent (`sdrIsDelivering`) changes no state. The two lists of
`StartBatch` are read at once; between the two queries a form can put one person into both, with a
reason for either. A class enrolment, which resets the stage, is left out.

**Membership.** `handler` is a Stripe event under way, by query; `check` is the nightly job with
the list (`todo`) it read before. Days are `left` of the period, down to one day past the grace
(`Longest`): longer expired makes no difference to the code. `Carried` says which of the two events of
a charge name their payment intent: an invoice without one is not compared with the session's row, and
a session without one stores none. A handler answers 200 whatever
happens, so that `interrupted` handlings are not retried.

**CourseSale.** `right` is CourseAccess: none, the day it ends, or `Forever`. `request[h].read` is
the row `grantCourseAccess` read before its write, `Gone` when that row was deleted meanwhile.
Courses told on their own URL (`OwnUrl`) skip the look at the transaction that the main URL takes.

**Dispatch.** `run` is `processDispatch` by process and dispatch; `recent` says whether
`updatedAt` is younger than the five minutes of the recovery. `Age` lets the five minutes
pass, but not during a call of the messaging API or of the database: such a call ends in less.
`LongDelay` is the choice of a pause between contacts longer than five minutes, which the
route allows (up to ten). `Send` is the messaging call, its outcome and its log row: when the
log row cannot be written, the catch counts the contact a second time, as failed.

**Broadcast, BroadcastPage.** `runner[p]` is the loop of a process and the recipient in its hand;
`starting` is the request that has created the job and not yet its recipients. Jobs of the page are
numbered by their creation. It is driven by an interval that does not wait for answers (`answers`, each
the job and the status it carries, which stands for any number alike), by answers of control routes
(`replies`), by the look for an active job (`active`) and by localStorage (`stored`); an interval of a
page that was left may go on (`ghosts`). As in the code an answer is not compared with the job that is
watched.

**CredentialDelivery.** Passwords are not modelled, only who set the current one (`setBy`) and
whether its user was told (`knows`). Time is in units of five minutes and passes while nobody is
at work. `Enqueue` is fire-and-forget; `Mark` is the immediate attempt's update.

**GroupQueue, GroupRemoval.** An entry is claimed by moving its date, provided it is the one read
(`Unclaimed`); `first` is the date it had at the start. A removal batch re-checks every row
(`CheckNext`) and gives up a row after `MaxAttempts` (`RetryOrGiveUp`). Rows that are no longer
pending leave the sequence (`Only`).

**FeedbackSurvey.** `tick`, `text`, `vote` and `web` are the four writers of one row. A guarded
`updateMany` whose count is looked at is `Guarded`; `ApplyVote` is the one that is not. A no to the polls
is two writes (`refuse`, `cancel`), and a tick may find the suggestion due between them unless
`Punctual` says that it falls due at another moment.

**Chat, SupportSession.** A snapshot is the last `Window` messages; the stream pushes one when its
`signature` (numbers of reactions, not reactions) changed. `Merge` is the page's merge. A session
has no row: `session` counts the silences, and `Others` is the look for another message.

**Radar.** `events` is the stream, which is lost while it is not open; `answers` are snapshots under
way, about whichever search they were asked for. BullMQ may give a job out again (`stalled`).

**LessonVideo.** An object is known by its format, its contents by the number of the upload;
`hls.whole` is false while the worker wipes and puts files, `hls.of` names the upload they are of. A
playlist (`Playlists`) makes the row HLS at once, without a conversion.

**Curriculum.** `rows` are both tables: an item has a parent (the course, a module, or `Gone`) and a
place. `shown` is the page's state, with the places as they were loaded: a drag moves items and
leaves the numbers. `orderBy sortOrder` says nothing of equal places (modules can have them), so that
`Loaded` is the set of the views the database may give. `edit` is the dialog that is open; `job[h]` a
request from the click to the answer, whose service reads (`last`, `owned`) and writes in separate
steps. `unsure` is a page that was not told of something done, until it loads again.

**Sessions.** Passwords are numbered, and `account.version` is tokenVersion. `cache[p]` is
`userCache` of a process; `job[h]` is a login, or a request in `authMiddleware`, between its read
and what it does with it. `Keep` leaves the cache alone when the token was of another version. A request that
was accepted (`pass`) may go on to a route that makes a link to the app (`AppLink`) or a code for the
members' area (`MembersSso`), which `AutoLogin` and `Exchange` turn into tokens of the version that the
row has by then; `crossed` is when a session of an older version was accepted for that.

**PasswordReset.** A code is known by the order of its creation. `job[h]` walks through
`createAndSendOtp` or `verifyOtp` and the route's update; `gone` is what had been spent when the
request began.

**KomunikaTenant.** `remote` is Komunika's side, as far as the calls' documentation tells (a
provision reopens, an update of a blocked tenant does not). `Unanswered` is every outcome that is
retried, with its effect or without; `Refused` one that is not, among them the answer to a provision
that names no company and may have taken effect; `torn` holds calls that took effect and did not reach the columns.

## 3. What is checked

| Run | Instance | Result |
|---|---|---|
| `partner_ledger` | one partner being offboarded, two sales (worth 2 and 1), one cost, requests for 2 and 1, one reviewer, the partner toggled in and out of the pool | all hold |
| `affiliate_ledger` | two affiliates, three sales, two handlings at once (of different orders), two requests, one account disabled and enabled | all hold |
| `order_webhook` | one request at a time and a gateway that does not always answer: two orders of one referred lead, one with a coupon, one fault, one repeat; and one order, two faults, two repeats, the reconciliation | all hold |
| `order_reconcile` | one coproduced order of an unknown buyer, two concurrent requests, reconciliation, one fault | all hold |
| `dispatch` | one dispatch of three contacts, three interchangeable replicas, one crash, one failing query, short pauses | all hold |
| `membership` | one member, two charges whose events name their payment intents, one request at a time, one failure, the nightly check between any two steps | all hold |
| `services` | two recipients, two processes and a crash; one account and two ticks; a page and two broadcasts, the second sent with no answer under way; an entry of either group queue; a survey of two polls answered by text, by vote and web, or by two texts at once; one process, two requests, one change of password and two links or codes made of sessions; two codes with one attempt, or a link; one call to Komunika repeated once, over five events; a course of two modules and up to four items, one user who waits | all hold |
| `member_area` | two members of the group, one who cannot be removed; a course sold twice, two requests; three messages; two searches, then two tabs; two uploads of one lesson, each a video of either format or a playlist, a restart | all hold |
| `lead_funnel` | two people, who read contents, click, cancel, buy, pay and lapse as they like, with one message of lost outcome, one tick of the welcome at a time; and three leads for batches of two, the newest of whom cannot be reached, with one batch that breaks | all hold |
| `membership_paid` | the same member as in `membership` | violated: a blocked account pays through Stripe and cannot sign in |
| `group_renewed` | two people, one with two accounts of one phone | violated: who renewed is removed |
| `survey_misheard` | a survey that expired, one reply at a time | violated: a yes to the suggestion restarts the polls |

The last three each check one property that states what a comment of the code says; `findings` in
`PROJECT.json` quotes the comment and tells the behaviour TLC found.

**Properties of the passing runs.** Of the ledgers: `PendingIsFunded`,
`WithdrawnBacksStandingPayout`, `NeverOverpaid` (of each ledger, one reviewer at a time: the payouts of
a person that wait or were paid, added up, do not exceed what his sales are worth, none counted
twice), `ImplementsPayout`, `OneCommissionPerSale`. Of the webhook:
`NeverDowngraded` (paid is not reopened, and refunded becomes paid only by an approval that the gateway
did not confirm), `RenewalHasEarlierSale`, `ExclusiveSplit`; with two requests
at once and the reconciliation, `RecordedSaleHasAccess` and `PaidGetsAccess`. Of dispatches:
`SingleSender`, `NeverResent`, `CompletedIsWhole`, `CancelStops`. Of members:
`ExpiredIsBlocked`, `ChargeRecordedOnce`, `BuyerHasCourse`. Of leads: `ContactedOnce` and
`QueueRecovered` (`Recovered` from the second start). Of messages: `MessagedOnce`,
`ImplementsLifecycle`, `EndToldOnce`, `NobodyLockedOut`, `PostedOnce`, `MannersKept`. Of the
member area: `SentStaysVisible`, `AlertedOnce`, `ShownIsWhole`, `ServedIsWhole`, `LapsedLeave`,
`ConversionEnds`. Of accounts: `SessionsFollowAccount` (a change is felt within the seconds of the cache, and a
session of the account's version was opened with its password or made, through links and codes, of one
that was accepted within those seconds), `CodesRunOut` (what was spent
serves no later request, and wrong codes are limited), `TenantFollowsAccount` (who pays has a
tenant, who lapsed has none, once the calls are through). Of the curriculum: `OrderIsSaved` (the
page shows what is saved, and lessons of a module have different places).
Each is stated in words above its definition, and for each `mutants` names a
plausible bug that TLC finds through it. `TypeOK` is one type invariant per module: it is
checked in `MCTypeOK` for the parts of a composite, and proved for every module.
`PendingIsFunded` and `WithdrawnBacksStandingPayout` are checked of the
partners' ledger and proved of both. `PaidStaysFunded`, `ReversalIsFinal`, `CouponCountedOnce` and
`OverIsOver` are proved and in no run: a payout that lost its rows after it was paid is what
`NeverOverpaid` finds.

**Properties that do not hold.** Some definitions state what a comment of the code claims and
no run expects to hold: TLC finds a behaviour against each, told in `findings` (those without a
run): `SettledIsCovered`, `OffboardedIsPaidOut`, `RecoveredSaleNotCommissioned`,
`AnsweredSaleIsShared`, `RefundCountedOnce` (by a fault; by two repeats of the approval and the refund; or,
with `ByToken`, of an order that is never asked about), `NeverReopened` (with two `Workers` and
`Overlapping`), `OldSessionsDie`, `PlaylistIsServed`, `StartedEnds`, `SurplusStays`, `NothingLost`,
`WhatsappSpaced`, `PageAgrees`, `EverySessionAlerted`, `EveryLeadShown`, `LimitHolds`,
`CompletedStays`, `ReadyIsCurrent`, `NothingLeftOpen`, `CancelledHasNone`, `LinkDiesWithPassword`,
`SingleUse`, `OnlyLatest` (with two handlers), `OneLessonEach` (with `Hasty`), `OnlyDragsReorder`,
`NoLateNews` (of `GroupQueue`), `VisitorsOnly`, `OnceInAll`; `WelcomedOnce` with two `WelcomeTicks` and
`Overlapping`, `NothingAfterNo` without `Punctual`, `EndToldOnce` without `Prompt`, `ChargeRecordedOnce`
where not both events are `Carried`; `ContactedOnce` with two `Processes` and
`Recovered` when as many are `Unreachable` as a batch takes; `NobodyLockedOut` with `Reenrolled`;
and `SingleSender` with `LongDelay`, `NeverResent` with an sdr dispatch, `PayingHasTenant` with
`BareRenewals`. To see one, give TLC its module and a configuration with that
module's constants and the property.

**Constants that widen an instance.** Where a property holds of requests that come apart and not
of any two at once, a constant says which, and the passing runs choose the former:
`Overlapping` (two handlings of one order in `AffiliateLedger`; an enrolment during another grant
in `CourseSale`; a purchase or a class during a delivery in `CredentialDelivery`; an order in two hands in
`OrderWebhook`; two ticks of the welcome in `LeadFunnel`), `Prompt` (a broadcast is sent with no answer
under way, in `BroadcastPage`), `Punctual` (no request for suggestions falls due between the two writes of
a no), `Carried` (the events of Stripe that name their payment intent), `ByToken` (orders whose events come
by the coproducer's URL and are not verified), `Reenrolled` (a class enrols who was
already sent a password), `LongDelay` (`Dispatch`),
`Hasty` (a search started while answers about the last are due, in `Radar`; a video removed while
it is worked on, in `LessonVideo`), `Throwing` (the conversion worker throws outside of its try),
`Shared` (phones with two accounts, in `GroupRemoval`), `Overlapping` in `KomunikaTenant` (an event
while the call of the last is under way) and `BareRenewals` (Stripe renews a member without a
tenant), `Hasty` in `Curriculum`, the number of `Workers` or `Handlers`. With
them set the code can credit a sale twice, shorten a right for life, leave a password untold, show
another search's leads, close the tenant of a member who has just paid, give two lessons one
place, serve a video that is not whole, or leave a conversion unfinished: TLC
finds `OneCommissionPerSale`, `BuyerHasCourse`, `NobodyLockedOut`, `ShownIsWhole`, `ServedIsWhole`,
`ConversionEnds`, `TenantFollowsAccount` and `OrderIsSaved` violated. Where what fails is a claim of
the code (`BareRenewals`, `Reenrolled`, `Prompt`, `Punctual`, `Carried`, and `Overlapping` of orders and of
the welcome) it is among the findings; the others are recorded here and in the notes of `hazards`. Nor are these, met
while modelling: Stripe's refund decrements `currentUsers` on every delivery though the file says
that re-delivery "resolves to upsert / no-op" (of the rows it keys); a course approval that is delivered again
after a refund gives the course again; two callers may queue one person for removal twice; no page
calls `/landing/checkout-click`, so that the stage it writes comes from cancelled orders alone; a
reader of contents who fills in the sales form later keeps his source and is never taken for a visitor.

**Bounds.** Two requests are enough for every conflict of a ledger: a request only ever meets rows
that another one, a refund or a cost took. Two sales of different worth make the greedy loop stop
early, stop at the end, and overshoot. Two orders of a buyer are what a renewal needs; one repeat
and one fault, with the retries that a fault causes, give every pair of handlings of an event, and two
repeats let an approval and a refund come again.
Three replicas allow a crashed, a running and a booting process at once. Two recipients and two
loops let either take the other's. Two polls let a survey have one answered and one not, and pause.
A lifetime shorter than the clock's range lets news expire, be claimed and be retried. `BatchSize`
1 puts somebody behind who cannot be removed. A window of one message and two messages make a
snapshot without the newest; two searches make an answer about the wrong one; two formats and a playlist
let a replacement keep or change its object, and its kind. Two broadcasts let an answer be about the last
one; two texts let replies race, which they do in a start of their own without faults and web. Five events let a tenant be opened, closed, opened and closed
again, with an answer lost on the way. One cache is enough, since processes share nothing but the row;
two seconds let a change fall into the second of the cache or after it, and two links or codes (`MaxIssued`) let one be made of
a session that another has opened. Two modules and a fourth item let a lesson be
moved, created behind others and deleted before them. Two
people allow a batch of two kinds, one of whom acts while the other's message goes out; three times
of coming to the funnel let one be contacted, come back, and come back while the next batch waits; a
queue of three and batches of two leave one behind. `LastPassword`, `MaxTyped`, `MaxRetries`, `MaxEvents`,
`MaxFaults`, `MaxFailures`, `MaxRepeats`, `MaxCrashes`,
`MaxErrors`, `MaxRestarts`, `MaxCharges`, `MaxAnswers`, `MaxJobs`, `MaxIssued`, `MaxAsked`, `MaxUnsure`, `MaxBreaks`, `MaxPushed`, `Toggled` and the
constants named `Last...` are the bounds a run sets; no other counter grows. Symmetry is used for
replicas only, in a run without liveness.

**Scope of `order_webhook` and `membership`.** Their properties hold of one request at a time; the
handlers take no lock, and two deliveries of one approval at once both read no row and count the
coupon twice; an abandoned checkout handled beside an approval reopens the order; and the reconciliation
writes 'approved' over a refund that comes between its question and its write. The gateway does not send an event again while it waits for the answer, so that the
concurrent case needs two different causes; it is listed under `hazards`, and `order_reconcile`
checks with two requests at once what must hold even then.

**Deadlock** is not checked: each instance really comes to an end (all orders settled, all
dispatches over, all bounds reached).

**Fairness.** In `OrderWebhook` the gateway retries what was not answered, and a handler and a
reconciliation that started go on.
In `Membership` days pass and the nightly check goes on from step to step. In `GroupRemoval` the daily
check, the ticks and the end of a pause come (weakly), and a removal that is tried again and again
works at last unless the member is `Stuck` (strongly). In `LessonVideo` the worker goes on, the cron's
kick comes and a process that died is started again. In `LeadFunnel` a batch that started goes on, the
ticks that come find a batch at last if there is one again and again, and a number that accepts
messages is not refused for ever (both strongly: people come and go, and the batch moves to the
next whether the message went out or not). There people come `MaxAsked` times: were newer ones to
come for ever as fast as batches are sent, the older would wait for ever, since the newest go first. No fairness is assumed of leads, buyers, members,
administrators, refunds, or of the start of a reconciliation.

## 4. What is proved

TLAPS checks, for every value of the constants that their assumptions allow:

* `PartnerLedgerProofs`: the inductive invariant `LedgerInv` and from it `TypeOK`,
  `PendingIsFunded`, `WithdrawnBacksStandingPayout`, `ReversalIsFinal`, and that the ledger
  implements `PayoutLedger`. `PendingIsFunded` is not inductive alone: a commit must create
  a *new* backing set (`RowExistsWhenAnswered`: a withdrawal has a row exactly when its request
  was answered "ok"; `WithdrawnBacksStandingPayout`: a free row backs nothing), the debits
  it settles must not be another payout's (`SettledNamesPayout`), and what it takes must be
  worth enough when it was read (`ReadsCover`); then `Covers` is a statement about two sets
  that the step does not change afterwards, so that this proof compares sets and never adds.
  `PaidOnce`: with at most one reviewer (`OneReviewer`), a paid payout stays funded. The premise
  is needed: the review's write does not repeat the status check.
  `NobodyOverpaid` does add. From `LedgerInv` and `PaidStaysFunded` every standing payout is
  covered by its own rows; no row and no debit belongs to two payouts, so that the sums over the
  union are the sums of the sums (`OneMoreCovered`, `AllCovered`), and the rows of the union are
  withdrawn rows of that partner. The amounts are folds of the community modules, and what such a
  fold computes is proved from its definition, by least counterexamples over the well-founded
  order of the naturals: the recursion has a solution (`SolutionsExist`), the order of the elements
  does not matter (`AnyFirst`), disjoint parts add up (`SumOfBoth`), larger sets have no smaller
  sums (`SumGrows`).
  `ConsumptionIsUnique`: the greedy loop, which `Consumed` describes by what it returns, ends with
  exactly one set of rows whatever was read; `Commit` and `Conflict` therefore choose nothing the
  code does not, and a request never waits for a set (`RequestsHaveOneOutcome`).
* `AffiliateLedgerProofs`: the same argument for the second ledger, with both review routes;
  `CommissionedOnce` when handlings of one order do not overlap, from the invariant that a
  handling between its look-up and its insertion is alone with an order that has no row.
  `AffiliateNeverOverpaid` counts *sales* and not rows: it needs that a payout keeps its rows
  (`AffiliatePaidOnce`, one reviewer) and that rows of different sales are worth what the sales are
  (`RowsAreSales`, with `OneRow`). `AffiliateConsumption` is its greedy loop. The lemmas on sums are
  those of `PartnerLedgerProofs`, repeated.
* `OrderWebhookProofs`: `TypeOK` and `RecordedSaleHasAccess` without premises, for any number
  of workers and with the reconciliation: a job past the grant has granted (`GrantedBeforeRecorded`).
  `NeverDowngraded` (`PaidStaysPaid`) needs that no order is in two hands at once (`~Overlapping`), for
  any number of workers, with the reconciliation and a gateway that cannot always be asked: what whoever
  has the order in hand has read of it is then still so, and only an unconfirmed approval finds it
  refunded (`KeptInv`).
  Under `Alone` (one worker, no reconciliation, and every approval verified: the gateway can be reached
  and no order comes by the coproducer's URL), from `SaleInv`: `RenewalHasEarlierSale`, `ExclusiveSplit`,
  and `CouponCountedOnce`. The run of `order_webhook` finds the first two also where the gateway does
  not answer. `SaleInv` says
  that the rows agree with what the gateway has told (`GatewayAgrees`), that only a settled order
  was shared (`SharedIsSettled`), and that what the job in flight remembers (`known`, `existed`,
  `credited`) is still so (`JobsRely`), which is why one worker is needed: a second one would make
  the memory stale. The queries between two
  places of the handler are proved place by place.
* `MembershipProofs`: `TypeOK`; `ChargeRecordedOnce` under `OneHandler` and `IntentsCarried`: one request at
  a time, and sessions and invoices that name the payment intent.
* `DispatchProofs`: `TypeOK` and `OverIsOver` without premises; `SingleSender` and
  `CancelStops` when pauses are shorter than the recovery's five minutes (`~LongDelay`), because
  a run is then always recent and claimed (`RunsLookAlive`); `CompletedIsWhole` and
  `NeverResent` when moreover no dispatch is of mode sdr, because then the run and the row
  agree on the cursor (`RowProgress`, `RunProgress`). The findings show that these premises
  cannot be dropped.

* `ServicesProofs`, of the parts of `MCServices`:
  - broadcasts: `TypeOK`, `MessagedOnce` and that `Broadcast` implements `BroadcastJob`. A recipient is
    "sending" from its claim to its mark (`ClaimedIsSending`), one loop holds it (`OneClaim`), and who
    waits was sent nothing (`WaitingUntexted`).
  - their page: `EndToldOnce`, of any number of broadcasts, each sent with no answer under way (`Prompt`).
    What answers carry was once so (`AnswersTellTruth`), a send finds nothing that could be
    answered (`SendingIsQuiet`), and a page that is closed or waits is blank (`ClosedIsBlank`,
    `WaitingIsBlank`).
  - group queues: `TypeOK` and `PostedOnce`. A claimed entry is due ahead of the clock as long as its tick
    lives (`ClaimIsAhead`), so that no other tick finds its date as read (`OneHolder`); what is not marked
    as sent was posted only by ticks that failed (`UnsentIsFaulty`).
  - credentials: `NobodyLockedOut` when no purchase or class meets a tick that holds its user
    (`~Overlapping`): one tick holds a user (`OneTickClaims`), and whoever is about to mark a row
    has set and told the password that is current (`TickTells`, `AttemptTells`).
  - surveys: `MannersKept` with one sweeper (`OneSweeper`) and `Punctual`, for any number of texts and votes
    in flight. That nothing goes out without a yes, and one thanks, hold through faults (`YesBefore`,
    `Blank`, `ThanksMarked`); what follows a no holds as long as no process died (`Orderly`): the
    invariant places every writer before the refusal, or past the point where it
    would act against it (`Before`, `Standing`, `Telling`).
  - sessions: `SessionsFollowAccount`. What a cache keeps of an account that changed expires by the
    change plus the cache's seconds (`StaleRunsOut`), because a stale answer was asked for before the
    change (`JobsHeld`); a credential of the current version is of its password, or was made of one
    that was accepted before those seconds were over (`OfVersion`, `Crossed`).
  - new passwords: `CodesRunOut`. What was spent is dead (`SpentIsDead`), a request about to set a password
    holds a row that had not been spent when it began (`RequestsHeld`), and the attempts of a code with
    those about to be counted have room (`AttemptsHaveRoom`, an argument about cardinalities).
  - tenants: `TenantFollowsAccount` when no event comes while a call is under way: a call fits what the
    columns and the tenant are (`CallsFit`, `ColumnsFollow`).
  - curriculum: `OrderIsSaved`, for any number of items. Only one request is under way (`OneEdit`), and the
    page agrees with the tables whenever it is not to be corrected (`PageAgrees`); a request relies
    on that page, on the last place it read (`ComesLast`), or on having shown the order it is to save
    (`OrdersShown`). `DraggedList` is what the drag's sequence operations do to a list,
    `LoadedAgrees` that any view the database may give agrees with the tables.
* `MemberAreaProofs`, of the parts of `MCMemberArea`:
  - courses: `TypeOK`, and `BuyerHasCourse` as long as an enrolment is not served during another grant:
    what an enrolment read is then still the row, or the row is gone (`ReadHolds`), and a
    sale enters the books with the right given (`GrantedBeforeBooks`).
  - support: `AlertedOnce`, for any messages, sessions and deletions.
  - video: `ServedIsWhole`, of what was converted, when nothing is removed while it is worked on (`~Hasty`).
  - chat: `SentStaysVisible`, whatever snapshots come and however late.
  - prospecting: `ShownIsWhole` when a search waits for the answers about the last one (`~Hasty`).
  - removal from the group: `TypeOK`, from what the filter of a queue returns (`OnlyTyped`: `Only` is a
    recursive function, and that its recursion has a solution is proved by a least counterexample);
    `RenewedStays` when no phone has two accounts (`Shared = {}`), so that the second account is the
    one cause of the finding.
* `LeadFunnelProofs`: `TypeOK`; `ContactedOnce` with one process for the remarketing, which has a flag of its
  own, and one tick of the welcome at a time (`~Overlapping`), which nothing in the code sees to. Nobody is twice in a batch (`NoneTwice`),
  and the visits and lost outcomes of a person cover the messages sent and the one that a batch still
  holds for them (`VisitsSuffice`, `WelcomesSuffice`).

**Of the composites.** A step of a composite is a step of each part, or none (`PartsMove`). So what is
proved of the parts holds of the specifications that TLC runs, all at once and for every value of
their constants: `ServicesHold` and `MemberAreaHolds` (each with its `MCTypeOK`) and `FunnelHolds`, under the premises
that their configurations choose: one sweeper, one process for the funnel, `~Overlapping`, `~Hasty`, and in
`MCServices` itself `Prompt` and `Punctual`.
What a part assumes of its constants is a named `ASSUME` of the composite, which TLC evaluates.

**Only model-checked.** Liveness (`PaidGetsAccess`, `ExpiredIsBlocked`, `LapsedLeave`,
`ConversionEnds`, `QueueRecovered`) needs fairness and ENABLED, out of the prover's reach. Every
invariant and every action property that a passing run checks is stated by a theorem. Induction
over data is replaced where it was needed, for sums and for the filter of a queue, by least
counterexamples, which need no induction theorem. What the theorems leave open is said by their
premises: with two reviewers, overlapping handlings or calls, or hasty users, `findings` and the
notes of `hazards` tell what fails.

## 5. What is not modelled

Amounts are naturals and the amount of a row is a constant: floating point, fees, percentages
and rounding are the unit tests' (`src/backend/tests/money-math.test.ts`, `partner.test.ts`,
`fees.test.ts`). Texts, templates, push, metadata, the contents of log rows and the
calls of the webhook to Meta change no state a property speaks of; its call to Komunika is in
`KomunikaTenant` and not in `OrderWebhook`. A buyer
is found by e-mail and phone, here by identity. Reconciliation batches are sequences of single
orders, picked in any order.

Whole components that are left out:

* coproducers, dashboards, reports, the presentation of landing pages, most of the administration panel and of the
  frontend: one query per request, or presentation;
* onboarding nudges, which are switched off in `jobs/cron.ts`, and push;
* fees, tracking and attribution.

Within the components that are modelled, `components` in `PROJECT.json` says what is left out of each.

## 6. Plan

What would come next, in this order:

1. The composition of `OrderWebhook` with the account of `Membership`: a buyer who changes the
   gateway while the nightly check runs.
2. The community channel of the chat, with polls and pins, over the same stream as `Chat`.
3. Calls to Komunika that overlap: which order of events the code would have to keep for the tenant to
   follow the account.
