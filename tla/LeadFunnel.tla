----------------------------- MODULE LeadFunnel -----------------------------
(***************************************************************************)
(* People who left their number and have not paid (landing.routes.ts,      *)
(* lp.routes.ts, contentPage.routes.ts), and the two ticks of cron.ts that *)
(* write to them: the remarketing, which reads a batch and works through   *)
(* it with minutes between two messages, and the welcome of the readers.   *)
(* A person is one account; accounts are numbered as they are created.     *)
(* Time is what the filters tell apart: updatedAt is new, or older than the *)
(* minutes they ask for. The 45 days of the window do not end here, nor    *)
(* does the night, in which no welcome is sent.                            *)
(***************************************************************************)
EXTENDS Integers, Sequences, SequencesExt, Functions

CONSTANTS Size,            \* accounts are 1..Size
          Unreachable,     \* those whose number accepts no message
          Readers,         \* those who fill in the forms of contents and reels
          Buyers,          \* those who pay
          Processes,
          WelcomeTicks,    \* bound: ticks of the welcome at work at the same time
          Overlapping,     \* a tick of the welcome may come while another is at work
          PerRun,          \* REMKT_PER_RUN: 3
          MaxAsked,        \* bound: times people come to the funnel, all together
          MaxUnsure,       \* bound: messages whose outcome is not recorded
          MaxBreaks,       \* bound: batches that break
          None

ASSUME FunnelAssumption ==
    /\ Size \in Nat /\ PerRun \in Nat /\ MaxBreaks \in Nat
    /\ None \notin 1..Size

VARIABLES
    lead,        \* the account's columns
    batch,       \* contacts the remarketing tick of a process has yet to make
    sent,        \* the first of them went out and its stage is yet to be written
    greeting,    \* whom a tick of the welcome has found
    greeted,     \* the welcome went out and is yet to be written
    cancelling,  \* of whom an order.cancelled has read and checked the row
    asked,       \* times a person came to be written to (history)
    contacts,    \* remarketing messages a person got (history)
    welcomes,    \* welcomes a person got (history)
    unsure,      \* messages to a person whose outcome was lost (history)
    breaks

history == <<asked, contacts, welcomes, unsure, breaks>>
remarketing == <<batch, sent>>
welcoming == <<greeting, greeted>>
vars == <<lead, cancelling, remarketing, welcoming, history>>

People == 1..Size

\* A "student" bought a course and has no plan: subscriptionStatus is 'lead'.
Statuses == {"none", "lead", "student", "active", "lapsed"}
Stages == {"none", "checkout_pending", "visitor_sent", "checkout_failed_sent"}

\* A source "" is a leadSource that is null.
Nobody == [status |-> "none", source |-> "", stage |-> "none", quiet |-> FALSE, welcome |-> "no"]

Exists(l) == lead[l].status # "none"
MayAppear(l) == ~Exists(l) /\ \A m \in 1..(l - 1) : Exists(m)

Init ==
    /\ lead = [l \in People |-> Nobody]
    /\ batch = [p \in Processes |-> <<>>]
    /\ sent = [p \in Processes |-> FALSE]
    /\ greeting = [t \in WelcomeTicks |-> None]
    /\ greeted = [t \in WelcomeTicks |-> FALSE]
    /\ cancelling = {}
    /\ asked = [l \in People |-> 0]
    /\ contacts = [l \in People |-> 0]
    /\ welcomes = [l \in People |-> 0]
    /\ unsure = [l \in People |-> 0]
    /\ breaks = 0

-----------------------------------------------------------------------------
(* What people do *)

\* Any update renews updatedAt. Whoever comes to a stage in which the tick
\* looks for people asked to be written to once more.
Save(l, row, invites) ==
    /\ ~invites \/ FoldFunction(+, 0, asked) < MaxAsked
    /\ lead' = [lead EXCEPT ![l] = [row EXCEPT !.quiet = FALSE]]
    /\ asked' = IF invites THEN [asked EXCEPT ![l] = @ + 1] ELSE asked
    /\ UNCHANGED <<remarketing, welcoming, contacts, welcomes, unsure, breaks>>

\* POST /landing/lead: a person known by the e-mail starts anew; the page posts
\* it again by itself as long as it has no checkout link.
SalesForm(l) ==
    \/ /\ MayAppear(l)
       /\ Save(l, [Nobody EXCEPT !.status = "lead"], TRUE)
    \/ /\ Exists(l)
       /\ Save(l, [lead[l] EXCEPT !.stage = "none"], lead[l].stage # "none")

\* POST /content/lead: as the landing page, with the source if there is none,
\* and a welcome if there was none.
ContentForm(l) ==
    \/ /\ MayAppear(l)
       /\ Save(l, [Nobody EXCEPT !.status = "lead", !.source = "content", !.welcome = "waits"], FALSE)
    \/ /\ Exists(l)
       /\ Save(l, [lead[l] EXCEPT !.stage = "none",
                                  !.source = IF @ = "" THEN "content" ELSE @,
                                  !.welcome = IF @ = "no" THEN "waits" ELSE @], FALSE)

\* POST /lp/lead leaves the stage alone.
ReelsForm(l) ==
    \/ /\ MayAppear(l)
       /\ Save(l, [Nobody EXCEPT !.status = "lead", !.source = "reels"], FALSE)
    \/ /\ Exists(l)
       /\ Save(l, [lead[l] EXCEPT !.source = IF @ = "" THEN "reels" ELSE @], FALSE)

\* processCourseSale opens an account for a buyer who has none.
BuysCourse(l) ==
    /\ MayAppear(l)
    /\ Save(l, [Nobody EXCEPT !.status = "student"], TRUE)

\* POST /landing/checkout-click asks for no status.
CheckoutClick(l) ==
    /\ Exists(l)
    /\ Save(l, [lead[l] EXCEPT !.stage = "checkout_pending"], lead[l].stage # "checkout_pending")

\* order.cancelled reads the row: neither an active member nor who was written to.
CancellationRead(l) ==
    /\ MayAppear(l) \/ /\ lead[l].status \notin {"none", "active"}
                       /\ lead[l].stage # "checkout_failed_sent"
    /\ cancelling' = cancelling \cup {l}
    /\ UNCHANGED <<lead, remarketing, welcoming, history>>

\* It writes the stage whatever the row has become, or makes a lead.
OrderCancelled(l) ==
    /\ l \in cancelling
    /\ cancelling' = cancelling \ {l}
    /\ \/ /\ MayAppear(l)
          /\ Save(l, [Nobody EXCEPT !.status = "lead", !.stage = "checkout_pending"], TRUE)
       \/ /\ Exists(l)
          /\ Save(l, [lead[l] EXCEPT !.stage = "checkout_pending"],
                  lead[l].stage # "checkout_pending")

\* order.approved of the plan.
Pays(l) ==
    /\ Exists(l) \/ MayAppear(l)
    /\ Save(l, [lead[l] EXCEPT !.status = "active", !.stage = "none"], FALSE)

Lapses(l) ==
    /\ lead[l].status = "active"
    /\ Save(l, [lead[l] EXCEPT !.status = "lapsed"], FALSE)

\* Half an hour.
Elapse ==
    /\ lead' = [l \in People |->
                  [lead[l] EXCEPT !.quiet = Exists(l),
                                  !.welcome = IF @ = "waits" THEN "due" ELSE @]]
    /\ UNCHANGED <<cancelling, remarketing, welcoming, history>>

-----------------------------------------------------------------------------
(* Remarketing *)

Checkouts == {l \in People : /\ lead[l].status \notin {"none", "active"}
                             /\ lead[l].quiet
                             /\ lead[l].stage = "checkout_pending"}

Visitors == {l \in People : /\ lead[l].status \in {"lead", "student"}
                            /\ lead[l].source = ""
                            /\ lead[l].quiet
                            /\ lead[l].stage = "none"}

\* orderBy createdAt desc, take n: the newest first, and nobody newer left out.
NewestFirst(people, n) ==
    {s \in SeqOf(people, n) :
        /\ \A i, k \in DOMAIN s : i < k => s[i] > s[k]
        /\ \A l \in people \ ToSet(s) : Len(s) = n /\ \A i \in DOMAIN s : s[i] > l}

\* Mutant: only the newest is taken.
NewestOne(people, n) == NewestFirst(people, IF n = 0 THEN 0 ELSE 1)

Newest(people, n) == NewestFirst(people, n)

As(kind, people) == [i \in DOMAIN people |-> [who |-> people[i], kind |-> kind]]

\* remarketingRunning: a process has one batch at a time. Checkouts come first.
\* The two lists are read at once.
StartBatch(p) ==
    /\ batch[p] = <<>>
    /\ \E first \in Newest(Checkouts, PerRun) :
          \E others \in Newest(Visitors, PerRun - Len(first)) :
              /\ first # <<>> \/ others # <<>>
              /\ batch' = [batch EXCEPT ![p] = As("checkout", first) \o As("visitor", others)]
    /\ UNCHANGED <<lead, cancelling, sent, welcoming, history>>

NextContact(p) == batch' = [batch EXCEPT ![p] = Tail(@)]
ToContact(p, l) == batch[p] # <<>> /\ ~sent[p] /\ Head(batch[p]).who = l

\* Either the SDR assistant or, while it does not deliver, the model message; it
\* counts when the gateway takes it.
Delivered(p, l) ==
    /\ ToContact(p, l)
    /\ l \notin Unreachable
    /\ contacts' = [contacts EXCEPT ![l] = @ + 1]
    /\ sent' = [sent EXCEPT ![p] = TRUE]
    /\ UNCHANGED <<lead, cancelling, batch, welcoming, asked, welcomes, unsure, breaks>>

LosesCount(l) ==
    /\ FoldFunction(+, 0, unsure) < MaxUnsure
    /\ unsure' = [unsure EXCEPT ![l] = @ + 1]

\* An attempt goes out and its answer is lost: the model message is tried again, the
\* assistant's conversation counts as failed.
Unanswered(p, l) ==
    /\ ToContact(p, l)
    /\ l \notin Unreachable
    /\ contacts' = [contacts EXCEPT ![l] = @ + 1]
    /\ LosesCount(l)
    /\ UNCHANGED <<lead, cancelling, remarketing, welcoming, asked, welcomes, breaks>>

\* No attempt was answered.
NotDelivered(p, l) ==
    /\ ToContact(p, l)
    /\ NextContact(p)
    /\ UNCHANGED <<lead, cancelling, sent, welcoming, history>>

SentStage == [visitor |-> "visitor_sent", checkout |-> "checkout_failed_sent"]

\* Mutant: only the visitors' stage is written.
VisitorAdvanced(p) ==
    LET l == Head(batch[p]).who
    IN  IF Head(batch[p]).kind = "visitor"
          THEN [lead[l] EXCEPT !.stage = "visitor_sent", !.quiet = FALSE] ELSE lead[l]

Advanced(p) ==
    [lead[Head(batch[p]).who] EXCEPT !.stage = SentStage[Head(batch[p]).kind], !.quiet = FALSE]

\* Whatever the row has become meanwhile. The pause follows.
WriteStage(p) ==
    /\ sent[p]
    /\ lead' = [lead EXCEPT ![Head(batch[p]).who] = Advanced(p)]
    /\ sent' = [sent EXCEPT ![p] = FALSE]
    /\ NextContact(p)
    /\ UNCHANGED <<cancelling, welcoming, history>>

\* The update fails, which ends the batch, or the process dies.
BatchBreaks(p) ==
    /\ batch[p] # <<>>
    /\ breaks < MaxBreaks
    /\ breaks' = breaks + 1
    /\ IF sent[p] THEN LosesCount(Head(batch[p]).who) ELSE UNCHANGED unsure
    /\ batch' = [batch EXCEPT ![p] = <<>>]
    /\ sent' = [sent EXCEPT ![p] = FALSE]
    /\ UNCHANGED <<lead, cancelling, welcoming, asked, contacts, welcomes>>

-----------------------------------------------------------------------------
(* Welcome: at most one person a tick *)

FindReader(t, l) ==
    /\ greeting[t] = None
    /\ Overlapping \/ \A u \in WelcomeTicks : greeting[u] = None
    /\ lead[l].welcome = "due"
    /\ greeting' = [greeting EXCEPT ![t] = l]
    /\ UNCHANGED <<lead, cancelling, remarketing, greeted, history>>

ToGreet(t, l) == greeting[t] = l /\ ~greeted[t]

\* sendWhatsAppMessage: an attempt is answered ...
WelcomeDelivered(t, l) ==
    /\ ToGreet(t, l)
    /\ l \notin Unreachable
    /\ welcomes' = [welcomes EXCEPT ![l] = @ + 1]
    /\ greeted' = [greeted EXCEPT ![t] = TRUE]
    /\ UNCHANGED <<lead, cancelling, remarketing, greeting, asked, contacts, unsure, breaks>>

\* ... or it goes out, its answer is lost and it is tried again.
WelcomeUnanswered(t, l) ==
    /\ ToGreet(t, l)
    /\ l \notin Unreachable
    /\ welcomes' = [welcomes EXCEPT ![l] = @ + 1]
    /\ LosesCount(l)
    /\ UNCHANGED <<lead, cancelling, remarketing, welcoming, asked, contacts, breaks>>

EndTick(t) ==
    /\ greeting' = [greeting EXCEPT ![t] = None]
    /\ greeted' = [greeted EXCEPT ![t] = FALSE]

\* newsletterWelcomeSentAt.
Greet(t, l) ==
    /\ greeting[t] = l /\ greeted[t]
    /\ lead' = [lead EXCEPT ![l].welcome = "sent", ![l].quiet = FALSE]
    /\ EndTick(t)
    /\ UNCHANGED <<cancelling, remarketing, history>>

\* No attempt was answered: newsletterWelcomeDueAt is half an hour later.
Postpone(t, l) ==
    /\ ToGreet(t, l)
    /\ lead' = [lead EXCEPT ![l].welcome = IF @ = "sent" THEN @ ELSE "waits",
                            ![l].quiet = FALSE]
    /\ EndTick(t)
    /\ UNCHANGED <<cancelling, remarketing, history>>

\* The update fails, or the process dies.
WelcomeBreaks(t, l) ==
    /\ greeting[t] = l
    /\ IF greeted[t] THEN LosesCount(l) ELSE UNCHANGED unsure
    /\ EndTick(t)
    /\ UNCHANGED <<lead, cancelling, remarketing, asked, contacts, welcomes, breaks>>

-----------------------------------------------------------------------------
Person(l) == \/ SalesForm(l) \/ CheckoutClick(l)
             \/ l \in Readers /\ (ContentForm(l) \/ ReelsForm(l))
             \/ l \in Buyers /\ (BuysCourse(l) \/ Pays(l) \/ Lapses(l))

Remarketing(p) == \/ StartBatch(p) \/ WriteStage(p) \/ BatchBreaks(p)
                  \/ \E l \in People : Delivered(p, l) \/ Unanswered(p, l) \/ NotDelivered(p, l)

Welcome(t, l) == \/ FindReader(t, l) \/ WelcomeDelivered(t, l) \/ WelcomeUnanswered(t, l)
                 \/ Greet(t, l) \/ Postpone(t, l) \/ WelcomeBreaks(t, l)

Next ==
    \/ \E l \in People : (Person(l) /\ UNCHANGED cancelling) \/ CancellationRead(l) \/ OrderCancelled(l)
    \/ \E p \in Processes : Remarketing(p)
    \/ \E t \in WelcomeTicks, l \in People : Welcome(t, l)
    \/ Elapse

\* The ticks keep coming, a batch goes on unless it breaks, and a number that
\* accepts messages is not refused for ever.
GoesOn(p) == WriteStage(p) \/ \E l \in People : NotDelivered(p, l)

Fairness ==
    \A p \in Processes :
        /\ SF_vars(StartBatch(p))
        /\ WF_vars(GoesOn(p))
        /\ \A l \in People \ Unreachable : SF_vars(Delivered(p, l))

Spec == Init /\ [][Next]_vars /\ Fairness

-----------------------------------------------------------------------------
(* Properties *)

\* The state is what the columns and the ticks can hold; a batch is within its cap.
TypeOK ==
    /\ lead \in [People -> [status : Statuses, source : {"", "content", "reels"},
                            stage : Stages, quiet : BOOLEAN,
                            welcome : {"no", "waits", "due", "sent"}]]
    /\ batch \in [Processes -> SeqOf([who : People, kind : {"visitor", "checkout"}], PerRun)]
    /\ sent \in [Processes -> BOOLEAN]
    /\ greeting \in [WelcomeTicks -> People \cup {None}]
    /\ greeted \in [WelcomeTicks -> BOOLEAN]
    /\ cancelling \subseteq People
    /\ asked \in [People -> Nat] /\ unsure \in [People -> Nat]
    /\ contacts \in [People -> Nat] /\ welcomes \in [People -> Nat]
    /\ breaks \in 0..MaxBreaks

\* "Each lead is contacted ONCE": once for each time it came to the funnel, and
\* once more for each message whose outcome was lost, whatever the lead does
\* while the batch it is in waits. The welcome goes out once in a life, if each
\* tick of it ends before the next one comes (~Overlapping).
ContactedOnce ==
    \A l \in People :
        /\ contacts[l] <= asked[l] + unsure[l]
        /\ welcomes[l] <= 1 + unsure[l]

\* "Now it is eligible again and recovered": whoever the tick looks for, and can
\* be reached, is written to in the end or no longer looked for.
Recovered ==
    \A l \in People \ Unreachable :
        (l \in Checkouts \cup Visitors) ~> (l \notin Checkouts \cup Visitors)

\* "On capture we schedule a ONE-TIME welcome" (schema.prisma, lines 148-149). It does
\* not hold where a tick comes while another is at work: nothing keeps them apart.
WelcomedOnce == \A l \in People : welcomes[l] <= 1 + unsure[l]

\* "Each lead is contacted ONCE - the wide window makes no spam" (cron.ts, line
\* 353), read as it stands. It does not hold: the form opens the funnel again.
OnceInAll == \A l \in People : contacts[l] <= 1 + unsure[l]

\* "Only who filled in the form of the SALES landing page and did not buy" is
\* written to as a visitor (cron.ts, line 422). It does not hold of who buys a
\* course, or buys the plan while the batch waits.
VisitorsOnly ==
    [][\A p \in Processes, l \in People :
         Delivered(p, l) /\ Head(batch[p]).kind = "visitor" => lead[l].status = "lead"]_vars
=============================================================================
