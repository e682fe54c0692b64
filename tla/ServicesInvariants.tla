-------------------------- MODULE ServicesInvariants --------------------------
(*************************************************************************)
(* The inductive invariants of the parts of MCServices: for each, what keeps *)
(* its promises from one step to the next, in named conjuncts. They are  *)
(* proved in ServicesProofs.                                             *)
(*************************************************************************)
EXTENDS MCServices, Sequences

-----------------------------------------------------------------------------
(* The queues of the group *)

\* Where a tick has an entry in hand, and where it has claimed it.
Taken == {"claim", "check", "send", "sent"}
HoldsEntry == {"check", "send", "sent"}

\* A failed entry that is still pending has attempts left, and so had any copy of it.
AttemptsLeft ==
    /\ \A e \in Group!Entries : entry[e].status = "pending" => entry[e].attempts < MaxAttempts
    /\ \A p \in Processes : posting[p].read.attempts < MaxAttempts

\* A tick past its look has an entry in hand, which was due when it was read.
InHand ==
    \A p \in Processes :
        posting[p].at \in Taken => Group!Item(p) \in Group!Entries /\ posting[p].read.due <= now

GroupTypes == Group!TypeOK /\ AttemptsLeft /\ InHand

\* A claimed entry is not due before the tick that claimed it has returned, and
\* was not posted as "sent".
ClaimIsAhead ==
    \A p \in Processes :
        posting[p].at \in HoldsEntry =>
            /\ entry[Group!Item(p)].due = now + Group!ClaimFor
            /\ entry[Group!Item(p)].status \notin {"none", "sent"}

\* Two ticks do not hold one entry.
OneHolder ==
    \A p, q \in Processes :
        /\ posting[p].at \in HoldsEntry /\ posting[q].at \in HoldsEntry
        /\ Group!Item(p) = Group!Item(q)
        => p = q

\* An entry that is not marked as sent and that no tick is about to mark was posted
\* only by ticks that died or lost the reply.
UnsentIsFaulty ==
    \A e \in Group!Entries :
        /\ entry[e].status # "sent"
        /\ \A p \in Processes : ~(posting[p].at = "sent" /\ Group!Item(p) = e)
        => posted[e] <= groupFaults

GroupInv == GroupTypes /\ ClaimIsAhead /\ OneHolder /\ UnsentIsFaulty /\ PostedOnce

\* A row whose attempts and status are written anew.
Rewritten(r, n, s) == [r EXCEPT !.attempts = n, !.status = s]

-----------------------------------------------------------------------------
(* The page of a broadcast *)

Over(j) == followed[j] \in Panel!Server!Ended

\* A page that is closed, or that waits to hear of the active job, shows nothing.
BlankPage ==
    /\ watched = 0 /\ ~polling /\ ~sending /\ ~completed
    /\ answers = {} /\ replies = {} /\ ends = [j \in Panel!Jobs |-> 0]

ClosedIsBlank == panel = "closed" => BlankPage
WaitingIsBlank == active # Panel!NotAsked => BlankPage /\ sent = 0

\* While a send is under way nothing is heard of the job watched before.
SendingIsQuiet ==
    sent # 0 /\ panel = "open" =>
        /\ ~polling /\ ~completed /\ answers = {} /\ replies = {}
        /\ sent # watched /\ ends[sent] = 0

\* What is under way is about the job that is watched, and says the end only of a
\* job that has ended.
AnswersTellTruth ==
    \A a \in answers \cup replies : a[1] = watched /\ (a[2] \in Panel!Server!Ended => Over(a[1]))

\* The jobs that are named exist.
Known(j) == j = 0 \/ (j \in Panel!Jobs /\ followed[j] # "none")
JobsExist == Known(watched) /\ Known(stored) /\ Known(sent) /\ Known(active.job)

PollingShown == polling => panel = "open" /\ sending /\ watched # 0

\* completedRef stands for the job that is watched.
EndsCounted ==
    /\ \A j \in Panel!Jobs : ends[j] <= 1 /\ (ends[j] > 0 => Over(j))
    /\ polling \/ answers # {} \/ replies # {} => completed \/ ends[watched] = 0

NotGivenUp ==
    /\ watched # 0 /\ ~polling => Over(watched)
    /\ sending => polling \/ sent # 0
    /\ stored # 0 => polling \/ panel = "closed"

PanelInv ==
    /\ Panel!TypeOK /\ ClosedIsBlank /\ WaitingIsBlank /\ SendingIsQuiet /\ AnswersTellTruth
    /\ JobsExist /\ PollingShown /\ EndsCounted /\ NotGivenUp

\* What a step of the jobs leaves: those that ended and those that exist stay so.
JobsStay ==
    /\ followed' \in [Panel!Jobs -> Panel!Server!JobStatus]
    /\ \A j \in Panel!Jobs : /\ Over(j) => Over(j)'
                             /\ followed[j] # "none" => followed'[j] # "none"

AllMoves == Panel!Server!Launch \cup Panel!Server!Pause \cup Panel!Server!Resume
            \cup Panel!Server!Stop \cup Panel!Server!Fail \cup Panel!Server!Finish

-----------------------------------------------------------------------------
(* Credentials *)

Claimed == {"quota", "rotate", "send", "bump", "sent", "failed"}

\* A row that is pending has attempts left, and so had any copy of it; a tick past
\* its look has a user in hand.
DeliveryTypes ==
    /\ Delivery!TypeOK
    /\ \A u \in Users : row[u].status = "pending" => row[u].attempts < Delivery!GiveUpAfter
    /\ \A p \in Processes :
          /\ worker[p].read.attempts < Delivery!GiveUpAfter
          /\ worker[p].at # "idle" => worker[p].user \in Users

\* One tick has a user, whose row waits for the end of the claim; a copy that is
\* about to be claimed is of a row that was due.
OneTickClaims ==
    /\ \A p \in Processes :
          /\ worker[p].at \in Claimed => /\ row[worker[p].user].status = "pending"
                                         /\ row[worker[p].user].due = Delivery!ClaimFor
          /\ worker[p].at = "claim" => worker[p].read.due = 0
    /\ \A p, q \in Processes :
          worker[p].at \in Claimed /\ worker[q].at \in Claimed /\ worker[p].user = worker[q].user
              => p = q

\* A tick and a purchase or class do not meet.
TicksApart == \A p \in Processes : worker[p].at # "idle" => ~Delivery!AtWebhook(worker[p].user)

\* Who is about to be marked knows the password.
TickTells ==
    \A p \in Processes :
        /\ worker[p].at = "send" => setBy[worker[p].user] = p
        /\ worker[p].at \in {"bump", "sent"} => worker[p].user \in knows

AttemptTells ==
    \A u \in Users :
        /\ buying[u] # "no" => setBy[u] = "web"
        /\ buying[u] \in {"textMailed", "markText", "markMail"} => u \in knows

\* A class waits to write a row that has not been sent.
ClassUnsent == \A u \in Users : queueing[u] = "class" => row[u].status # "sent" /\ buying[u] = "no"

DeliveryInv ==
    /\ DeliveryTypes /\ OneTickClaims /\ TicksApart /\ TickTells /\ AttemptTells /\ ClassUnsent
    /\ NobodyLockedOut

-----------------------------------------------------------------------------
(* The survey *)

\* One process runs the ticks.
OneSweeper == \A p, q \in Sweepers : p = q

SweepPoint == {"idle", "unpause", "window", "silence", "silent", "askSilent", "ttl", "advance",
               "pause", "watch", "poll", "record", "defer", "due", "skip", "open", "opened",
               "mail", "mailed", "openAsk", "openedAsk"}
SweepState == [at : SweepPoint, question : 0..Questions, streak : 0..2, overdue : BOOLEAN,
               moved : BOOLEAN]
TextPoint == {"idle", "claim", "refuse", "cancel", "revive", "restore", "claimAsk", "ask",
              "unask", "refuseAsk", "capture", "thank"}
TextState == [at : TextPoint, what : {"none", "yes", "no", "other"}]
VoteState == [at : {"idle", "record", "count", "complete", "resume"}, poll : 0..Questions,
              read : Asked!FeedbackStatus \cup {"none"}]
WebState == [at : {"idle", "store"}, window : BOOLEAN, known : SUBSET Asked!Polls]
Asks == {"polls", "ask"}
SaidState == [agreed : SUBSET Asks, refused : SUBSET Asks, misheard : BOOLEAN]

Underway == {"in_progress", "paused"}

Said == {"poll", "consent", "ask", "stored", "mail", "after a no"}

\* A session counts a silent poll at most before the second one pauses it; a vote that
\* resumes one found it under way.
SurveyFine == /\ survey \in Asked!Survey
              /\ survey.feedback = "in_progress" => survey.streak <= 1
SweepFine == /\ sweep \in [Sweepers -> SweepState]
             /\ \A p \in Sweepers :
                   /\ sweep[p].at \in {"poll", "record", "watch"} => sweep[p].streak <= 1
                   /\ sweep[p].at \in {"poll", "record"} => sweep[p].question < Questions
VoteFine == /\ vote \in [Votes -> VoteState]
            /\ \A v \in Votes : /\ vote[v].at # "idle" => vote[v].poll \in Asked!Polls
                                /\ vote[v].at = "resume" => vote[v].read \in Underway

SurveyTypes ==
    /\ SurveyFine /\ SweepFine /\ VoteFine
    /\ response \in [Asked!Polls -> {"none", "sent", "answered"}]
    /\ eligible \in BOOLEAN
    /\ text \in [Texts -> TextState]
    /\ web \in WebState
    /\ said \in SaidState
    /\ surveyFaults \in 0..MaxFaults
    /\ told \subseteq Said
    /\ thanks \in Nat

\* Where the tick of that process is, what texts are worked on, and whether a vote found
\* a session.
Ticking == IF Sweepers = {} THEN "idle" ELSE sweep[CHOOSE p \in Sweepers : TRUE].at
Late == Sweepers # {} /\ sweep[CHOOSE p \in Sweepers : TRUE].overdue
Handles(point) == \E h \in Texts : text[h].at = point
NoneRefused == "polls" \notin said.refused /\ "ask" \notin said.refused
VotedEarlier == \E v \in Votes : vote[v].read \in Underway

Agreeing == Handles("claim") \/ Handles("refuse")
Reviving == Handles("revive") \/ Handles("restore")
Requested == Handles("claimAsk") \/ Handles("refuseAsk")
Asking == Handles("ask") \/ Handles("unask")
Storing == Handles("capture") \/ Handles("thank")

\* There was a yes before a session, and before a request for suggestions.
YesBefore ==
    /\ \/ survey.feedback \in Underway
       \/ Handles("claim") \/ Handles("revive")
       \/ Ticking = "poll"
       \/ VotedEarlier
       \/ "poll" \in told
       => "polls" \in said.agreed \/ "ask" \in said.agreed
    /\ \/ survey.suggestion = "awaiting_reply"
       \/ survey.suggestion = "completed" /\ survey.window
       \/ Handles("claimAsk") \/ Handles("ask") \/ Storing
       \/ "ask" \in told \/ "stored" \in told
       => "ask" \in said.agreed

\* Before there is a row nothing is under way.
Blank ==
    survey.feedback = "none" =>
        /\ told = {} /\ survey.suggestion = "none" /\ survey.channel = "none"
        /\ ~survey.started /\ ~survey.window /\ thanks = 0
        /\ Ticking = "idle"
        /\ ~(Agreeing \/ Handles("cancel") \/ Reviving \/ Requested \/ Asking \/ Storing)
        /\ \A q \in Asked!Polls : response[q] = "none"
        /\ \A v \in Votes : vote[v].at = "idle"
        /\ web.at = "idle"

ThanksMarked == thanks = 0 \/ (thanks = 1 /\ survey.thanked)

\* Before the question for consent nobody has answered on WhatsApp.
NotStarted ==
    ~survey.started =>
        /\ survey.feedback \in {"none", "scheduled", "skipped", "awaiting_web", "completed"}
        /\ survey.suggestion \in {"none", "scheduled", "skipped", "awaiting_web", "completed"}
        /\ ~survey.window /\ survey.channel # "whatsapp"
        /\ ~(Agreeing \/ Handles("cancel") \/ Reviving \/ Requested \/ Asking \/ Storing)
        /\ NoneRefused
        /\ ~VotedEarlier

\* What a tick is about to open is not opened, and what it asks for was neither asked
\* for nor refused.
Opening ==
    /\ survey.feedback = "scheduled" =>
          /\ ~survey.started /\ survey.channel = "none"
          /\ survey.suggestion \in {"scheduled", "skipped", "completed"}
    /\ Ticking \in {"open", "opened", "mail", "mailed"} =>
          /\ ~survey.started /\ survey.channel = "none"
          /\ survey.feedback \in {"scheduled", "completed"}
          /\ survey.suggestion \in {"scheduled", "skipped", "completed"}

AskingNext ==
    Ticking \in {"openAsk", "openedAsk", "skip"} =>
        /\ survey.suggestion \in {"scheduled", "skipped", "completed"}
        /\ ~survey.window
        /\ survey.feedback # "awaiting_consent"
        /\ NoneRefused
        /\ ~(Handles("cancel") \/ Asking \/ Storing)

\* Whom a tick found to have answered nothing was not asked for suggestions.
Unasked ==
    Ticking = "unpause" /\ Late =>
        /\ survey.suggestion \in {"scheduled", "skipped", "completed"}
        /\ ~survey.window /\ "ask" \notin said.refused /\ ~Asking /\ ~Storing

AskStarted == Ticking \in {"openAsk", "openedAsk"} => survey.started

\* While the question for consent stands nothing else was asked or answered.
Consenting ==
    survey.feedback = "awaiting_consent" =>
        /\ NoneRefused /\ ~VotedEarlier
        /\ survey.suggestion \in {"scheduled", "skipped", "completed"} /\ ~survey.window
        /\ ~(Handles("cancel") \/ Reviving \/ Requested \/ Asking \/ Storing)
        /\ Ticking \notin {"pause", "watch", "poll", "record", "defer"}

AskConsenting ==
    survey.suggestion = "awaiting_consent" =>
        /\ survey.started
        /\ NoneRefused
        /\ ~(Handles("cancel") \/ Asking \/ Storing)

\* What follows from a no.
PollsRefused ==
    "polls" \in said.refused =>
        /\ survey.started
        /\ survey.feedback \in {"declined", "completed"}
        /\ survey.suggestion \in {"scheduled", "skipped", "completed"} /\ ~survey.window
        /\ survey.suggestion = "scheduled" => Handles("cancel")
        /\ ~(Reviving \/ Requested \/ Asking \/ Storing)
        /\ Ticking \notin {"pause", "watch", "poll", "record", "defer"}
        /\ ~VotedEarlier

AskRefused ==
    "ask" \in said.refused =>
        /\ survey.started
        /\ survey.suggestion \in {"declined", "completed"} /\ ~survey.window

\* A text that is worked on came before any no.
Handled ==
    /\ Asking \/ Storing => NoneRefused
    /\ Asking \/ Storing =>
          survey.suggestion \in {"awaiting_reply", "expired", "completed"}
    /\ Asking => survey.fresh /\ ~Storing

\* One text at most won the yes to the request.
OneAsks == \A h, k \in Texts : text[h].at \in {"ask", "unask"} /\ text[k].at \in {"ask", "unask"}
                                  => h = k

WindowOpen ==
    survey.window => survey.suggestion \in {"awaiting_consent", "awaiting_reply", "completed",
                                            "expired"}

\* The mail goes out instead of the question.
ChannelChosen ==
    /\ "consent" \in told => Ticking = "opened" \/ survey.started
    /\ "mail" \in told => Ticking = "mailed" \/ (~survey.started /\ survey.channel = "email")

\* All of this as long as no process died and no outcome was lost.
Before == surveyFaults = 0 => NotStarted /\ Opening /\ AskingNext /\ AskStarted /\ Unasked
Standing == surveyFaults = 0 => Consenting /\ AskConsenting /\ PollsRefused /\ AskRefused
Telling == surveyFaults = 0 => /\ Handled /\ OneAsks /\ WindowOpen /\ ChannelChosen
                               /\ "after a no" \notin told
Orderly == Before /\ Standing /\ Telling

SurveyInv == SurveyTypes /\ YesBefore /\ Blank /\ ThanksMarked /\ Orderly

\* What a step does to where the ticks, the texts and the votes are.
SweepsStay == \A q \in Sweepers : /\ sweep'[q].at = sweep[q].at
                                 /\ sweep'[q].overdue = sweep[q].overdue
TextGoes(h, point) == \A k \in Texts : text'[k].at = IF k = h THEN point ELSE text[k].at
Goes(y, from, to) == /\ Handles(y)' => Handles(y) \/ to = y
                     /\ Handles(y) => Handles(y)' \/ from = y
                     /\ from = y => Handles(y)
                     /\ to = y => Handles(y)'
AllGo(from, to) == /\ Goes("claim", from, to) /\ Goes("refuse", from, to)
                   /\ Goes("cancel", from, to) /\ Goes("revive", from, to)
                   /\ Goes("restore", from, to) /\ Goes("claimAsk", from, to)
                   /\ Goes("refuseAsk", from, to) /\ Goes("ask", from, to)
                   /\ Goes("unask", from, to) /\ Goes("capture", from, to)
                   /\ Goes("thank", from, to)
VotesGo == VotedEarlier' => VotedEarlier \/ survey.feedback \in Underway
HeardYes ==
    /\ \A x : x \in said'.agreed <=> x \in said.agreed \/ x = Asked!Question
    /\ \A x : x \in said'.refused <=> x \in said.refused /\ x # Asked!Question
Refusing(question) ==
    /\ \A x : x \in said'.agreed <=> x \in said.agreed
    /\ \A x : x \in said'.refused <=> x \in said.refused \/ x = question
Outgoing(kind) ==
    /\ "poll" \in told' <=> "poll" \in told \/ kind = "poll"
    /\ "consent" \in told' <=> "consent" \in told \/ kind = "consent"
    /\ "ask" \in told' <=> "ask" \in told \/ kind = "ask"
    /\ "stored" \in told' <=> "stored" \in told \/ kind = "stored"
    /\ "mail" \in told' <=> "mail" \in told
    /\ told' # {}
    /\ "after a no" \in told' => "after a no" \in told \/ Asked!AfterNo(kind)
PollOut ==
    /\ "poll" \in told'
    /\ "consent" \in told' <=> "consent" \in told
    /\ "ask" \in told' <=> "ask" \in told
    /\ "stored" \in told' <=> "stored" \in told
    /\ "mail" \in told' <=> "mail" \in told
    /\ "after a no" \in told' => "after a no" \in told \/ "polls" \in said.refused
ConsentOut ==
    /\ "consent" \in told'
    /\ "poll" \in told' <=> "poll" \in told
    /\ "ask" \in told' <=> "ask" \in told
    /\ "stored" \in told' <=> "stored" \in told
    /\ "mail" \in told' <=> "mail" \in told
    /\ "after a no" \in told' => "after a no" \in told \/ ~NoneRefused
MailGoes ==
    /\ "poll" \in told' <=> "poll" \in told
    /\ "consent" \in told' <=> "consent" \in told
    /\ "ask" \in told' <=> "ask" \in told
    /\ "stored" \in told' <=> "stored" \in told
    /\ "after a no" \in told' <=> "after a no" \in told
    /\ "mail" \in told'
AsksGo(from, to) ==
    OneAsks => /\ \/ to \notin {"ask", "unask"}
                  \/ from \in {"ask", "unask"}
                  \/ ~Handles("ask") /\ ~Handles("unask")
                  => OneAsks'
               /\ to \notin {"ask", "unask"} /\ from \in {"ask", "unask"}
                  => ~Handles("ask")' /\ ~Handles("unask")'
Heard(what) == IF what = "yes" THEN HeardYes ELSE said' = said

\* All but the types.
SurveyRest == YesBefore /\ Blank /\ ThanksMarked /\ Orderly

-----------------------------------------------------------------------------
(* Sessions *)

\* A time at which an old session could still be let through to the version of now.
Crossed(time) == time > 0 /\ time < rotatedAt + Ttl

\* A credential of the current version is of a password that was current under it, or
\* goes back to a session that was let through to it.
OfVersion(c) ==
    /\ c.version <= account.version
    /\ c.version = account.version => c.password \in served \/ Crossed(c.crossed)

\* A session that was accepted, and when.
Accepted(holder, asked) ==
    /\ OfVersion(holder)
    /\ asked > 0 /\ asked <= clock
    /\ holder.version # account.version => Crossed(asked)

RequestRecord == [op : {"idle", "sign", "read", "fill", "pass"},
                  process : Backends \cup {Signed!Idle.process}, since : Signed!Times,
                  read : Signed!Accounts, holder : Signed!Credentials]

\* What a request holds: an answer of the database that is stale was asked for before
\* the change, and a session is made of what was found right.
JobHeld(r) ==
    /\ r \in RequestRecord
    /\ r.op \in {"read", "fill"} => r.process \in Backends /\ r.since > 0 /\ r.since <= clock
    /\ r.op = "fill" /\ r.read # account => r.since <= changedAt
    /\ r.op = "fill" /\ r.read.version # account.version => r.since <= rotatedAt
    /\ r.op = "sign" => r.holder.version = r.read.version /\ OfVersion(r.holder)
    /\ r.op = "pass" => Accepted(r.holder, r.since)

JobsHeld ==
    /\ DOMAIN signing = Handlers /\ signing = [h \in Handlers |-> signing[h]]
    /\ \A h \in Handlers : JobHeld(signing[h])

\* The version moves with the passwords, and nothing changed later than now.
VersionBehind ==
    account.version <= password /\ changedAt \in 0..clock /\ rotatedAt \in 0..clock

\* What a process keeps of an account that has changed runs out in the seconds of
\* its cache after the change, and nothing is kept for longer than from now.
StaleRunsOut ==
    \A p \in Backends :
        /\ cache[p].expires <= clock + Ttl
        /\ cache[p].account # account => cache[p].expires <= changedAt + Ttl
        /\ cache[p].account.version # account.version => cache[p].expires <= rotatedAt + Ttl

CredentialsOfVersion ==
    /\ \A t \in tokens \cup mail : OfVersion(t)
    /\ \A code \in passes : Accepted(code.holder, code.asked)

SessionInv ==
    Signed!TypeOK /\ JobsHeld /\ VersionBehind /\ StaleRunsOut /\ CredentialsOfVersion

-----------------------------------------------------------------------------
(* Codes and links for a new password *)

CodeRow == [live : BOOLEAN, expired : BOOLEAN, attempts : Nat]
Spendable == Reset!Codes \cup Links
ResetJob == [at : {"idle", "drop", "create", "find", "consume", "count", "set", "redeem"},
             code : Nat, row : Nat, link : Links \cup {"none"}, gone : SUBSET Spendable,
             newest : Nat]

ResetTypes ==
    /\ codes \in Seq(CodeRow) /\ Len(codes) <= LastCode
    /\ links \in [Links -> {"none", "live", "used", "expired"}]
    /\ resetting \in [Handlers -> ResetJob]
    /\ spent \in [Spendable -> Nat]

\* A request has found a row that had not been spent when it began; when it is
\* about to set the password, that row is dead. What was spent remains so.
Held(j, table, uses) ==
    /\ j.row \in {Reset!NoCode} \cup DOMAIN table
    /\ j.at \in {"consume", "count", "set"} => j.row \in DOMAIN table
    /\ j.at \in {"consume", "set"} => j.row \notin j.gone
    /\ j.at = "set" => ~table[j.row].live
    /\ j.at = "redeem" => j.link \in Links \ j.gone
    /\ \A t \in j.gone : uses[t] > 0

RequestsHeld == \A h \in Handlers : Held(resetting[h], codes, spent)

\* What has set a password is never found again.
SpentIsDead ==
    /\ \A c \in Reset!Codes : spent[c] > 0 => c \in DOMAIN codes /\ ~codes[c].live
    /\ \A l \in Links : spent[l] > 0 => links[l] = "used"

\* The attempts of a code, with those that are about to be counted.
Counting(i) == {h \in Handlers : resetting[h].at = "count" /\ resetting[h].row = i}
Room(i) == codes[i].attempts + Cardinality(Counting(i)) < CodeAttempts + Cardinality(Handlers)
AttemptsHaveRoom == \A i \in DOMAIN codes : Room(i)

ResetInv == ResetTypes /\ RequestsHeld /\ SpentIsDead /\ AttemptsHaveRoom

\* The rows and how they may change: none goes, and a dead one stays dead.
RowsKept ==
    /\ codes' \in Seq(CodeRow) /\ Len(codes') <= LastCode
    /\ DOMAIN codes \subseteq DOMAIN codes'
    /\ \A c \in DOMAIN codes : ~codes[c].live => ~codes'[c].live

SpentKept ==
    /\ spent' \in [Spendable -> Nat]
    /\ \A t \in Spendable : spent[t] > 0 => spent'[t] > 0

-----------------------------------------------------------------------------
(* The tenant at Komunika *)

CallRecord == [op : {"none", "sync", "provision", "update", "deprovision"},
               at : {"idle", "admin", "look", "read", "send", "write"}, tries : 0..MaxRetries,
               status : {"active", "past_due"}, end : 0..LastPeriod, done : BOOLEAN]

TenantTypes ==
    /\ Tenant!TypeOK
    /\ call \in [Calls -> CallRecord]
    /\ last \in [event : {"none", "paid", "unpaid", "lapsed", "cancelled"},
                 by : Calls \cup {None}, ok : BOOLEAN]

\* One call is under way, that of the last event, which has not succeeded yet.
OneCall ==
    /\ \A c, k \in Calls : ~Tenant!Idle(c) /\ ~Tenant!Idle(k) => c = k
    /\ \A c \in Calls : ~Tenant!Idle(c) => last.by = c /\ ~last.ok

\* What a call is about to do fits its event, the columns and the tenant: it is to
\* open a tenant that is not active, to extend an active one, or to close one.
Fits(c) ==
    /\ call[c].op = "none" <=> Tenant!Idle(c)
    /\ call[c].op = "sync" <=> call[c].at = "look"
    /\ call[c].at = "admin" => call[c].op = "deprovision"
    /\ call[c].at \in {"look", "read"} => ~call[c].done
    /\ call[c].at \in {"send", "write"} => call[c].end = member.end
    /\ call[c].at = "write" => call[c].done /\ call[c].op \in {"provision", "deprovision"}
    /\ call[c].op = "sync" => last.event = "paid" /\ call[c].status = "active"
    /\ call[c].op = "provision" =>
          /\ last.event = "paid" /\ ~Tenant!ActiveTenant
          /\ call[c].done => remote = [state |-> "open", end |-> member.end]
    /\ call[c].op = "update" =>
          /\ last.event \in {"paid", "unpaid"}
          /\ last.event = "paid" => Tenant!ActiveTenant /\ call[c].status = "active"
          /\ call[c].at = "send" => columns.company
    /\ call[c].op = "deprovision" =>
          /\ last.event = "lapsed"
          /\ call[c].at = "admin" /\ call[c].done => ~Tenant!ActiveTenant
          /\ call[c].at \in {"send", "write"} => Tenant!ActiveTenant
          /\ call[c].at \in {"send", "write"} /\ call[c].done => remote.state = "blocked"

CallsFit == \A c \in Calls : Fits(c)

Under(op) == \E c \in Calls : call[c].op = op /\ call[c].at \in {"send", "write"} /\ call[c].done

\* The columns follow the tenant but for what was torn or is about to be written.
ColumnsFollow ==
    /\ columns.company => remote.state # "none"
    /\ Tenant!ActiveTenant /\ "deprovision" \notin torn /\ ~Under("deprovision")
          => remote.state \in {"open", "suspended"}
    /\ ~Tenant!ActiveTenant /\ "provision" \notin torn /\ ~Under("provision")
          => remote.state \in {"none", "blocked"}

TenantInv == TenantTypes /\ OneCall /\ CallsFit /\ ColumnsFollow /\ TenantFollowsAccount

\* The call that an event starts, and what that event is.
Begins(c, new) ==
    /\ call' = [call EXCEPT ![c] = new]
    /\ \E event \in {"paid", "unpaid", "lapsed"} :
          /\ last' = [event |-> event, by |-> c, ok |-> FALSE]
          /\ \/ event = "paid" /\ new.op = "sync" /\ new.at = "look" /\ new.status = "active"
             \/ /\ event = "paid" /\ new.op = "update" /\ new.at = "read" /\ new.status = "active"
                /\ Tenant!ActiveTenant
             \/ event = "unpaid" /\ new.op = "update" /\ new.at = "read"
             \/ event = "lapsed" /\ new.op = "deprovision" /\ new.at \in {"read", "admin"}
    /\ new.done => new.at = "admin" /\ ~Tenant!ActiveTenant

\* What is held of the member, apart from its call.
TablesTyped ==
    /\ member \in [pays : BOOLEAN, end : 0..LastPeriod]
    /\ columns \in [company : BOOLEAN, deprovisioned : BOOLEAN]
    /\ remote \in [state : {"none", "open", "suspended", "blocked"}, end : 0..LastPeriod]
    /\ torn \subseteq {"provision", "deprovision"}

-----------------------------------------------------------------------------
(* The curriculum *)

\* What the page shows and what a request holds, of n items.
Views(n) == [Edited!Parents -> Seq([id : 1..n, order : Nat])]
EditJobs(n) ==
    [op : {"none", "load", "create", "update", "delete", "reorder"},
     at : {"idle", "read", "write", "answer"}, id : 0..n, parent : Edited!Parents, order : Nat,
     ids : Seq(1..n), owned : SUBSET (1..n), last : Nat, seen : {<<>>} \cup Views(n),
     ok : BOOLEAN, draft : Nat]

EditTypes ==
    /\ rows \in Seq([parent : Edited!Gone..LastItem, order : Nat]) /\ Len(rows) <= LastItem
    /\ displayed \in Views(Len(rows))
    /\ edit \in [open : BOOLEAN, id : 0..Len(rows), parent : Edited!Parents, order : Nat,
                 draft : Nat]
    /\ creating \in Requests \cup {Edited!Nobody}
    /\ requested \in [Requests -> EditJobs(Len(rows))]
    /\ \A h \in Requests :
          requested[h].op = "load" /\ requested[h].at = "answer"
              => requested[h].seen \in Views(Len(rows))
    /\ drafts \in Nat /\ unsure \in BOOLEAN

\* A view shows the items that there are, each once.
ShowsAll(v, rs) ==
    \A p \in Edited!Parents :
        /\ \A k, l \in DOMAIN v[p] : v[p][k].id = v[p][l].id => k = l
        /\ {v[p][k].id : k \in DOMAIN v[p]} = Edited!Children(rs, p)

InOrder(v, rs, p) ==
    \A k, l \in DOMAIN v[p] : k < l => rs[v[p][k].id].order <= rs[v[p][l].id].order

Agrees(v, rs) == ShowsAll(v, rs) /\ \A p \in Edited!Parents : InOrder(v, rs, p)

\* What a request j relies on, of the page v and the tables rs.
Steady(j) ==
    /\ j.op = "none" => j = Edited!NoJob
    /\ j.op # "none" => j.at # "idle"
    /\ j.at # "answer" => j.ok

EditsTruth(j, v, rs) ==
    /\ j.op \in {"create", "update", "delete"} /\ (j.at # "answer" \/ ~j.ok) => Agrees(v, rs)
    /\ j.op = "delete" /\ j.at # "answer" => j.id \in DOMAIN rs /\ rs[j.id].parent # Edited!Gone

OrdersShown(j, v, rs) ==
    /\ j.op = "reorder" /\ j.at # "answer" =>
          /\ ShowsAll(v, rs)
          /\ \A p \in Edited!Parents \ {j.parent} : InOrder(v, rs, p)
          /\ j.ids = [k \in DOMAIN v[j.parent] |-> v[j.parent][k].id]
    /\ j.op = "reorder" /\ j.at = "write" => j.owned = Edited!Children(rs, j.parent)
    /\ j.op = "reorder" /\ j.at = "answer" /\ j.ok => Agrees(v, rs)

LoadsTruth(j, rs) == j.op = "load" /\ j.at = "answer" => Agrees(j.seen, rs)

ComesLast(j, rs) ==
    j.at = "write" /\ (j.op = "create" \/ (j.op = "update" /\ j.parent # Edited!Course))
        => \A i \in Edited!Children(rs, j.parent) : rs[i].order < j.last

Relies(j, v, rs) ==
    Steady(j) /\ EditsTruth(j, v, rs) /\ OrdersShown(j, v, rs) /\ LoadsTruth(j, rs) /\ ComesLast(j, rs)

\* One request is under way, and whoever is unsure loads.
OneEdit == \A g, h \in Requests :
    requested[g] # Edited!NoJob /\ requested[h] # Edited!NoJob => g = h

UnsureLoads == \A h \in Requests : unsure /\ requested[h].op # "none" => requested[h].op = "load"

PageAgrees == Edited!AtRest /\ ~unsure => Agrees(displayed, rows)

EditInv ==
    /\ EditTypes /\ OneEdit /\ UnsureLoads /\ PageAgrees /\ Edited!PlacesDiffer
    /\ \A h \in Requests : Relies(requested[h], displayed, rows)

\* What a drag makes of a list: the same items, from other places.
From(k, from, to) ==
    IF k = to THEN from
    ELSE IF from <= k /\ k < to THEN k + 1
    ELSE IF to < k /\ k <= from THEN k - 1
    ELSE k

Dragged(s, from, to) == [k \in 1..Len(s) |-> s[From(k, from, to)]]

-----------------------------------------------------------------------------
(* The mass send *)

Holding == {"claim", "check", "coupon", "text", "markSent", "markFailed", "countSent", "countFailed"}
Claiming == {"check", "coupon", "text", "markSent", "markFailed"}

\* A loop past its look for a recipient has one in hand.
RecipientInHand == \A p \in Processes : runner[p].at \in Holding => runner[p].to \in Recipients

\* Who was claimed is "sending" until the loop that claimed it marks it.
ClaimedIsSending ==
    \A p \in Processes : runner[p].at \in Claiming => recipient[runner[p].to] = "sending"

\* One loop has a recipient.
OneClaim ==
    \A p, q \in Processes :
        runner[p].at \in Claiming /\ runner[q].at \in Claiming /\ runner[p].to = runner[q].to
            => p = q

\* Who waits was sent nothing, nor was who is about to be.
WaitingUntexted == \A r \in Recipients : recipient[r] \in {"absent", "pending"} => texted[r] = 0

HandUntexted ==
    \A p \in Processes : runner[p].at \in {"check", "coupon", "text"} => texted[runner[p].to] = 0

\* The recipients are inserted once, into an empty table.
InsertedOnce ==
    /\ (job = "none" \/ starting # None) => \A r \in Recipients : recipient[r] = "absent"
    /\ starting # None => job # "none"

\* The push goes out with the end of the job.
PushedAtEnd == job # "done" => pushed = 0

TypeInv == TypeOK /\ RecipientInHand
SendInv ==
    /\ TypeInv /\ ClaimedIsSending /\ OneClaim /\ WaitingUntexted /\ HandUntexted
    /\ InsertedOnce /\ PushedAtEnd /\ MessagedOnce
=============================================================================
