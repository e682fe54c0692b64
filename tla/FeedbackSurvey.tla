--------------------------- MODULE FeedbackSurvey ---------------------------
(***************************************************************************)
(* The survey of one buyer (feedback.service.ts): polls two weeks after    *)
(* the purchase and a request for suggestions a week later, each opened by *)
(* a question for consent on WhatsApp. A tick of the API process sweeps    *)
(* what expired, sends what is due and starts sessions; replies and votes  *)
(* come in by a webhook that has no order and repeats itself, and the      *)
(* whole survey may be answered on the web meanwhile.                      *)
(* A step is one awaited query or call. Dates matter only as far as they   *)
(* have passed or not, which is left open where they are compared.         *)
(***************************************************************************)
EXTENDS Integers, FiniteSets

CONSTANTS Processes,       \* API processes, during a deploy more than one
          Texts,           \* texts of the member that may be handled at once
          Votes,           \* votes that may be handled at once
          Questions,       \* how many polls there are: 4
          Punctual,        \* no suggestion falls due while a no to the polls is handled
          MaxFaults        \* bound: ticks that die and sends wrongly reported as failed

VARIABLES
    survey,         \* FeedbackSurvey
    response,       \* FeedbackResponse of each poll
    eligible,       \* the buyer is a paying member and the purchase not refunded
    tick,           \* the send tick of each process
    text,           \* each text under way
    vote,           \* each vote under way
    web,            \* the answers on the web: what was read before they are stored
    faults,
    said,           \* what the member agreed to, refused, and was misheard in (history)
    sent,           \* what the program sent or stored (history)
    thanks          \* how often it thanked (history)

handlers == <<text, vote, web>>
history == <<said, sent, thanks>>
vars == <<survey, response, eligible, tick, handlers, faults, history>>

Polls == 1..Questions
FeedbackStatus == {"scheduled", "awaiting_consent", "in_progress", "paused", "awaiting_web",
                   "completed", "declined", "expired", "skipped"}
SuggestionStatus == {"scheduled", "awaiting_consent", "awaiting_reply", "awaiting_web",
                     "completed", "declined", "expired", "skipped"}
Live == {"awaiting_consent", "in_progress", "paused"}

\* Times that are set or not; window is suggestionWindowEndsAt, fresh says that the
\* request for suggestions is less than ten seconds old.
NoSurvey == [feedback |-> "none", suggestion |-> "none", channel |-> "none", question |-> 0,
             streak |-> 0, next |-> FALSE, started |-> FALSE, finished |-> FALSE,
             window |-> FALSE, fresh |-> FALSE, thanked |-> FALSE]
NoTick == [at |-> "idle", question |-> 0, streak |-> 0, overdue |-> FALSE, moved |-> FALSE]
NoText == [at |-> "idle", what |-> "none"]
NoVote == [at |-> "idle", poll |-> 0, read |-> "none"]
NoWeb == [at |-> "idle", window |-> FALSE, known |-> {}]

Init ==
    /\ survey = NoSurvey
    /\ response = [q \in Polls |-> "none"]
    /\ eligible = TRUE
    /\ tick = [p \in Processes |-> NoTick]
    /\ text = [h \in Texts |-> NoText]
    /\ vote = [v \in Votes |-> NoVote]
    /\ web = NoWeb
    /\ faults = 0
    /\ said = [agreed |-> {}, refused |-> {}, misheard |-> FALSE]
    /\ sent = {}
    /\ thanks = 0

Exists == survey.feedback # "none"

\* Every write of nextActionAt is seen by the lock of a tick that read it before.
Move(ticks) == [p \in Processes |-> [ticks[p] EXCEPT !.moved = @ \/ ticks[p].at = "pause"]]

\* A no to the polls is a no to everything, a no to the request one to it.
AfterNo(kind) == "polls" \in said.refused \/ (kind # "poll" /\ "ask" \in said.refused)
Send(kind) == sent' = sent \cup {kind} \cup IF AfterNo(kind) THEN {"after a no"} ELSE {}

-----------------------------------------------------------------------------
(* Rows are created *)

\* feedbackEnrollTick: a recent purchase is scheduled, an old one is skipped.
Enrol ==
    /\ ~Exists /\ eligible
    /\ \E state \in {"scheduled", "skipped"} :
        survey' = [NoSurvey EXCEPT !.feedback = state, !.suggestion = state]
    /\ UNCHANGED <<response, eligible, tick, handlers, faults, history>>

\* openSurveyByEmail and adminResendLink give who has none a survey for the web; to
\* one that exists they do nothing.
OpenOnWeb ==
    /\ ~Exists /\ eligible
    /\ \E channel \in {"web", "email"} :
        survey' = [NoSurvey EXCEPT !.feedback = "awaiting_web", !.suggestion = "awaiting_web",
                                   !.channel = channel]
    /\ UNCHANGED <<response, eligible, tick, handlers, faults, history>>

Refund ==
    /\ eligible
    /\ eligible' = FALSE
    /\ UNCHANGED <<survey, response, tick, handlers, faults, history>>

-----------------------------------------------------------------------------
(* The tick: expireStaleSessions *)

At(p, point) == tick[p].at = point
GoOn(p, point) == tick' = [tick EXCEPT ![p] = [NoTick EXCEPT !.at = point]]
Keep(p, point) == tick' = [tick EXCEPT ![p].at = point]

\* One statement of the sweep: it changes the row if the row is as it asks.
Statement(p, point, next, condition, changed) ==
    /\ At(p, point)
    /\ GoOn(p, next)
    /\ survey' = IF condition THEN changed ELSE survey
    /\ UNCHANGED <<response, eligible, handlers, faults, history>>

Answered == {q \in Polls : response[q] = "answered"}

\* Sessions that were paused two days ago are read first.
ReadPaused(p) ==
    /\ At(p, "idle") /\ Exists
    /\ \E stale \in BOOLEAN :
        /\ stale => survey.feedback = "paused"
        /\ tick' = [tick EXCEPT ![p] = [NoTick EXCEPT
                        !.at = IF stale THEN "unpause" ELSE "window",
                        !.overdue = stale /\ Answered = {} /\ survey.suggestion = "scheduled"]]
    /\ UNCHANGED <<survey, response, eligible, handlers, faults, history>>

\* Who never answered is not asked for suggestions either.
ExpirePaused(p) ==
    Statement(p, "unpause", "window", survey.feedback = "paused",
              [survey EXCEPT !.feedback = "expired", !.next = FALSE,
                             !.suggestion = IF tick[p].overdue THEN "skipped" ELSE @])

ExpireReply(p) ==
    \E over \in BOOLEAN :
        Statement(p, "window", "silence", over /\ survey.suggestion = "awaiting_reply",
                  [survey EXCEPT !.suggestion = "expired"])

\* Consent that was not given in two days: first the suggestion goes ...
SkipSilent(p) ==
    /\ At(p, "silence")
    /\ \E over \in BOOLEAN :
        /\ over => survey.feedback = "awaiting_consent"
        /\ tick' = [tick EXCEPT ![p] = [NoTick EXCEPT !.at = "silent", !.overdue = over]]
        /\ survey' = IF over /\ survey.suggestion = "scheduled"
                       THEN [survey EXCEPT !.suggestion = "skipped"] ELSE survey
    /\ UNCHANGED <<response, eligible, handlers, faults, history>>

\* ... and then the session.
ExpireSilent(p) ==
    Statement(p, "silent", "askSilent",
              tick[p].overdue /\ survey.feedback = "awaiting_consent",
              [survey EXCEPT !.feedback = "expired", !.next = FALSE])

ExpireAskSilent(p) ==
    \E over \in BOOLEAN :
        Statement(p, "askSilent", "ttl", over /\ survey.suggestion = "awaiting_consent",
                  [survey EXCEPT !.suggestion = "expired"])

\* After a week a session in progress is over.
ExpireStuck(p) ==
    \E over \in BOOLEAN :
        Statement(p, "ttl", "advance", over /\ survey.feedback = "in_progress",
                  [survey EXCEPT !.feedback = "expired", !.next = FALSE])

-----------------------------------------------------------------------------
(* The tick: advanceInProgressSessions *)

Silent == \E q \in Polls : response[q] = "sent" /\ \A k \in Polls : k > q => response[k] = "none"

\* Mutant: the third silent poll pauses.
PausesLate(streak) == Silent /\ streak > 2

Pauses(streak) == Silent /\ streak >= 2

\* The session is read if its time has come.
Advance(p) ==
    /\ At(p, "advance")
    /\ LET streak == IF Silent THEN survey.streak + 1 ELSE survey.streak
       IN  tick' = [tick EXCEPT ![p] = [NoTick EXCEPT
                        !.at = IF Pauses(streak) THEN "pause"
                               ELSE IF survey.question >= Questions THEN "watch" ELSE "poll",
                        !.question = survey.question, !.streak = streak]]
    /\ survey.feedback = "in_progress" /\ survey.next
    /\ UNCHANGED <<survey, response, eligible, handlers, faults, history>>

NoneToAdvance(p) ==
    /\ At(p, "advance")
    /\ GoOn(p, "due")
    /\ UNCHANGED <<survey, response, eligible, handlers, faults, history>>

\* The second silent poll pauses, unless a vote moved the session meanwhile.
Pause(p) ==
    /\ At(p, "pause")
    /\ IF survey.feedback = "in_progress" /\ ~tick[p].moved
         THEN /\ survey' = [survey EXCEPT !.feedback = "paused", !.streak = tick[p].streak,
                                          !.next = FALSE]
              /\ tick' = Move([tick EXCEPT ![p] = [NoTick EXCEPT !.at = "due"]])
         ELSE GoOn(p, "due") /\ UNCHANGED survey
    /\ UNCHANGED <<response, eligible, handlers, faults, history>>

Watch(p) ==
    /\ At(p, "watch")
    /\ survey' = [survey EXCEPT !.streak = tick[p].streak, !.next = TRUE]
    /\ tick' = Move([tick EXCEPT ![p] = [NoTick EXCEPT !.at = "due"]])
    /\ UNCHANGED <<response, eligible, handlers, faults, history>>

\* A send that is reported as failed may have arrived.
SendPoll(p) ==
    /\ At(p, "poll")
    /\ \/ Keep(p, "record") /\ Send("poll") /\ UNCHANGED faults
       \/ GoOn(p, "defer") /\ UNCHANGED <<sent, faults>>
       \/ /\ faults < MaxFaults
          /\ faults' = faults + 1
          /\ GoOn(p, "defer")
          /\ Send("poll")
    /\ UNCHANGED <<survey, response, eligible, handlers, said, thanks>>

\* One response for each poll: who comes second changes nothing.
RecordPoll(p) ==
    /\ At(p, "record")
    /\ LET q == tick[p].question + 1
       IN  IF response[q] = "none"
           THEN /\ response' = [response EXCEPT ![q] = "sent"]
                /\ survey' = [survey EXCEPT !.question = q, !.streak = tick[p].streak,
                                            !.next = TRUE]
                /\ tick' = Move([tick EXCEPT ![p] = [NoTick EXCEPT !.at = "due"]])
           ELSE GoOn(p, "due") /\ UNCHANGED <<survey, response>>
    /\ UNCHANGED <<eligible, handlers, faults, history>>

DeferPoll(p) ==
    /\ At(p, "defer")
    /\ survey' = [survey EXCEPT !.next = TRUE]
    /\ tick' = Move([tick EXCEPT ![p] = [NoTick EXCEPT !.at = "due"]])
    /\ UNCHANGED <<response, eligible, handlers, faults, history>>

-----------------------------------------------------------------------------
(* The tick: maybeStartNextSession *)

\* A no to the polls is written and has not cancelled the suggestion yet.
Refusing == \E h \in Texts : text[h].at = "cancel"

FeedbackDue == survey.feedback = "scheduled"
SuggestionDue == /\ survey.suggestion = "scheduled" /\ survey.channel = "whatsapp"
                 /\ survey.feedback \notin Live
                 /\ Punctual => ~Refusing

StartNext(p) ==
    /\ At(p, "due")
    /\ \/ FeedbackDue /\ GoOn(p, IF eligible THEN "open" ELSE "skip")
       \/ SuggestionDue /\ GoOn(p, IF eligible THEN "openAsk" ELSE "skip")
       \/ tick' = [tick EXCEPT ![p] = NoTick]
    /\ UNCHANGED <<survey, response, eligible, handlers, faults, history>>

Return(p) == tick' = [tick EXCEPT ![p] = NoTick]

MarkSkipped(p) ==
    /\ At(p, "skip")
    /\ survey' = [survey EXCEPT !.feedback = "skipped", !.suggestion = "skipped", !.next = FALSE]
    /\ tick' = Move([tick EXCEPT ![p] = NoTick])
    /\ UNCHANGED <<response, eligible, handlers, faults, history>>

\* The question for consent, or an e-mail when WhatsApp is down or refuses.
OpenFeedback(p) ==
    /\ At(p, "open")
    /\ \/ GoOn(p, "opened") /\ Send("consent") /\ UNCHANGED faults
       \/ GoOn(p, "mail") /\ UNCHANGED <<sent, faults>>
       \/ /\ faults < MaxFaults
          /\ faults' = faults + 1
          /\ GoOn(p, "mail")
          /\ Send("consent")
    /\ UNCHANGED <<survey, response, eligible, handlers, said, thanks>>

\* Written over whatever the row has become.
SaveOpened(p) ==
    /\ At(p, "opened")
    /\ survey' = [survey EXCEPT !.channel = "whatsapp", !.feedback = "awaiting_consent",
                                !.started = TRUE, !.streak = 0, !.next = TRUE]
    /\ tick' = Move([tick EXCEPT ![p] = NoTick])
    /\ UNCHANGED <<response, eligible, handlers, faults, history>>

\* If the e-mail fails too, the session is due again later.
Mail(p) ==
    /\ At(p, "mail")
    /\ \/ GoOn(p, "mailed") /\ sent' = sent \cup {"mail"}
       \/ Return(p) /\ UNCHANGED sent
    /\ UNCHANGED <<survey, response, eligible, handlers, faults, said, thanks>>

SaveMailed(p) ==
    /\ At(p, "mailed")
    /\ survey' = [survey EXCEPT !.channel = "email", !.feedback = "awaiting_web",
                                !.suggestion = "awaiting_web"]
    /\ Return(p)
    /\ UNCHANGED <<response, eligible, handlers, faults, history>>

OpenSuggestion(p) ==
    /\ At(p, "openAsk")
    /\ \/ GoOn(p, "openedAsk") /\ Send("consent") /\ UNCHANGED faults
       \/ Return(p) /\ UNCHANGED <<sent, faults>>
       \/ /\ faults < MaxFaults
          /\ faults' = faults + 1
          /\ Return(p)
          /\ Send("consent")
    /\ UNCHANGED <<survey, response, eligible, handlers, said, thanks>>

SaveOpenedAsk(p) ==
    /\ At(p, "openedAsk")
    /\ survey' = [survey EXCEPT !.suggestion = "awaiting_consent", !.window = TRUE, !.fresh = TRUE]
    /\ Return(p)
    /\ UNCHANGED <<response, eligible, handlers, faults, history>>

TickDies(p) ==
    /\ tick[p] # NoTick
    /\ faults < MaxFaults
    /\ faults' = faults + 1
    /\ Return(p)
    /\ UNCHANGED <<survey, response, eligible, handlers, history>>

-----------------------------------------------------------------------------
(* Replies: ingestInboundText *)

\* Mutant: whatever is not a refusal is consent.
AgreesUnlessNo(what) == what # "no"

\* parseConsentReply, of a text that says yes, no, or neither.
Agrees(what) == what = "yes"

\* Bound: a text that changes nothing is left out.
Hear(h, what, point) ==
    /\ text[h] = NoText
    /\ text' = [text EXCEPT ![h] = [at |-> point, what |-> what]]
    /\ UNCHANGED <<survey, response, eligible, tick, vote, web, faults, sent, thanks>>

Asked == survey.suggestion = "awaiting_consent" /\ survey.feedback # "awaiting_consent"

\* What a yes is about: the last question the member was asked.
Question == IF Asked THEN "ask" ELSE "polls"
SaysYes(what) ==
    said' = IF what # "yes" THEN said
            ELSE [said EXCEPT !.agreed = @ \cup {Question}, !.refused = @ \ {Question}]

ConsentReply(h, what) ==
    /\ survey.feedback = "awaiting_consent"
    /\ \/ Agrees(what) /\ Hear(h, what, "claim")
       \/ ~Agrees(what) /\ what = "no" /\ Hear(h, what, "refuse")
    /\ SaysYes(what)

\* A late yes: less than two weeks after the question.
MayRevive == /\ survey.feedback = "expired" /\ survey.channel = "whatsapp"
             /\ ~survey.finished /\ survey.started

LateYes(h, what) ==
    /\ MayRevive
    /\ Agrees(what)
    /\ Hear(h, what, "revive")
    /\ said' = [said EXCEPT !.agreed = @ \cup {Question}, !.refused = @ \ {Question},
                            !.misheard = @ \/ Asked]

AskReply(h, what) ==
    /\ Asked
    /\ \/ Agrees(what) /\ Hear(h, what, "claimAsk")
       \/ ~Agrees(what) /\ what = "no" /\ Hear(h, what, "refuseAsk")
    /\ SaysYes(what)

\* A text while the window of the request is open.
Suggestion(h, what) ==
    /\ survey.feedback # "awaiting_consent"
    /\ survey.suggestion \in {"awaiting_reply", "completed"} /\ survey.window /\ ~survey.fresh
    /\ Hear(h, what, "capture")
    /\ UNCHANGED said

\* A conditional update; who loses it does nothing more.
Guarded(h, point, next, condition, changed) ==
    /\ text[h].at = point
    /\ IF condition
         THEN survey' = changed /\ text' = [text EXCEPT ![h] = IF next = "idle" THEN NoText
                                                               ELSE [@ EXCEPT !.at = next]]
         ELSE text' = [text EXCEPT ![h] = NoText] /\ UNCHANGED survey
    /\ UNCHANGED <<response, eligible, vote, web, faults>>

Begun == [survey EXCEPT !.feedback = "in_progress", !.streak = 0, !.next = TRUE]

Claim(h) ==
    /\ Guarded(h, "claim", "idle", survey.feedback = "awaiting_consent", Begun)
    /\ tick' = Move(tick)
    /\ UNCHANGED history

\* A refusal of the polls ...
Refuse(h) ==
    /\ Guarded(h, "refuse", "cancel", survey.feedback = "awaiting_consent",
               [survey EXCEPT !.feedback = "declined", !.next = FALSE])
    /\ tick' = Move(tick)
    /\ said' = IF survey.feedback = "awaiting_consent"
                  THEN [said EXCEPT !.refused = @ \cup {"polls"}] ELSE said
    /\ UNCHANGED <<sent, thanks>>

\* ... cancels the suggestion too.
CancelSuggestion(h) ==
    /\ Guarded(h, "cancel", "idle", survey.suggestion = "scheduled",
               [survey EXCEPT !.suggestion = "skipped"])
    /\ UNCHANGED <<tick, history>>

Revive(h) ==
    /\ Guarded(h, "revive", "restore", survey.feedback = "expired", Begun)
    /\ tick' = Move(tick)
    /\ UNCHANGED history

RestoreSuggestion(h) ==
    /\ Guarded(h, "restore", "idle", survey.suggestion = "skipped",
               [survey EXCEPT !.suggestion = "scheduled"])
    /\ UNCHANGED <<tick, history>>

\* The winner of the yes sends the request.
ClaimAsk(h) ==
    /\ Guarded(h, "claimAsk", "ask", survey.suggestion = "awaiting_consent",
               [survey EXCEPT !.suggestion = "awaiting_reply", !.window = TRUE, !.fresh = TRUE])
    /\ UNCHANGED <<tick, history>>

Ask(h) ==
    /\ text[h].at = "ask"
    /\ \/ Send("ask") /\ text' = [text EXCEPT ![h] = NoText]
       \/ UNCHANGED sent /\ text' = [text EXCEPT ![h].at = "unask"]
    /\ UNCHANGED <<survey, response, eligible, tick, vote, web, faults, said, thanks>>

Unask(h) ==
    /\ Guarded(h, "unask", "idle", survey.suggestion = "awaiting_reply",
               [survey EXCEPT !.suggestion = "scheduled", !.window = FALSE])
    /\ UNCHANGED <<tick, history>>

RefuseAsk(h) ==
    /\ Guarded(h, "refuseAsk", "idle", survey.suggestion = "awaiting_consent",
               [survey EXCEPT !.suggestion = "declined", !.window = FALSE])
    /\ said' = IF survey.suggestion = "awaiting_consent"
                  THEN [said EXCEPT !.refused = @ \cup {"ask"}] ELSE said
    /\ UNCHANGED <<tick, sent, thanks>>

\* The suggestion is stored, or the delivery is a repeated one.
Capture(h) ==
    /\ text[h].at = "capture"
    /\ \/ Send("stored") /\ text' = [text EXCEPT ![h].at = "thank"]
       \/ UNCHANGED sent /\ text' = [text EXCEPT ![h] = NoText]
    /\ UNCHANGED <<survey, response, eligible, tick, vote, web, faults, said, thanks>>

\* The first to mark the thanks sends them.
Thank(h) ==
    /\ Guarded(h, "thank", "idle", ~survey.thanked,
               [survey EXCEPT !.thanked = TRUE, !.suggestion = "completed"])
    /\ thanks' = IF survey.thanked THEN thanks ELSE thanks + 1
    /\ UNCHANGED <<tick, said, sent>>

TenSecondsPass ==
    /\ survey.fresh
    /\ \A h \in Texts : text[h] = NoText
    /\ survey' = [survey EXCEPT !.fresh = FALSE]
    /\ UNCHANGED <<response, eligible, tick, handlers, faults, history>>

-----------------------------------------------------------------------------
(* Votes: ingestPollVote *)

\* A vote is known by its poll, which is read with the survey.
Cast(v, q) ==
    /\ vote[v] = NoVote
    /\ response[q] # "none"
    /\ vote' = [vote EXCEPT ![v] = [at |-> "record", poll |-> q, read |-> survey.feedback]]
    /\ UNCHANGED <<survey, response, eligible, tick, text, web, faults, history>>

RecordVote(v) ==
    /\ vote[v].at = "record"
    /\ response' = [response EXCEPT ![vote[v].poll] = "answered"]
    /\ vote' = [vote EXCEPT ![v].at = "count"]
    /\ UNCHANGED <<survey, eligible, tick, text, web, faults, history>>

CountVotes(v) ==
    /\ vote[v].at = "count"
    /\ vote' = [vote EXCEPT ![v] =
                  IF Answered = Polls THEN [@ EXCEPT !.at = "complete"]
                  ELSE IF @.read \in {"in_progress", "paused"} THEN [@ EXCEPT !.at = "resume"]
                  ELSE NoVote]
    /\ UNCHANGED <<survey, response, eligible, tick, text, web, faults, history>>

\* Written over whatever the row has become.
ApplyVote(v) ==
    /\ vote[v].at \in {"complete", "resume"}
    /\ survey' = IF vote[v].at = "resume" THEN Begun
                 ELSE [survey EXCEPT !.feedback = "completed", !.finished = TRUE, !.streak = 0,
                                     !.next = FALSE]
    /\ vote' = [vote EXCEPT ![v] = NoVote]
    /\ tick' = Move(tick)
    /\ UNCHANGED <<response, eligible, text, web, faults, history>>

-----------------------------------------------------------------------------
(* The web: submitWebSurvey *)

Submit ==
    /\ web = NoWeb
    /\ Exists /\ survey.feedback # "completed"
    /\ web' = [at |-> "store", window |-> survey.window,
               known |-> {q \in Polls : response[q] # "none"}]
    /\ UNCHANGED <<survey, response, eligible, tick, text, vote, faults, history>>

\* One transaction, which fails if a poll that was not known was sent meanwhile.
StoreAnswers ==
    /\ web.at = "store"
    /\ web' = NoWeb
    /\ IF \A q \in Polls \ web.known : response[q] = "none"
         THEN /\ response' = [q \in Polls |-> "answered"]
              /\ survey' = [survey EXCEPT !.feedback = "completed", !.suggestion = "completed",
                              !.finished = TRUE, !.next = FALSE, !.streak = 0, !.window = FALSE,
                              !.thanked = TRUE]
              /\ tick' = Move(tick)
         ELSE UNCHANGED <<response, survey, tick>>
    /\ UNCHANGED <<eligible, text, vote, faults, history>>

-----------------------------------------------------------------------------
Sweep(p) == \/ ReadPaused(p) \/ ExpirePaused(p) \/ ExpireReply(p) \/ SkipSilent(p)
            \/ ExpireSilent(p) \/ ExpireAskSilent(p) \/ ExpireStuck(p)

Session(p) == \/ Advance(p) \/ NoneToAdvance(p) \/ Pause(p) \/ Watch(p)
              \/ SendPoll(p) \/ RecordPoll(p) \/ DeferPoll(p)

Start(p) == \/ StartNext(p) \/ MarkSkipped(p) \/ OpenFeedback(p) \/ SaveOpened(p)
            \/ Mail(p) \/ SaveMailed(p) \/ OpenSuggestion(p) \/ SaveOpenedAsk(p)

Reply(h) == \/ \E what \in {"yes", "no", "other"} :
                  ConsentReply(h, what) \/ LateYes(h, what) \/ AskReply(h, what)
                  \/ Suggestion(h, what)
            \/ Claim(h) \/ Refuse(h) \/ CancelSuggestion(h) \/ Revive(h) \/ RestoreSuggestion(h)
            \/ ClaimAsk(h) \/ Ask(h) \/ Unask(h) \/ RefuseAsk(h) \/ Capture(h) \/ Thank(h)

Next ==
    \/ Enrol \/ OpenOnWeb \/ Refund
    \/ \E p \in Processes : Sweep(p) \/ Session(p) \/ Start(p) \/ TickDies(p)
    \/ \E h \in Texts : Reply(h)
    \/ TenSecondsPass
    \/ \E v \in Votes : (\E q \in Polls : Cast(v, q)) \/ RecordVote(v) \/ CountVotes(v) \/ ApplyVote(v)
    \/ Submit \/ StoreAnswers

Spec == Init /\ [][Next]_vars

-----------------------------------------------------------------------------
(* Properties *)

Survey == [feedback : FeedbackStatus \cup {"none"}, suggestion : SuggestionStatus \cup {"none"},
           channel : {"none", "whatsapp", "email", "web"}, question : 0..Questions,
           streak : 0..2, next : BOOLEAN, started : BOOLEAN, finished : BOOLEAN,
           window : BOOLEAN, fresh : BOOLEAN, thanked : BOOLEAN]

\* The state is what the run of a member, the tick and the requests can hold.
TypeOK ==
    /\ survey \in Survey
    /\ response \in [Polls -> {"none", "sent", "answered"}]
    /\ eligible \in BOOLEAN
    /\ \A p \in Processes : tick[p].question \in 0..Questions /\ tick[p].streak \in 0..3
    /\ \A h \in Texts : text[h].what \in {"none", "yes", "no", "other"}
    /\ \A v \in Votes : vote[v].poll \in 0..Questions
    /\ web.known \subseteq Polls
    /\ faults \in 0..MaxFaults
    /\ said.agreed \subseteq {"polls", "ask"} /\ said.refused \subseteq {"polls", "ask"}
    /\ sent \subseteq {"poll", "consent", "ask", "stored", "mail", "after a no"}
    /\ thanks \in Nat

\* "On WhatsApp nothing is sent without a yes before it": neither a poll nor the
\* request for suggestions, nor is a text taken for a suggestion.
ConsentFirst ==
    /\ "poll" \in sent => said.agreed # {}
    /\ sent \cap {"ask", "stored"} # {} => "ask" \in said.agreed

\* After a no nothing goes out and nothing is stored, unless a process died
\* between the refusal and what follows from it.
NothingAfterNo == "after a no" \in sent => faults > 0

\* The member is thanked once, however many texts and deliveries race.
ThankedOnce == thanks <= 1

\* Exactly one channel, unless a send that arrived was reported as failed.
OneChannel == {"mail", "consent"} \subseteq sent => faults > 0

\* What the survey promises its member, through repeated and racing replies, votes,
\* ticks and answers on the web (feedback.service.ts, header and guards).
MannersKept == ConsentFirst /\ NothingAfterNo /\ ThankedOnce /\ OneChannel

\* A yes to the request for suggestions is heard as that, not as a late yes to the
\* polls (ingestInboundText, line 648).
YesHeard == ~said.misheard

\* A survey completed on the web stays completed, and its polls are halted.
CompletedStays == [][survey.feedback = "completed" => survey'.feedback = "completed"]_vars
=============================================================================
