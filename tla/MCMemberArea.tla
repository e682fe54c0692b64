----------------------------- MODULE MCMemberArea -----------------------------
(***************************************************************************)
(* What members use and belong to, checked side by side as in MCServices:   *)
(* a behaviour exercises one part, chosen at the start. The fairness is     *)
(* that of GroupRemoval, of which nothing is ever enabled in the others.    *)
(***************************************************************************)
EXTENDS GroupRemoval, FiniteSets

CONSTANTS Orders, OwnUrl, Handlers, Nothing, LastDay, MaxFaults, Overlapping,     \* CourseSale
          Emojis, Window, LastMessage, MaxAsked, MaxPushed,                       \* Chat
          Messages, LastSession,                                                  \* SupportSession
          Tabs, Page, DailyLimit, LastSearch, LastLead, MaxAnswers,               \* Radar
          Formats, Playlists, LastUpload, Throwing,                               \* LessonVideo
          Hasty

ASSUME SaleAssumption ==
    /\ LastDay \in Nat \ {0}
    /\ MaxFaults \in Nat
    /\ OwnUrl \subseteq Orders
    /\ Nothing \notin Orders

ASSUME VideoAssumption == LastUpload \in Nat /\ MaxRestarts \in Nat

ASSUME ChatAssumption == IsFiniteSet(Emojis) /\ Window \in Nat /\ LastMessage \in Nat

ASSUME SearchAssumption ==
    /\ Page \in Tabs
    /\ DailyLimit \in Nat
    /\ LastSearch \in Nat
    /\ LastLead \in Nat

ASSUME SupportAssumption == IsFiniteSet(Messages) /\ LastSession \in Nat \ {0}

VARIABLES part

VARIABLES account, right, tx, request, day, faults, cut
saleVars == <<account, right, tx, request, day, faults, cut>>
Sale == INSTANCE CourseSale

VARIABLES sent, existing, reactions, stream, signature, pushed, asked, posting, view, told
chatVars == <<sent, existing, reactions, stream, signature, pushed, asked, posting, view, told>>
Talk == INSTANCE Chat

VARIABLES session, written, deleted, unnotified, alerting, alerts
sessionVars == <<session, written, deleted, unnotified, alerting, alerts>>
Support == INSTANCE SupportSession

VARIABLES status, leads, searched, today, starting, waiting, stalled, worker, events, progress,
          polling, answers, page, gap
radarVars == <<status, leads, searched, today, starting, waiting, stalled, worker, events,
               progress, polling, answers, page, gap>>
Search == INSTANCE Radar WITH stream <- progress

VARIABLES row, stored, hls, open, upload, completing, deleting, converter, uploads, deaths
videoVars == <<row, stored, hls, open, upload, completing, deleting, converter, uploads, deaths>>
Video == INSTANCE LessonVideo WITH page <- upload, worker <- converter, restarts <- deaths

MCInit ==
    /\ Init /\ Sale!Init /\ Talk!Init /\ Support!Init /\ Search!Init /\ Video!Init
    /\ part \in {"removal", "sale", "talk", "support", "search", "tabbed", "video"}

\* Several searches of one tab, and one search of several tabs, are looked at apart.
MCNext ==
    /\ UNCHANGED part
    /\ \/ /\ part = "removal" /\ Next
          /\ UNCHANGED <<saleVars, chatVars, sessionVars, radarVars, videoVars>>
       \/ /\ part = "sale" /\ Sale!Next
          /\ UNCHANGED <<vars, chatVars, sessionVars, radarVars, videoVars>>
       \/ /\ part = "talk" /\ Talk!Next
          /\ UNCHANGED <<vars, saleVars, sessionVars, radarVars, videoVars>>
       \/ /\ part = "support" /\ Support!Next
          /\ UNCHANGED <<vars, saleVars, chatVars, radarVars, videoVars>>
       \/ /\ part \in {"search", "tabbed"} /\ Search!Next
          /\ IF part = "search"
               THEN \A t \in Tabs \ {Page} : starting'[t] = Search!NotStarting
               ELSE \A s \in 2..LastSearch : status'[s] = "none"
          /\ UNCHANGED <<vars, saleVars, chatVars, sessionVars, videoVars>>
       \/ /\ part = "video" /\ Video!Next
          /\ UNCHANGED <<vars, saleVars, chatVars, sessionVars, radarVars>>

\* The fairness of LessonVideo, where it is the part that moves.
VideoFairness ==
    /\ WF_videoVars(part = "video" /\ Video!WorkerStep)
    /\ WF_videoVars(part = "video" /\ Video!SafetyKick)
    /\ WF_videoVars(part = "video" /\ Video!Boot)

MCSpec ==
    /\ MCInit
    /\ [][MCNext]_<<part, vars, saleVars, chatVars, sessionVars, radarVars, videoVars>>
    /\ Fairness /\ VideoFairness

\* The state of every part is what its tables and requests can hold.
MCTypeOK ==
    /\ TypeOK /\ Sale!TypeOK /\ Talk!TypeOK /\ Support!TypeOK /\ Search!TypeOK /\ Video!TypeOK

\* See CourseSale, Chat, SupportSession, Radar and LessonVideo.
BuyerHasCourse == Sale!BuyerHasCourse
SentStaysVisible == Talk!SentStaysVisible
AlertedOnce == Support!AlertedOnce
ShownIsWhole == Search!ShownIsWhole
ServedIsWhole == Video!ServedIsWhole
ConversionEnds == Video!ConversionEnds
=============================================================================
