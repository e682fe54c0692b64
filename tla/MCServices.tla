------------------------------ MODULE MCServices ------------------------------
(***************************************************************************)
(* The services that send messages, and those around an account and a       *)
(* course's contents, checked side by side. They share no table that two of *)
(* them write, so that a behaviour exercises one of them, chosen at the     *)
(* start, while the others stay as they are: the states are the sum of      *)
(* theirs and not the product.                                              *)
(***************************************************************************)
EXTENDS Broadcast

CONSTANTS Users, Unmailable, Limit, Overlapping,     \* CredentialDelivery
          MaxJobs,                                   \* BroadcastPage
          Messages, Pages, Nothing,                  \* GroupQueue
          Lifetime, MaxAttempts, LastTime, MaxFaults,
          Sweepers, Texts, Votes, Questions,         \* FeedbackSurvey
          Backends, Handlers, Ttl, LastPassword, LastSecond, MaxIssued,   \* Sessions
          CodeAttempts, Links, LastCode, MaxTyped,   \* PasswordReset
          Calls, MaxRetries, LastPeriod, MaxEvents,  \* KomunikaTenant
          Requests, LastItem, LastDraft, LastOrder   \* Curriculum

ASSUME DeliveryAssumption == Limit \in Nat

ASSUME PanelAssumption == MaxJobs \in Nat

ASSUME GroupAssumption ==
    /\ Lifetime \in Nat
    /\ MaxAttempts \in Nat \ {0}
    /\ LastTime \in Nat
    /\ MaxFaults \in Nat

ASSUME SurveyAssumption == Questions \in Nat

ASSUME SessionsAssumption ==
    /\ Ttl \in Nat \ {0}
    /\ LastPassword \in Nat
    /\ LastSecond \in Nat \ {0}

ASSUME ResetAssumption ==
    /\ IsFiniteSet(Handlers)
    /\ CodeAttempts \in Nat \ {0}
    /\ LastCode \in Nat
    /\ Links \cap (0..LastCode) = {}      \* rows of two tables

ASSUME CurriculumAssumption == LastItem \in Nat /\ LastItem >= 3 /\ LastOrder \in Nat

ASSUME TenantAssumption == MaxRetries \in Nat /\ LastPeriod \in Nat /\ None \notin Calls

VARIABLES part

VARIABLES row, quota, worker, buying, queueing, setBy, knows, since, deaths, lost, burst
deliveryVars == <<row, quota, worker, buying, queueing, setBy, knows, since, deaths, lost, burst>>
Delivery == INSTANCE CredentialDelivery WITH crashes <- deaths, Reenrolled <- FALSE

VARIABLES followed, panel, sending, polling, watched, shown, completed, kept, stored, ghosts,
          active, sent, answers, replies, ends
panelVars == <<followed, panel, sending, polling, watched, shown, completed, kept, stored, ghosts,
               active, sent, answers, replies, ends>>
Panel == INSTANCE BroadcastPage WITH job <- followed, page <- panel, told <- ends, Prompt <- TRUE

\* The two queues of the group.
VARIABLES entry, central, posting, now, groupFaults, posted, late
groupVars == <<entry, central, posting, now, groupFaults, posted, late>>
Group == INSTANCE GroupQueue WITH page <- central, tick <- posting, faults <- groupFaults

VARIABLES survey, response, eligible, sweep, text, vote, web, surveyFaults, said, told, thanks
surveyVars == <<survey, response, eligible, sweep, text, vote, web, surveyFaults, said, told, thanks>>
Asked == INSTANCE FeedbackSurvey
            WITH Processes <- Sweepers, tick <- sweep, faults <- surveyFaults, sent <- told,
                 Punctual <- TRUE

VARIABLES clock, password, account, served, changedAt, rotatedAt, cache, signing, tokens, mail,
          passes
sessionVars == <<clock, password, account, served, changedAt, rotatedAt, cache, signing, tokens,
                 mail, passes>>
Signed == INSTANCE Sessions
             WITH Processes <- Backends, LastTime <- LastSecond, now <- clock, job <- signing,
                  codes <- passes

\* The two ways to a new password, which share no table.
VARIABLES codes, links, resetting, typed, spent, overtaken
resetVars == <<codes, links, resetting, typed, spent, overtaken>>
Reset == INSTANCE PasswordReset WITH MaxAttempts <- CodeAttempts, job <- resetting

VARIABLES member, columns, remote, call, events, last, torn
tenantVars == <<member, columns, remote, call, events, last, torn>>
Tenant == INSTANCE KomunikaTenant WITH BareRenewals <- FALSE

VARIABLES rows, displayed, edit, creating, requested, drafts, made, unsure
courseVars == <<rows, displayed, edit, creating, requested, drafts, made, unsure>>
Edited == INSTANCE Curriculum WITH Hasty <- FALSE, shown <- displayed, job <- requested

accountVars == <<sessionVars, resetVars, tenantVars, courseVars>>
messageVars == <<vars, deliveryVars, panelVars, groupVars, surveyVars>>

MCInit ==
    /\ Init /\ Delivery!Init /\ Panel!Init /\ Group!Init /\ Asked!Init
    /\ Signed!Init /\ Reset!Init /\ Tenant!Init /\ Edited!Init
    /\ part \in {"broadcast", "delivery", "panel", "announced", "written", "replied", "voted",
                "hurried", "signed", "coded", "linked", "tenant", "edited"}

\* One reply at a time, and texts that race while no process fails and nobody answers on
\* the web.
Replies ==
    IF part = "hurried" THEN UNCHANGED <<web, surveyFaults>>
    ELSE \A h \in Texts \ {CHOOSE t \in Texts : TRUE} : text'[h] = Asked!NoText

\* The two queues of the group, the texts and the votes of the survey, and the codes
\* and the links for a new password are looked at apart.
MCNext ==
    /\ UNCHANGED part
    /\ \/ /\ part = "broadcast" /\ Next
          /\ UNCHANGED <<deliveryVars, panelVars, groupVars, surveyVars, accountVars>>
       \/ /\ part = "delivery" /\ Delivery!Next
          /\ UNCHANGED <<vars, panelVars, groupVars, surveyVars, accountVars>>
       \/ /\ part = "panel" /\ Panel!Next
          /\ UNCHANGED <<vars, deliveryVars, groupVars, surveyVars, accountVars>>
       \/ /\ part \in {"announced", "written"} /\ Group!Next
          /\ \A e \in IF part = "written" THEN Pages ELSE Messages : entry'[e] = Group!NoEntry
          /\ UNCHANGED <<vars, deliveryVars, panelVars, surveyVars, accountVars>>
       \/ /\ part \in {"replied", "voted", "hurried"} /\ Asked!Next
          /\ IF part = "voted" THEN text' = text ELSE vote' = vote /\ Replies
          /\ UNCHANGED <<vars, deliveryVars, panelVars, groupVars, accountVars>>
       \/ /\ part = "signed" /\ Signed!Next
          /\ UNCHANGED <<messageVars, resetVars, tenantVars, courseVars>>
       \/ /\ part \in {"coded", "linked"} /\ Reset!Next
          /\ IF part = "linked" THEN codes' = codes /\ typed' = typed ELSE links' = links
          /\ UNCHANGED <<messageVars, sessionVars, tenantVars, courseVars>>
       \/ /\ part = "tenant" /\ Tenant!Next
          /\ UNCHANGED <<messageVars, sessionVars, resetVars, courseVars>>
       \/ /\ part = "edited" /\ Edited!Next
          /\ UNCHANGED <<messageVars, sessionVars, resetVars, tenantVars>>

MCSpec == MCInit /\ [][MCNext]_<<part, messageVars, accountVars>>

\* The state of every service is what its tables and requests can hold.
MCTypeOK ==
    /\ TypeOK /\ Delivery!TypeOK /\ Panel!TypeOK /\ Group!TypeOK /\ Asked!TypeOK
    /\ Signed!TypeOK /\ Reset!TypeOK /\ Tenant!TypeOK /\ Edited!TypeOK

\* See CredentialDelivery, BroadcastPage, GroupQueue, FeedbackSurvey, Sessions,
\* PasswordReset, KomunikaTenant and Curriculum.
NobodyLockedOut == Delivery!NobodyLockedOut
EndToldOnce == Panel!EndToldOnce
PostedOnce == Group!PostedOnce
MannersKept == Asked!MannersKept
SessionsFollowAccount == Signed!SessionsFollowAccount
CodesRunOut == Reset!CodesRunOut
TenantFollowsAccount == Tenant!TenantFollowsAccount
OrderIsSaved == Edited!OrderIsSaved
=============================================================================
