-------------------------------- MODULE Radar --------------------------------
(***************************************************************************)
(* Prospecting: a member starts a search (radar.routes.ts), a worker fills *)
(* it with leads (scraper.worker.ts) and the page follows it by a stream   *)
(* of events, which has no replay, and by snapshots it asks for every six  *)
(* seconds (useRadar.ts). A lead is its search and its number in it.       *)
(***************************************************************************)
EXTENDS Integers, FiniteSets, Sequences

CONSTANTS Tabs,            \* the member's pages that may start a search at once
          Page,            \* the one that is followed here
          DailyLimit,      \* MAX_DAILY_SEARCHES
          LastSearch,      \* bound on the searches
          LastLead,        \* bound on the leads of a search
          MaxAnswers,      \* bound on the snapshots under way at once
          Hasty            \* a search may follow while answers about the last one are due

VARIABLES
    status,         \* ScrapeJob.status of each search
    leads,          \* how many leads each search has
    searched,       \* User.dailySearchCount
    today,          \* searches that were queued today (history)
    starting,       \* the start request of each tab
    waiting,        \* searches the queue holds
    stalled,        \* searches the queue has given out again
    worker,         \* what the worker does
    events,         \* events on their way in the page's stream
    stream,         \* "closed", "open", or "lost" until it connects again
    polling,        \* the interval is set
    answers,        \* snapshots under way
    page,           \* what the page shows
    gap             \* events of this search were not streamed (history)

jobs == <<status, leads>>
queued == <<waiting, stalled, worker>>
transport == <<events, stream, polling, answers>>
daily == <<searched, today>>
vars == <<jobs, daily, starting, queued, transport, page, gap>>

Searches == 1..LastSearch
None == 0
Resting == [at |-> "idle", search |-> None]
NotStarting == [at |-> "no", count |-> 0, search |-> None]
Event(kind, lead) == [kind |-> kind, lead |-> lead]

Init ==
    /\ status = [s \in Searches |-> "none"]
    /\ leads = [s \in Searches |-> 0]
    /\ searched = 0
    /\ today = 0
    /\ starting = [t \in Tabs |-> NotStarting]
    /\ waiting = {}
    /\ stalled = {}
    /\ worker = Resting
    /\ events = <<>>
    /\ stream = "closed"
    /\ polling = FALSE
    /\ answers = {}
    /\ page = [search |-> None, status |-> "idle", shown |-> {}, told |-> FALSE]
    /\ gap = FALSE

\* stopStreaming: a closed stream delivers nothing more, an answer under way comes.
StopStreaming == stream' = "closed" /\ events' = <<>> /\ polling' = FALSE

-----------------------------------------------------------------------------
(* POST /radar/start *)

At(t, point) == starting[t].at = point
GoOn(t, point) == starting' = [starting EXCEPT ![t].at = point]

\* startSearch: the page forgets what it showed.
StartSearch ==
    /\ page.status # "processing"
    /\ Hasty \/ answers = {}
    /\ At(Page, "no")
    /\ GoOn(Page, "count")
    /\ StopStreaming
    /\ page' = [search |-> None, status |-> "processing", shown |-> {}, told |-> FALSE]
    /\ gap' = FALSE
    /\ UNCHANGED <<jobs, daily, queued, answers>>

StartElsewhere(t) ==
    /\ t # Page
    /\ At(t, "no")
    /\ GoOn(t, "count")
    /\ UNCHANGED <<jobs, daily, queued, transport, page, gap>>

\* The page is told that the start failed.
Refused(t) ==
    /\ starting' = [starting EXCEPT ![t] = NotStarting]
    /\ IF t = Page
         THEN StopStreaming /\ page' = [page EXCEPT !.status = "failed"]
         ELSE UNCHANGED <<stream, events, polling, page>>

\* Mutant: one search more than the limit.
LeavesOneMore == searched <= DailyLimit

LeavesOne == searched < DailyLimit

\* The count is read, and refused if it leaves no search.
ReadCount(t) ==
    /\ At(t, "count")
    /\ IF LeavesOne
         THEN /\ starting' = [starting EXCEPT ![t].at = "create", ![t].count = searched]
              /\ UNCHANGED <<stream, events, polling, page>>
         ELSE Refused(t)
    /\ UNCHANGED <<jobs, daily, queued, answers, gap>>

CreateJob(t) ==
    /\ At(t, "create")
    /\ \E s \in Searches :
        /\ status[s] = "none"
        /\ \A k \in 1..(s - 1) : status[k] # "none"
        /\ status' = [status EXCEPT ![s] = "queued"]
        /\ starting' = [starting EXCEPT ![t].at = "save", ![t].search = s]
    /\ UNCHANGED <<leads, daily, queued, transport, page, gap>>

\* What is written is the count that was read, and one more.
SaveCount(t) ==
    /\ At(t, "save")
    /\ searched' = starting[t].count + 1
    /\ GoOn(t, "enqueue")
    /\ UNCHANGED <<jobs, today, queued, transport, page, gap>>

\* The page is told of its search after it was queued.
Enqueue(t) ==
    /\ At(t, "enqueue")
    /\ waiting' = waiting \cup {starting[t].search}
    /\ IF t = Page
         THEN GoOn(t, "told")
         ELSE starting' = [starting EXCEPT ![t] = NotStarting]
    /\ today' = today + 1
    /\ UNCHANGED <<jobs, searched, stalled, worker, transport, page, gap>>

\* A query fails, or the answer is lost: what was written stays.
StartFails(t) ==
    /\ starting[t].at \in {"count", "create", "save", "enqueue", "told"}
    /\ Refused(t)
    /\ UNCHANGED <<jobs, daily, queued, answers, gap>>

\* The page opens the stream and sets the interval.
Follow ==
    /\ At(Page, "told")
    /\ page' = [page EXCEPT !.search = starting[Page].search]
    /\ starting' = [starting EXCEPT ![Page] = NotStarting]
    /\ stream' = "lost"
    /\ polling' = TRUE
    /\ UNCHANGED <<jobs, daily, queued, events, answers, gap>>

\* A day later the count starts again; bound: between two searches.
NewDay ==
    /\ searched > 0
    /\ \A t \in Tabs : At(t, "no")
    /\ searched' = 0 /\ today' = 0
    /\ UNCHANGED <<jobs, starting, queued, transport, page, gap>>

\* DELETE /radar/campaigns/:id takes the leads along.
DeleteCampaign(s) ==
    /\ status[s] \notin {"none", "deleted"}
    /\ status' = [status EXCEPT ![s] = "deleted"]
    /\ leads' = [leads EXCEPT ![s] = 0]
    /\ UNCHANGED <<daily, starting, queued, transport, page, gap>>

-----------------------------------------------------------------------------
(* The worker *)

Current == worker.search

\* Events reach the streams that are connected to the search.
Publish(event) ==
    IF stream = "open" /\ page.search = Current
    THEN events' = Append(events, event) /\ UNCHANGED gap
    ELSE gap' = (gap \/ page.search = Current) /\ UNCHANGED events

Take ==
    /\ worker = Resting
    /\ \E s \in waiting :
        /\ \A k \in waiting : s <= k
        /\ waiting' = waiting \ {s}
        /\ worker' = [at |-> "mark", search |-> s]
    /\ UNCHANGED <<jobs, daily, starting, stalled, transport, page, gap>>

\* A search that was deleted fails here, and with it the queue's job.
MarkProcessing ==
    /\ worker.at = "mark"
    /\ IF status[Current] = "deleted"
         THEN worker' = Resting /\ UNCHANGED status
         ELSE /\ status' = [status EXCEPT ![Current] = "processing"]
              /\ worker' = [worker EXCEPT !.at = "scrape"]
    /\ UNCHANGED <<leads, daily, starting, waiting, stalled, transport, page, gap>>

\* A place that passes the filters; one that does not, or that fails, is left out.
AddLead ==
    /\ worker.at = "scrape"
    /\ status[Current] # "deleted"
    /\ leads[Current] < LastLead
    /\ leads' = [leads EXCEPT ![Current] = @ + 1]
    /\ Publish(Event("lead", leads[Current] + 1))
    /\ UNCHANGED <<status, daily, starting, queued, stream, polling, answers, page>>

\* The search ends, or an error ends it.
End ==
    /\ worker.at = "scrape"
    /\ status[Current] # "deleted"
    /\ \E end \in {"completed", "failed"} :
        /\ status' = [status EXCEPT ![Current] = end]
        /\ worker' = [worker EXCEPT !.at = end]
    /\ UNCHANGED <<leads, daily, starting, waiting, stalled, transport, page, gap>>

Announce ==
    /\ worker.at \in {"completed", "failed"}
    /\ Publish(Event(worker.at, 0))
    /\ worker' = Resting
    /\ UNCHANGED <<jobs, daily, starting, waiting, stalled, stream, polling, answers, page>>

\* The search was deleted, or the database fails twice: the queue's job fails and
\* nothing is written or published.
GiveUp ==
    /\ worker.at = "scrape"
    /\ worker' = Resting
    /\ UNCHANGED <<jobs, daily, starting, waiting, stalled, transport, page, gap>>

\* The queue gives the search of a worker that died to another, once.
WorkerDies ==
    /\ worker # Resting
    /\ worker' = Resting
    /\ waiting' = IF Current \in stalled THEN waiting ELSE waiting \cup {Current}
    /\ stalled' = stalled \cup {Current}
    /\ UNCHANGED <<jobs, daily, starting, transport, page, gap>>

-----------------------------------------------------------------------------
(* The page *)

\* What was published before it connects is not streamed.
Connect ==
    /\ stream = "lost"
    /\ stream' = "open"
    /\ gap' = (gap \/ leads[page.search] > 0)
    /\ UNCHANGED <<jobs, daily, starting, queued, events, polling, answers, page>>

\* The connection is lost with what is on its way; EventSource connects again.
Disconnect ==
    /\ stream = "open"
    /\ stream' = "lost"
    /\ gap' = (gap \/ events # <<>>)
    /\ events' = <<>>
    /\ UNCHANGED <<jobs, daily, starting, queued, polling, answers, page>>

\* onmessage: a lead is put on the page, an end ends the search.
Receive ==
    /\ events # <<>>
    /\ IF Head(events).kind = "lead"
         THEN /\ page' = [page EXCEPT !.shown = @ \cup {<<page.search, Head(events).lead>>}]
              /\ events' = Tail(events)
              /\ UNCHANGED <<stream, polling>>
         ELSE /\ page' = [page EXCEPT !.status = Head(events).kind, !.told = TRUE]
              /\ StopStreaming
    /\ UNCHANGED <<jobs, daily, starting, queued, answers, gap>>

\* The interval fires and the server answers with the search and all its leads,
\* or not at all: the page goes on asking.
Poll ==
    /\ polling
    /\ status[page.search] # "deleted"
    /\ Cardinality(answers) < MaxAnswers
    /\ answers' = answers \cup {[search |-> page.search, status |-> status[page.search],
                                 leads |-> leads[page.search]]}
    /\ UNCHANGED <<jobs, daily, starting, queued, events, stream, polling, page, gap>>

LeadsOf(answer) == {<<answer.search, l>> : l \in 1..answer.leads}

\* Mutant: the snapshot replaces what the page shows.
ReplaceLeads(answer) == LeadsOf(answer)

MergeLeads(answer) == page.shown \cup LeadsOf(answer)

\* The answer of a search that has ended ends what the page follows.
Answered ==
    \E answer \in answers :
        /\ answers' = answers \ {answer}
        /\ LET merged == [page EXCEPT !.shown = MergeLeads(answer)]
           IN  IF answer.status \in {"completed", "failed"}
               THEN /\ page' = [merged EXCEPT !.status = answer.status, !.told = TRUE]
                    /\ StopStreaming
               ELSE page' = merged /\ UNCHANGED <<events, stream, polling>>
        /\ UNCHANGED <<jobs, daily, starting, queued, gap>>

AnswerLost ==
    /\ \E answer \in answers : answers' = answers \ {answer}
    /\ UNCHANGED <<jobs, daily, starting, queued, events, stream, polling, page, gap>>

\* After six minutes the page calls the search completed.
TimeIsUp ==
    /\ polling
    /\ StopStreaming
    /\ page' = [page EXCEPT !.status = IF @ = "processing" THEN "completed" ELSE @]
    /\ UNCHANGED <<jobs, daily, starting, queued, answers, gap>>

\* The member leaves the page; bound: not while it waits for its search to start.
Leave ==
    /\ page.status # "idle"
    /\ At(Page, "no")
    /\ StopStreaming
    /\ answers' = {}
    /\ page' = [search |-> None, status |-> "idle", shown |-> {}, told |-> FALSE]
    /\ UNCHANGED <<jobs, daily, starting, queued, gap>>

-----------------------------------------------------------------------------
Next ==
    \/ StartSearch \/ Follow \/ NewDay
    \/ \E t \in Tabs : \/ StartElsewhere(t) \/ ReadCount(t) \/ CreateJob(t) \/ SaveCount(t)
                       \/ Enqueue(t) \/ StartFails(t)
    \/ \E s \in Searches : DeleteCampaign(s)
    \/ Take \/ MarkProcessing \/ AddLead \/ End \/ Announce \/ GiveUp \/ WorkerDies
    \/ Connect \/ Disconnect \/ Receive
    \/ Poll \/ Answered \/ AnswerLost \/ TimeIsUp
    \/ Leave

Spec == Init /\ [][Next]_vars

-----------------------------------------------------------------------------
(* Properties *)

Ends == {"completed", "failed"}

\* The state is what the job, the worker, the stream and the page can hold.
TypeOK ==
    /\ status \in [Searches -> {"none", "queued", "processing", "deleted"} \cup Ends]
    /\ leads \in [Searches -> 0..LastLead]
    /\ searched \in 0..DailyLimit
    /\ today \in Nat
    /\ starting \in [Tabs -> [at : {"no", "count", "create", "save", "enqueue", "told"},
                              count : 0..DailyLimit, search : Searches \cup {None}]]
    /\ waiting \subseteq Searches
    /\ stalled \subseteq Searches
    /\ worker \in [at : {"idle", "mark", "scrape"} \cup Ends, search : Searches \cup {None}]
    /\ events \in Seq([kind : {"lead"} \cup Ends, lead : 0..LastLead])
    /\ stream \in {"closed", "open", "lost"}
    /\ polling \in BOOLEAN
    /\ answers \subseteq [search : Searches, status : {"queued", "processing"} \cup Ends,
                          leads : 0..LastLead]
    /\ page \in [search : Searches \cup {None}, status : {"idle", "processing"} \cup Ends,
                 shown : SUBSET (Searches \X (1..LastLead)), told : BOOLEAN]
    /\ gap \in BOOLEAN

\* A page that was told that its search is complete shows all its leads and those
\* of no other search, whatever order events and snapshots come in; only an event
\* that could not be streamed, or a worker that took the search up again, can leave
\* one out (useRadar.ts: mergeLeads, the stream and the interval).
ShownIsWhole ==
    page.told /\ page.status = "completed" =>
        /\ page.search # None
        /\ page.shown \subseteq {page.search} \X (1..LastLead)
        /\ \/ gap \/ page.search \in stalled
           \/ Cardinality(page.shown) >= leads[page.search]

\* "Polling the DB snapshot guarantees the user still gets every lead and a final
\* status": the same, of a stream with gaps (useRadar.ts, lines 113-116).
EveryLeadShown ==
    page.told /\ page.status = "completed" /\ page.search \notin stalled =>
        Cardinality(page.shown) >= leads[page.search]

\* "Each city counts as 1 search" against the limit of the day: no more are queued
\* than it allows (radar.routes.ts, line 102).
LimitHolds == today <= DailyLimit
=============================================================================
