---------------------------- MODULE BroadcastPage ----------------------------
(***************************************************************************)
(* The broadcast page of the panel (frontend/app/admin/broadcast/page.tsx) *)
(* over jobs that move as BroadcastJob says. An interval asks for the job's *)
(* status every 2.5 seconds without waiting for the last answer, so that   *)
(* answers may overlap and come late; a control answers with the job too.  *)
(* An answer under way stands for any number of answers alike. Jobs are    *)
(* not deleted, and a send that creates nothing only frees the button:      *)
(* both are left out.                                                      *)
(***************************************************************************)
EXTENDS Integers

CONSTANTS MaxJobs,         \* bound: broadcasts sent
          Prompt           \* the next broadcast is sent when no answer is under way

VARIABLES
    job,          \* the jobs on the server, in the order they were created
    page,         \* closed, or the control point of the page
    sending,      \* the page's flag of the same name
    polling,      \* the interval is set
    watched,      \* jobId, the job the interval asks for; 0 is null
    shown,        \* jobStatus, "unknown" before any answer
    completed,    \* completedRef
    kept,         \* the page was opened on the stored job: leaving clears no interval
    stored,       \* the id in localStorage; 0 is none
    ghosts,       \* jobs that a page that was left may still hear the end of
    active,       \* the request for the active job, and what was read
    sent,         \* the job whose send is not answered yet; 0 is none
    answers,      \* answers to the polls under way: job and status
    replies,      \* answers to the controls under way
    told          \* how often the page told the end of each job since it was opened

pageVars == <<page, sending, polling, watched, shown, completed, kept>>
keyVars == <<stored, ghosts>>
netVars == <<active, sent, answers, replies>>
vars == <<job, pageVars, keyVars, netVars, told>>

\* Only its statuses and moves are used, of each of the jobs.
Server == INSTANCE BroadcastJob

Jobs == 1..MaxJobs
Created == {j \in Jobs : job[j] # "none"}
NotAsked == [at |-> "no", job |-> 0]

Init ==
    /\ job = [j \in Jobs |-> "none"]
    /\ page = "closed"
    /\ sending = FALSE
    /\ polling = FALSE
    /\ watched = 0
    /\ shown = "unknown"
    /\ completed = FALSE
    /\ kept = FALSE
    /\ stored = 0
    /\ ghosts = {}
    /\ active = NotAsked
    /\ sent = 0
    /\ answers = {}
    /\ replies = {}
    /\ told = [j \in Jobs |-> 0]

Move(j, moves) ==
    \E s \in Server!JobStatus : <<job[j], s>> \in moves /\ job' = [job EXCEPT ![j] = s]

\* The runner and other tabs move a job along.
ServerStep(j) ==
    /\ Move(j, Server!Pause \cup Server!Resume \cup Server!Stop \cup Server!Fail \cup Server!Finish)
    /\ UNCHANGED <<pageVars, keyVars, netVars, told>>

StartPolling(j) ==
    /\ polling' = TRUE
    /\ watched' = j
    /\ completed' = FALSE
    /\ sending' = TRUE
    /\ stored' = j

\* The page opens on the stored job, or asks for the active one; bound: not
\* before the answers to the requests of an earlier visit.
Open ==
    /\ page = "closed"
    /\ active = NotAsked /\ sent = 0
    /\ page' = "open"
    /\ kept' = (stored # 0)
    /\ IF stored # 0
         THEN StartPolling(stored) /\ UNCHANGED active
         ELSE /\ active' = [NotAsked EXCEPT !.at = "asked"]
              /\ UNCHANGED <<sending, polling, watched, completed, stored>>
    /\ UNCHANGED <<job, ghosts, shown, sent, answers, replies, told>>

\* Leaving drops the page's state. An interval that the reattachment set is
\* not cleared and polls on, its answers seen by nobody.
Leave ==
    /\ page = "open"
    /\ page' = "closed"
    /\ ghosts' = ghosts \cup (IF kept /\ polling THEN {watched} ELSE {})
                        \cup {j \in Jobs : \E s \in Server!Ended : <<j, s>> \in answers}
    /\ sending' = FALSE /\ polling' = FALSE /\ watched' = 0 /\ shown' = "unknown"
    /\ completed' = FALSE /\ kept' = FALSE
    /\ answers' = {} /\ replies' = {}
    /\ told' = [j \in Jobs |-> 0]
    /\ UNCHANGED <<job, stored, active, sent>>

\* It stops when it hears of the end, and then forgets the stored job,
\* whichever that is.
GhostHears(j) ==
    /\ j \in ghosts
    /\ job[j] \in Server!Ended
    /\ ghosts' = ghosts \ {j}
    /\ stored' = 0
    /\ UNCHANGED <<job, pageVars, netVars, told>>

\* GET /broadcast/active finds the newest live job.
ActiveRead ==
    /\ active.at = "asked"
    /\ LET live == {j \in Jobs : job[j] \in Server!Live}
       IN  \E j \in IF live = {} THEN {0} ELSE live :
              /\ \A i \in live : i <= j
              /\ active' = [at |-> "read", job |-> j]
    /\ UNCHANGED <<job, pageVars, keyVars, sent, answers, replies, told>>

\* The polling of job j starts, or one without eyes if the page was left.
Attach(j) ==
    \/ page = "open" /\ StartPolling(j) /\ UNCHANGED ghosts
    \/ /\ page = "closed"
       /\ stored' = j
       /\ ghosts' = ghosts \cup {j}
       /\ UNCHANGED <<sending, polling, watched, completed>>

\* A failed call changes nothing.
ActiveAnswered ==
    /\ active.at = "read"
    /\ active' = NotAsked
    /\ \/ active.job # 0 /\ Attach(active.job)
       \/ UNCHANGED <<sending, polling, watched, completed, keyVars>>
    /\ UNCHANGED <<job, page, kept, shown, sent, answers, replies, told>>

\* handleSend: the server creates the job.
Send(j) ==
    /\ page = "open"
    /\ ~sending
    /\ Prompt => active = NotAsked /\ answers = {} /\ replies = {}
    /\ sent = 0                      \* bound: one send at a time
    /\ \A i \in 1..(j - 1) : i \in Created
    /\ Move(j, Server!Launch)
    /\ sending' = TRUE
    /\ completed' = FALSE
    /\ sent' = j
    /\ UNCHANGED <<page, polling, watched, kept, shown, keyVars, active, answers, replies, told>>

\* Its answer starts the polling; one that is lost only frees the button.
SendAnswered ==
    /\ sent # 0
    /\ sent' = 0
    /\ \/ Attach(sent)
       \/ sending' = FALSE /\ UNCHANGED <<polling, watched, completed, keyVars>>
    /\ UNCHANGED <<job, page, kept, shown, active, answers, replies, told>>

\* The interval fires and the server reads the job.
Poll ==
    /\ polling
    /\ answers' = answers \cup {<<watched, job[watched]>>}
    /\ UNCHANGED <<job, pageVars, keyVars, active, sent, replies, told>>

\* Mutant: every answer of an ended job is told.
ApplyAlways(j, s) ==
    /\ shown' = s
    /\ completed' = (s \in Server!Ended)
    /\ told' = IF s \in Server!Ended THEN [told EXCEPT ![j] = @ + 1] ELSE told

\* applyJob: the end is told once.
Apply(j, s) ==
    /\ shown' = s
    /\ completed' = (completed \/ s \in Server!Ended)
    /\ told' = IF s \in Server!Ended /\ ~completed THEN [told EXCEPT ![j] = @ + 1] ELSE told

\* The answer of an ended job stops the polling and frees the button.
Answer(j, s) ==
    /\ <<j, s>> \in answers
    /\ answers' \in {answers, answers \ {<<j, s>>}}
    /\ Apply(j, s)
    /\ IF s \in Server!Ended
         THEN polling' = FALSE /\ sending' = FALSE /\ stored' = 0
         ELSE UNCHANGED <<polling, sending, stored>>
    /\ UNCHANGED <<job, page, watched, kept, ghosts, active, sent, replies>>

\* A poll that fails is ignored.
PollLost(j, s) ==
    /\ <<j, s>> \in answers
    /\ answers' = answers \ {<<j, s>>}
    /\ UNCHANGED <<job, pageVars, keyVars, active, sent, replies, told>>

\* controlJob, offered while the page shows a live job: the server moves a job
\* that allows it and answers with it, and refuses otherwise.
Press ==
    /\ watched # 0
    /\ \/ shown = "running" /\ Move(watched, Server!Pause)
       \/ shown = "paused" /\ Move(watched, Server!Resume)
       \/ shown \in Server!Live /\ Move(watched, Server!Stop)
    /\ replies' = replies \cup {<<watched, job'[watched]>>}
    /\ UNCHANGED <<pageVars, keyVars, active, sent, answers, told>>

\* Its answer is applied, and stops no polling.
ControlAnswered(j, s) ==
    /\ <<j, s>> \in replies
    /\ replies' \in {replies, replies \ {<<j, s>>}}
    /\ Apply(j, s)
    /\ UNCHANGED <<job, page, sending, polling, watched, kept, keyVars, active, sent, answers>>

Next ==
    \/ \E j \in Jobs : ServerStep(j) \/ GhostHears(j) \/ Send(j)
    \/ Open \/ Leave
    \/ ActiveRead \/ ActiveAnswered
    \/ SendAnswered
    \/ Poll
    \/ \E j \in Jobs, s \in Server!JobStatus : Answer(j, s) \/ PollLost(j, s) \/ ControlAnswered(j, s)
    \/ Press

Spec == Init /\ [][Next]_vars

-----------------------------------------------------------------------------
\* The state is what the jobs, the requests in flight and the page can hold.
TypeOK ==
    /\ job \in [Jobs -> Server!JobStatus]
    /\ page \in {"closed", "open"}
    /\ {sending, polling, completed, kept} \subseteq BOOLEAN
    /\ {watched, stored, sent} \subseteq 0..MaxJobs
    /\ shown \in Server!JobStatus \cup {"unknown"}
    /\ ghosts \subseteq Jobs
    /\ active \in [at : {"no", "asked", "read"}, job : 0..MaxJobs]
    /\ answers \subseteq Jobs \X Server!JobStatus
    /\ replies \subseteq Jobs \X Server!JobStatus
    /\ told \in [Jobs -> Nat]

\* Whatever answers overlap or come late, a page tells the end of each job at
\* most once and only when the job has ended, and never gives up a job that
\* goes on: while the polling is off its job has ended, and unless a send is
\* under way the button is free again (startPolling, applyJob, controlJob). It
\* takes that no answer is under way when the next broadcast is sent.
EndToldOnce ==
    /\ \A j \in Jobs : told[j] <= 1 /\ (told[j] > 0 => job[j] \in Server!Ended)
    /\ watched # 0 /\ ~polling => job[watched] \in Server!Ended
    /\ sending => polling \/ sent # 0
    /\ stored # 0 => polling \/ page = "closed"
=============================================================================
