------------------------------ MODULE Broadcast ------------------------------
(***************************************************************************)
(* A mass send of the panel: broadcast.service.ts and its routes in        *)
(* admin.routes.ts. The job and its recipients live in the database; every *)
(* process may run a loop over them, so a step is one awaited query or     *)
(* call and the code up to the next. The waits between two messages only   *)
(* delay the next reading of the status and are left out.                  *)
(***************************************************************************)
EXTENDS Integers, FiniteSets

CONSTANTS Recipients,
          Processes,       \* API processes, during a deploy more than one
          None,
          BadPhone,        \* recipients whose number is too short
          MaxCrashes       \* bound: processes that die

ASSUME BroadcastAssumption ==
    /\ None \notin Recipients \cup Processes
    /\ IsFiniteSet(Recipients)
    /\ MaxCrashes \in Nat

VARIABLES
    job,            \* AdminBroadcast.status
    channel,        \* what the job uses: WhatsApp, push
    count,          \* its counters sent, failed and coupons
    recipient,      \* AdminBroadcastRecipient.status
    coupon,         \* recipients who have their coupon
    starting,       \* process whose request created the job, before its recipients
    runner,         \* the loop of each process and the recipient it holds
    up,             \* processes that are up
    crashes,
    texted,         \* messages each recipient was sent (history)
    pushed          \* push rounds sent (history)

jobVars == <<job, channel, count>>
history == <<texted, pushed>>
vars == <<jobVars, recipient, coupon, starting, runner, up, crashes, history>>

Lifecycle == INSTANCE BroadcastJob

RecipientStatus == {"absent", "pending", "sending", "sent", "failed", "skipped"}
RunnerPoint == {"off", "load", "status", "find", "claim", "check", "coupon", "text",
                "markSent", "markFailed", "countSent", "countFailed", "close"}

Loop(point, r) == [at |-> point, to |-> r]
Off == Loop("off", None)

Init ==
    /\ job = "none"
    /\ channel = {}
    /\ count = [sent |-> 0, failed |-> 0, coupons |-> 0]
    /\ recipient = [r \in Recipients |-> "absent"]
    /\ coupon = {}
    /\ starting = None
    /\ runner = [p \in Processes |-> Off]
    /\ up = Processes
    /\ crashes = 0
    /\ texted = [r \in Recipients |-> 0]
    /\ pushed = 0

Goto(p, point) == runner' = [runner EXCEPT ![p] = Loop(point, @.to)]
Return(p) == runner' = [runner EXCEPT ![p] = Off]

\* launchRunner: one loop per process, started unless it is running.
Launch(p) ==
    runner' = [runner EXCEPT ![p] = IF @ = Off THEN Loop("load", None) ELSE @]

-----------------------------------------------------------------------------
(* POST /broadcast/send and /broadcast/control *)

\* startAdminBroadcast creates the job, already running.
CreateJob(p, channels) ==
    /\ job = "none"
    /\ p \in up
    /\ job' = "running"
    /\ channel' = channels
    /\ starting' = p
    /\ UNCHANGED <<count, recipient, coupon, runner, up, crashes, history>>

\* It inserts the recipients and starts the loop.
CreateRecipients(p) ==
    /\ starting = p
    /\ recipient' = [r \in Recipients |-> "pending"]
    /\ starting' = None
    /\ Launch(p)
    /\ UNCHANGED <<jobVars, coupon, up, crashes, history>>

Control(from, to) ==
    /\ job \in from
    /\ job' = to
    /\ UNCHANGED <<channel, count, recipient, coupon, starting, up, crashes, history>>

Pause == Control({"running"}, "paused") /\ UNCHANGED runner

\* Mutant: resume does not ask whether the job is paused.
ResumeAny(p) == p \in up /\ Control({"paused", "stopped"}, "running") /\ Launch(p)

\* Whichever process takes the request sees to it that a loop is running.
Resume(p) == p \in up /\ Control({"paused"}, "running") /\ Launch(p)

Stop == Control({"running", "paused"}, "stopped") /\ UNCHANGED runner

-----------------------------------------------------------------------------
(* runAdminBroadcast *)

Load(p) ==
    /\ runner[p].at = "load"
    /\ Goto(p, IF "whatsapp" \in channel THEN "status" ELSE "close")
    /\ UNCHANGED <<jobVars, recipient, coupon, starting, up, crashes, history>>

\* While the job is paused the loop sleeps and reads again.
ReadStatus(p) ==
    /\ runner[p].at = "status"
    /\ job # "paused"
    /\ IF job = "running" THEN Goto(p, "find") ELSE Return(p)
    /\ UNCHANGED <<jobVars, recipient, coupon, starting, up, crashes, history>>

\* Recipients are inserted in one statement: the oldest is any of them.
Find(p) ==
    /\ runner[p].at = "find"
    /\ \/ \E r \in Recipients : /\ recipient[r] = "pending"
                                /\ runner' = [runner EXCEPT ![p] = Loop("claim", r)]
       \/ /\ \A r \in Recipients : recipient[r] # "pending"
          /\ Goto(p, "close")
    /\ UNCHANGED <<jobVars, recipient, coupon, starting, up, crashes, history>>

\* Mutant: the claim does not ask whether the recipient is still pending.
ClaimAny(p) ==
    /\ runner[p].at = "claim"
    /\ recipient' = [recipient EXCEPT ![runner[p].to] = "sending"]
    /\ Goto(p, "check")
    /\ UNCHANGED <<jobVars, coupon, starting, up, crashes, history>>

\* The conditional update lets one loop have the recipient.
Claim(p) ==
    /\ runner[p].at = "claim"
    /\ IF recipient[runner[p].to] = "pending"
         THEN /\ recipient' = [recipient EXCEPT ![runner[p].to] = "sending"]
              /\ Goto(p, "check")
         ELSE /\ runner' = [runner EXCEPT ![p] = Loop("status", None)]
              /\ UNCHANGED recipient
    /\ UNCHANGED <<jobVars, coupon, starting, up, crashes, history>>

\* A number that is too short is skipped, and counts as a failure.
CheckPhone(p) ==
    /\ runner[p].at = "check"
    /\ IF runner[p].to \in BadPhone
         THEN /\ recipient' = [recipient EXCEPT ![runner[p].to] = "skipped"]
              /\ Goto(p, "countFailed")
         ELSE /\ Goto(p, "coupon")
              /\ UNCHANGED recipient
    /\ UNCHANGED <<jobVars, coupon, starting, up, crashes, history>>

\* ensureBroadcastCoupon: an existing one is used; a new one may fail at the
\* gateway, and the message goes out all the same.
EnsureCoupon(p) ==
    /\ runner[p].at = "coupon"
    /\ \/ UNCHANGED <<coupon, count>>
       \/ /\ runner[p].to \notin coupon
          /\ coupon' = coupon \cup {runner[p].to}
          /\ count' = [count EXCEPT !.coupons = @ + 1]
    /\ Goto(p, "text")
    /\ UNCHANGED <<job, channel, recipient, starting, up, crashes, history>>

\* A call that times out may have been delivered.
Text(p) ==
    /\ runner[p].at = "text"
    /\ \/ Goto(p, "markSent") /\ texted' = [texted EXCEPT ![runner[p].to] = @ + 1]
       \/ Goto(p, "markFailed") /\ texted' = [texted EXCEPT ![runner[p].to] = @ + 1]
       \/ Goto(p, "markFailed") /\ UNCHANGED texted
    /\ UNCHANGED <<jobVars, recipient, coupon, starting, up, crashes, pushed>>

Mark(p) ==
    /\ \/ /\ runner[p].at = "markSent"
          /\ recipient' = [recipient EXCEPT ![runner[p].to] = "sent"]
          /\ Goto(p, "countSent")
       \/ /\ runner[p].at = "markFailed"
          /\ recipient' = [recipient EXCEPT ![runner[p].to] = "failed"]
          /\ Goto(p, "countFailed")
    /\ UNCHANGED <<jobVars, coupon, starting, up, crashes, history>>

Count(p) ==
    /\ \/ runner[p].at = "countSent" /\ count' = [count EXCEPT !.sent = @ + 1]
       \/ runner[p].at = "countFailed" /\ count' = [count EXCEPT !.failed = @ + 1]
    /\ runner' = [runner EXCEPT ![p] = Loop("status", None)]
    /\ UNCHANGED <<job, channel, recipient, coupon, starting, up, crashes, history>>

\* The queue is empty: the job is closed unless somebody ended or paused it,
\* and who closed it sends the push.
Close(p) ==
    /\ runner[p].at = "close"
    /\ Return(p)
    /\ IF job = "running"
         THEN /\ job' = "done"
              /\ count' = IF "whatsapp" \in channel
                            THEN count ELSE [count EXCEPT !.sent = Cardinality(Recipients)]
              /\ pushed' = IF "push" \in channel THEN pushed + 1 ELSE pushed
         ELSE UNCHANGED <<job, count, pushed>>
    /\ UNCHANGED <<channel, recipient, coupon, starting, up, crashes, texted>>

\* A query that throws ends the loop and, if it can, the job.
RunnerFails(p) ==
    /\ runner[p] # Off
    /\ Return(p)
    /\ job' = IF job \in {"running", "paused"} THEN "error" ELSE job
    /\ UNCHANGED <<channel, count, recipient, coupon, starting, up, crashes, history>>

-----------------------------------------------------------------------------
(* Processes die and start again *)

Crash(p) ==
    /\ p \in up
    /\ crashes < MaxCrashes
    /\ crashes' = crashes + 1
    /\ up' = up \ {p}
    /\ Return(p)
    /\ starting' = IF starting = p THEN None ELSE starting
    /\ UNCHANGED <<jobVars, recipient, coupon, history>>

\* resumeInterruptedBroadcasts takes up the jobs left running.
Boot(p) ==
    /\ p \notin up
    /\ up' = up \cup {p}
    /\ IF job = "running" THEN Launch(p) ELSE UNCHANGED runner
    /\ UNCHANGED <<jobVars, recipient, coupon, starting, crashes, history>>

-----------------------------------------------------------------------------
RunnerStep(p) ==
    \/ Load(p) \/ ReadStatus(p) \/ Find(p) \/ Claim(p) \/ CheckPhone(p) \/ EnsureCoupon(p)
    \/ Text(p) \/ Mark(p) \/ Count(p) \/ Close(p) \/ RunnerFails(p)

Next ==
    \/ \E p \in Processes, channels \in SUBSET {"whatsapp", "push"} :
          channels # {} /\ CreateJob(p, channels)
    \/ \E p \in Processes : CreateRecipients(p) \/ Resume(p) \/ Crash(p) \/ Boot(p)
    \/ Pause
    \/ Stop
    \/ \E p \in Processes : RunnerStep(p)

Spec == Init /\ [][Next]_vars

-----------------------------------------------------------------------------
(* Properties *)

\* The state is what the two tables and the processes that run the job can hold.
TypeOK ==
    /\ job \in Lifecycle!JobStatus
    /\ channel \subseteq {"whatsapp", "push"}
    /\ count \in [sent : Nat, failed : Nat, coupons : Nat]
    /\ recipient \in [Recipients -> RecipientStatus]
    /\ coupon \subseteq Recipients
    /\ starting \in Processes \cup {None}
    /\ runner \in [Processes -> [at : RunnerPoint, to : Recipients \cup {None}]]
    /\ up \subseteq Processes
    /\ crashes \in 0..MaxCrashes
    /\ texted \in [Recipients -> Nat]
    /\ pushed \in Nat

\* Nobody is texted twice and the push goes out once, whatever processes run
\* the loop at once, die, take it up again, or are paused and resumed
\* (runAdminBroadcast: the claim; the close).
MessagedOnce ==
    /\ \A r \in Recipients : texted[r] <= 1
    /\ pushed <= 1

\* Seen from the panel the job runs, pauses, and ends for good: no loop that
\* read an older status and no resume brings an ended job back.
ImplementsLifecycle == Lifecycle!Spec

\* "A deploy in the middle loses nothing any more": a job that is done has
\* settled every recipient, or a loop is still at it.
NothingLost ==
    job = "done" /\ "whatsapp" \in channel =>
        \A r \in Recipients : recipient[r] \in {"pending", "sending"} =>
            \E p \in Processes : runner[p].to = r
=============================================================================
