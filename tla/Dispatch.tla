------------------------------ MODULE Dispatch ------------------------------
(***************************************************************************)
(* Scheduled WhatsApp dispatches: dispatch.service.ts, the cancel route of *)
(* radar.routes.ts and the recovery at boot in cron.ts.                    *)
(*                                                                         *)
(* A dispatch is a row of ScheduledDispatch; several processes (replicas)  *)
(* claim and run dispatches, crash and boot. A run awaits the database and *)
(* the messaging API between its steps and sleeps between two contacts, so *)
(* the row may change under it. Of updatedAt only matters whether it is    *)
(* younger than the five minutes the recovery looks at; a call of the      *)
(* messaging API answers within them. Due times are past.                  *)
(***************************************************************************)
EXTENDS Integers, FiniteSets

CONSTANTS Dispatches,
          SdrDispatches,   \* those of mode 'sdr'
          Contacts,        \* number of contacts of a dispatch
          Nodes,           \* processes
          LongDelay,       \* the pause between contacts may exceed 5 minutes
          MaxCrashes,      \* bound: crashes of a process
          MaxErrors        \* bound: failing queries

ASSUME DispatchAssumption ==
    /\ SdrDispatches \subseteq Dispatches
    /\ Contacts \in Nat \ {0}
    /\ LongDelay \in BOOLEAN
    /\ {MaxCrashes, MaxErrors} \subseteq Nat

VARIABLES
    status,      \* ScheduledDispatch.status
    cursor,      \* ScheduledDispatch.lastContactIndex
    tally,       \* its sent and failed counters
    recent,      \* dispatches whose updatedAt is less than 5 minutes old
    run,         \* processDispatch, by process and dispatch
    up,          \* processes alive
    cancelling,  \* cancel requests between their read and their write
    crashes, errors,
    calls,       \* history: how often each contact was contacted
    saved,       \* history: contacts whose progress was persisted
    late         \* history: contacts made while the dispatch was cancelled

row == <<status, cursor, tally, recent>>
faults == <<crashes, errors>>
history == <<calls, saved, late>>
vars == <<row, run, up, cancelling, faults, history>>

Status == {"pending", "running", "completed", "failed", "cancelled"}
Final == {"completed", "failed", "cancelled"}
Point == {"idle", "setup", "check", "send", "save", "pause", "finish"}
Tally == [sent : Nat, failed : Nat]
Counted(t) == t.sent + t.failed
Add(t, o) == [sent |-> t.sent + o.sent, failed |-> t.failed + o.failed]

\* A run's local variables: the contacts behind it and its own counters.
Run == [at : Point, done : 0..Contacts, tally : Tally]
Stopped == [at |-> "idle", done |-> 0, tally |-> [sent |-> 0, failed |-> 0]]

Init ==
    /\ status = [d \in Dispatches |-> "pending"]
    /\ cursor = [d \in Dispatches |-> 0]
    /\ tally = [d \in Dispatches |-> [sent |-> 0, failed |-> 0]]
    /\ recent = Dispatches
    /\ run = [p \in Nodes \X Dispatches |-> Stopped]
    /\ up = {}
    /\ cancelling = {}
    /\ crashes = 0 /\ errors = 0
    /\ calls = [d \in Dispatches |-> [i \in 1..Contacts |-> 0]]
    /\ saved = [d \in Dispatches |-> 0]
    /\ late = [d \in Dispatches |-> 0]

-----------------------------------------------------------------------------
(* processDispatch *)

At(n, d, point) == run[<<n, d>>].at = point
Become(n, d, r) == run' = [run EXCEPT ![<<n, d>>] = r]
Goto(n, d, point) == Become(n, d, [run[<<n, d>>] EXCEPT !.at = point])
Touch(d) == recent' = recent \cup {d}

\* Mutant: a running dispatch can be claimed.
ClaimableWhileRunning(d) == status[d] \in {"pending", "running"}

Claimable(d) == status[d] = "pending"

\* The run of the tick, of the boot or of the route that made the dispatch:
\* only a pending row is claimed.
Claim(n, d) ==
    /\ n \in up
    /\ At(n, d, "idle")
    /\ Claimable(d)
    /\ status' = [status EXCEPT ![d] = "running"]
    /\ Touch(d)
    /\ Goto(n, d, "setup")
    /\ UNCHANGED <<cursor, tally, up, cancelling, faults, history>>

\* Mutant: the counters start over.
PersistedCursor(d) ==
    [at |-> "check", done |-> cursor[d], tally |-> [sent |-> 0, failed |-> 0]]

Persisted(d) == [at |-> "check", done |-> cursor[d], tally |-> tally[d]]

\* The run takes up the persisted cursor and counters.
Resume(n, d) ==
    /\ At(n, d, "setup")
    /\ Become(n, d, Persisted(d))
    /\ UNCHANGED <<row, up, cancelling, faults, history>>

\* The owner's credentials are missing.
FailSetup(n, d) ==
    /\ At(n, d, "setup")
    /\ status' = [status EXCEPT ![d] = "failed"]
    /\ Touch(d)
    /\ Become(n, d, Stopped)
    /\ UNCHANGED <<cursor, tally, up, cancelling, faults, history>>

\* Mutant: the status is not looked at between contacts.
StopsNever(d) == FALSE

Stops(d) == status[d] = "cancelled"

\* A cancellation is noticed between two contacts; the counters are saved, the
\* status is cancelled already.
CheckCancelled(n, d) ==
    LET r == run[<<n, d>>]
    IN  /\ r.at = "check"
        /\ IF r.done < Contacts /\ Stops(d)
             THEN /\ tally' = [tally EXCEPT ![d] = r.tally]
                  /\ Touch(d)
                  /\ Become(n, d, Stopped)
             ELSE /\ Goto(n, d, IF r.done < Contacts THEN "send" ELSE "finish")
                  /\ UNCHANGED <<tally, recent>>
        /\ UNCHANGED <<status, cursor, up, cancelling, faults, history>>

\* A contact adds one to a counter. When its log row cannot be written, the
\* catch counts it again, as failed; the sdr branch catches nothing.
Outcomes(d) ==
    {o \in [sent : 0..1, failed : 0..2] :
        Counted(o) = 1 \/ (Counted(o) = 2 /\ d \notin SdrDispatches)}

\* The contact is messaged, and counted by the answer.
Send(n, d, o) ==
    LET r == run[<<n, d>>]
    IN  /\ r.at = "send"
        /\ errors' = errors + Counted(o) - 1
        /\ errors' <= MaxErrors
        /\ calls' = [calls EXCEPT ![d][r.done + 1] = @ + 1]
        /\ late' = IF status[d] = "cancelled" THEN [late EXCEPT ![d] = @ + 1] ELSE late
        /\ Become(n, d, [at |-> "save", done |-> r.done,
                         tally |-> Add(r.tally, o)])
        /\ UNCHANGED <<row, up, cancelling, crashes, saved>>

\* Mutant: the cursor is left alone in every mode.
PassedNone(d, done) == cursor[d]

\* The cursor to persist; the branch of the sdr mode leaves it alone.
Passed(d, done) == IF d \in SdrDispatches THEN cursor[d] ELSE done + 1

\* Progress is persisted, and a pause follows when a contact is left.
SaveProgress(n, d) ==
    LET r == run[<<n, d>>]
    IN  /\ r.at = "save"
        /\ tally' = [tally EXCEPT ![d] = r.tally]
        /\ cursor' = [cursor EXCEPT ![d] = Passed(d, r.done)]
        /\ Touch(d)
        /\ saved' = [saved EXCEPT ![d] = r.done + 1]
        /\ Become(n, d, [at |-> IF r.done + 1 < Contacts THEN "pause" ELSE "check",
                         done |-> r.done + 1, tally |-> r.tally])
        /\ UNCHANGED <<status, up, cancelling, faults, calls, late>>

\* The pause between two contacts is over.
Wake(n, d) ==
    /\ At(n, d, "pause")
    /\ Goto(n, d, "check")
    /\ UNCHANGED <<row, up, cancelling, faults, history>>

\* The last write does not look at the status again.
Finish(n, d) ==
    LET r == run[<<n, d>>]
    IN  /\ r.at = "finish"
        /\ status' = [status EXCEPT ![d] =
                        IF r.tally.failed > 0 /\ r.tally.sent = 0 THEN "failed" ELSE "completed"]
        /\ tally' = [tally EXCEPT ![d] = r.tally]
        /\ Touch(d)
        /\ Become(n, d, Stopped)
        /\ UNCHANGED <<cursor, up, cancelling, faults, history>>

\* A query throws and the run ends where it is; its row stays running.
Abort(n, d) ==
    /\ ~At(n, d, "idle")
    /\ errors < MaxErrors
    /\ errors' = errors + 1
    /\ Become(n, d, Stopped)
    /\ UNCHANGED <<row, up, cancelling, crashes, history>>

-----------------------------------------------------------------------------
(* The cancel route, time, crashes and boots *)

\* The route refuses a dispatch that is over, then writes without a condition.
RequestCancel(d) ==
    /\ status[d] \notin Final
    /\ cancelling' = cancelling \cup {d}
    /\ UNCHANGED <<row, run, up, faults, history>>

Cancel(d) ==
    /\ d \in cancelling
    /\ cancelling' = cancelling \ {d}
    /\ status' = [status EXCEPT ![d] = "cancelled"]
    /\ Touch(d)
    /\ UNCHANGED <<cursor, tally, run, up, faults, history>>

\* Five minutes pass without a write: the dispatch has no run, or one that
\* pauses that long.
Age(d) ==
    /\ d \in recent
    /\ \A n \in Nodes : At(n, d, "idle") \/ (LongDelay /\ At(n, d, "pause"))
    /\ recent' = recent \ {d}
    /\ UNCHANGED <<status, cursor, tally, run, up, cancelling, faults, history>>

Crash(n) ==
    /\ n \in up
    /\ crashes < MaxCrashes
    /\ crashes' = crashes + 1
    /\ up' = up \ {n}
    /\ run' = [p \in Nodes \X Dispatches |-> IF p[1] = n THEN Stopped ELSE run[p]]
    /\ UNCHANGED <<row, cancelling, errors, history>>

Orphan(d) == d \notin recent /\ status[d] = "running"

\* recoverOrphanedDispatches: running rows without progress for 5 minutes are
\* pending again.
Boot(n) ==
    LET orphans == {d \in Dispatches : Orphan(d)}
    IN  /\ n \notin up
        /\ up' = up \cup {n}
        /\ status' = [d \in Dispatches |-> IF d \in orphans THEN "pending" ELSE status[d]]
        /\ recent' = recent \cup orphans
        /\ UNCHANGED <<cursor, tally, run, cancelling, faults, history>>

-----------------------------------------------------------------------------
RunStep(n, d) ==
    \/ Claim(n, d)
    \/ Resume(n, d) \/ FailSetup(n, d)
    \/ CheckCancelled(n, d)
    \/ \E o \in Outcomes(d) : Send(n, d, o)
    \/ SaveProgress(n, d) \/ Wake(n, d)
    \/ Finish(n, d)

Next ==
    \/ \E n \in Nodes : Crash(n) \/ Boot(n)
    \/ \E n \in Nodes, d \in Dispatches : RunStep(n, d) \/ Abort(n, d)
    \/ \E d \in Dispatches : RequestCancel(d) \/ Cancel(d) \/ Age(d)

\* Ticks come every 30 seconds, a run goes on, a process that died is started.
Fairness ==
    /\ \A n \in Nodes : WF_vars(Boot(n))
    /\ \A n \in Nodes, d \in Dispatches : WF_vars(RunStep(n, d))

Spec == Init /\ [][Next]_vars
FairSpec == Spec /\ Fairness

-----------------------------------------------------------------------------
(* Properties *)

TypeOK ==
    /\ status \in [Dispatches -> Status]
    /\ cursor \in [Dispatches -> 0..Contacts]
    /\ tally \in [Dispatches -> Tally]
    /\ recent \subseteq Dispatches
    /\ run \in [Nodes \X Dispatches -> Run]
    /\ up \subseteq Nodes
    /\ cancelling \subseteq Dispatches
    /\ crashes \in 0..MaxCrashes /\ errors \in 0..MaxErrors
    /\ calls \in [Dispatches -> [1..Contacts -> Nat]]
    /\ saved \in [Dispatches -> 0..Contacts]
    /\ late \in [Dispatches -> Nat]

\* Two processes never send the same dispatch at once, whatever crashes, boots
\* and ticks there are (the claim, and the recovery's care not to steal a
\* dispatch from the replica that runs it).
SingleSender ==
    \A d \in Dispatches : \A m, n \in Nodes :
        ~At(m, d, "idle") /\ ~At(n, d, "idle") => m = n

\* "Um restart no meio nao recomeca do contato 0": a contact behind the
\* progress that was persisted is never contacted again.
NeverResent ==
    [][\A d \in Dispatches : \A i \in 1..Contacts :
          i <= saved[d] => calls'[d][i] = calls[d][i]]_vars

\* A dispatch that ends completed went through all its contacts and its
\* counters know of each of them, over any number of crashes and resumptions.
CompletedIsWhole ==
    \A d \in Dispatches : status[d] = "completed" =>
        /\ \A i \in 1..Contacts : calls[d][i] > 0
        /\ Counted(tally[d]) >= Contacts

\* Cancelled dispatches "stop at the next contact boundary": at most the
\* contact in hand is still made.
CancelStops == \A d \in Dispatches : late[d] <= 1

\* What is over is not taken up again by a tick, a boot or a late cancel.
OverIsOver ==
    [][\A d \in Dispatches : status[d] \in Final => status'[d] \in Final]_vars

\* "Any 'running' rows left over from a previous process crash ... get picked
\* up": what was started comes to an end.
StartedEnds == \A d \in Dispatches : status[d] = "running" ~> status[d] \in Final
=============================================================================
