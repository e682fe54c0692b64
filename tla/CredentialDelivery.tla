------------------------- MODULE CredentialDelivery -------------------------
(***************************************************************************)
(* The queue that sends passwords (credentialDelivery.service.ts): a tick  *)
(* in every process, the immediate attempt of the order webhook, and the   *)
(* class enrolment that fills the queue. Passwords are not modelled, only  *)
(* who set the current one and whether its user was told.                  *)
(* Time is counted in units of five minutes. It passes while nobody is at  *)
(* work: a tick or an attempt ends within its timeouts, which are seconds. *)
(***************************************************************************)
EXTENDS Integers

CONSTANTS Users,
          Processes,
          None,
          Unmailable,      \* users whose e-mail is a placeholder
          Limit,           \* emailDailyLimit
          MaxCrashes,      \* bound: processes that die
          Overlapping,     \* a purchase or a class may meet a tick that holds its user
          Reenrolled       \* a class may enrol who was already sent a password

VARIABLES
    row,            \* CredentialDelivery of each user
    quota,          \* SystemConfig: emailQuotaUsed, Exhausted, Date = today
    worker,         \* the tick of each process
    buying,         \* the immediate attempt of each user's purchase
    queueing,       \* the row a purchase or a class has yet to write
    setBy,          \* who set the user's current password
    knows,          \* users who were told their current password
    since,          \* time since the last sentAt of channel whatsapp, at most Gap
    crashes,
    lost,           \* users whose row was never written (history)
    burst           \* the queue texted two people within the gap (history)

rows == <<row, since>>
passwords == <<setBy, knows>>
history == <<lost, burst>>
vars == <<rows, quota, worker, buying, queueing, passwords, crashes, history>>

Grace == 2        \* 10 minutes
ClaimFor == 1     \* 5 minutes
Retry == 2        \* 10 minutes
Gap == 3          \* 15 minutes, at random up to 20

GiveUpAfter == 3

NoRow == [status |-> "none", channel |-> "email", attempts |-> 0, due |-> 0]
Idle == [at |-> "idle", user |-> None, read |-> NoRow]

Init ==
    /\ row = [u \in Users |-> NoRow]
    /\ quota = [used |-> 0, exhausted |-> FALSE, today |-> TRUE]
    /\ worker = [p \in Processes |-> Idle]
    /\ buying = [u \in Users |-> "no"]
    /\ queueing = [u \in Users |-> "no"]
    /\ setBy = [u \in Users |-> None]
    /\ knows = Users
    /\ since = Gap
    /\ crashes = 0
    /\ lost = {}
    /\ burst = FALSE

Goto(p, point) == worker' = [worker EXCEPT ![p].at = point]
Return(p) == worker' = [worker EXCEPT ![p] = Idle]
AtWebhook(u) == buying[u] # "no" \/ queueing[u] # "no"

\* A new password, which nobody knows yet.
Rotate(u, by) == setBy' = [setBy EXCEPT ![u] = by] /\ knows' = knows \ {u}

\* A message with the password that `by' set.
Tell(u, by) == knows' = IF setBy[u] = by THEN knows \cup {u} ELSE knows

-----------------------------------------------------------------------------
(* Purchase and class *)

\* The webhook gives a new buyer a password, starts the upsert of the row and
\* does not wait for it.
Purchase(u) ==
    /\ ~AtWebhook(u)
    /\ Overlapping \/ \A p \in Processes : worker[p].user # u
    /\ Rotate(u, "web")
    /\ buying' = [buying EXCEPT ![u] = "email"]
    /\ queueing' = [queueing EXCEPT ![u] = "purchase"]
    /\ UNCHANGED <<rows, quota, worker, crashes, history>>

\* bulkEnroll gives everybody a new password, whoever has an account already
\* included, and queues them at the end.
Enrol(u) ==
    /\ Reenrolled \/ row[u].status # "sent"
    /\ ~AtWebhook(u)
    /\ Overlapping \/ \A p \in Processes : worker[p].user # u
    /\ Rotate(u, "class")
    /\ queueing' = [queueing EXCEPT ![u] = "class"]
    /\ UNCHANGED <<rows, quota, worker, buying, crashes, history>>

\* A purchase re-arms an old row and leaves the immediate attempt its grace; a
\* class skips who is in the queue already.
Enqueue(u) ==
    /\ queueing[u] # "no"
    /\ queueing' = [queueing EXCEPT ![u] = "no"]
    /\ row' = [row EXCEPT ![u] =
                 IF queueing[u] = "purchase" THEN [NoRow EXCEPT !.status = "pending", !.due = Grace]
                 ELSE IF @.status = "none" THEN [NoRow EXCEPT !.status = "pending"]
                 ELSE @]
    /\ UNCHANGED <<quota, worker, buying, passwords, since, crashes, history>>

\* A failed upsert is only logged.
EnqueueFails(u) ==
    /\ queueing[u] # "no"
    /\ queueing' = [queueing EXCEPT ![u] = "no"]
    /\ lost' = lost \cup {u}
    /\ UNCHANGED <<rows, quota, worker, buying, passwords, crashes, burst>>

\* The immediate attempt: e-mail, then WhatsApp, then the mark if either went
\* out. What went out may also be reported as failed.
EmailAtOnce(u) ==
    /\ buying[u] = "email"
    /\ \/ Tell(u, "web") /\ buying' = [buying EXCEPT ![u] = "textMailed"]
       \/ (Tell(u, "web") \/ UNCHANGED knows) /\ buying' = [buying EXCEPT ![u] = "text"]
    /\ UNCHANGED <<rows, quota, worker, queueing, setBy, crashes, history>>

TextAtOnce(u) ==
    /\ buying[u] \in {"text", "textMailed"}
    /\ \/ Tell(u, "web") /\ buying' = [buying EXCEPT ![u] = "markText"]
       \/ /\ Tell(u, "web") \/ UNCHANGED knows
          /\ buying' = [buying EXCEPT ![u] = IF @ = "textMailed" THEN "markMail" ELSE "no"]
    /\ UNCHANGED <<rows, quota, worker, queueing, setBy, crashes, history>>

\* markCredentialDelivered: a pending row is sent; the attempt itself is not
\* counted in the quota.
Mark(u) ==
    /\ buying[u] \in {"markText", "markMail"}
    /\ buying' = [buying EXCEPT ![u] = "no"]
    /\ IF row[u].status = "pending"
         THEN /\ row' = [row EXCEPT ![u].status = "sent",
                                    ![u].channel = IF buying[u] = "markText"
                                                     THEN "whatsapp" ELSE "email"]
              /\ since' = IF buying[u] = "markText" THEN 0 ELSE since
         ELSE UNCHANGED rows
    /\ UNCHANGED <<quota, worker, queueing, passwords, crashes, history>>

-----------------------------------------------------------------------------
(* processCredentialDeliveries *)

\* The oldest due row; any of them, since the order is that of enrolment.
Find(p, u) ==
    /\ worker[p].at = "idle"
    /\ row[u].status = "pending" /\ row[u].due = 0
    /\ Overlapping \/ ~AtWebhook(u)
    /\ worker' = [worker EXCEPT ![p] = [at |-> "claim", user |-> u, read |-> row[u]]]
    /\ UNCHANGED <<rows, quota, buying, queueing, passwords, crashes, history>>

\* Mutant: the claim does not ask for the due date it read.
ClaimPending(p) ==
    /\ worker[p].at = "claim"
    /\ LET u == worker[p].user
       IN  IF row[u].status = "pending"
             THEN row' = [row EXCEPT ![u].due = ClaimFor] /\ Goto(p, "quota")
             ELSE UNCHANGED row /\ Return(p)
    /\ UNCHANGED <<quota, buying, queueing, passwords, since, crashes, history>>

\* The claim pushes the due date, provided it is still the one read.
Claim(p) ==
    /\ worker[p].at = "claim"
    /\ LET u == worker[p].user
       IN  IF row[u].status = "pending" /\ row[u].due = worker[p].read.due
             THEN row' = [row EXCEPT ![u].due = ClaimFor] /\ Goto(p, "quota")
             ELSE UNCHANGED row /\ Return(p)
    /\ UNCHANGED <<quota, buying, queueing, passwords, since, crashes, history>>

\* readQuota turns the counter over at the first reading of a day.
Today == IF quota.today THEN quota ELSE [used |-> 0, exhausted |-> FALSE, today |-> TRUE]
MayMail(u) == u \notin Unmailable /\ ~Today.exhausted /\ Today.used < Limit

\* nextWhatsappSlot: from the last message sent, a random gap.
Slots == {IF g > since THEN g - since ELSE 0 : g \in Gap..(Gap + 1)}

\* Without e-mail the row changes channel and waits for its slot, or fails when
\* there is no telephone either; otherwise it is sent now.
Route(p) ==
    /\ worker[p].at = "quota"
    /\ quota' = Today
    /\ LET u == worker[p].user
       IN  \/ /\ worker[p].read.channel = "whatsapp" \/ MayMail(u)
              /\ Goto(p, "rotate")
              /\ UNCHANGED row
           \/ /\ worker[p].read.channel = "email" /\ ~MayMail(u)
              /\ Return(p)
              /\ \/ row' = [row EXCEPT ![u].status = "failed"]
                 \/ \E slot \in Slots :
                       row' = [row EXCEPT ![u].channel = "whatsapp", ![u].due = slot]
    /\ UNCHANGED <<buying, queueing, passwords, since, crashes, history>>

RotatePassword(p) ==
    /\ worker[p].at = "rotate"
    /\ Rotate(worker[p].user, p)
    /\ Goto(p, "send")
    /\ UNCHANGED <<rows, quota, buying, queueing, crashes, history>>

\* A refusal for the limit closes e-mail for the day; a call that times out may
\* have been delivered.
Send(p) ==
    /\ worker[p].at = "send"
    /\ LET u == worker[p].user
           mails == worker[p].read.channel = "email"
       IN  /\ \/ Tell(u, p) /\ Goto(p, IF mails THEN "bump" ELSE "sent") /\ UNCHANGED quota
              \/ Tell(u, p) /\ Goto(p, "failed") /\ UNCHANGED quota
              \/ /\ UNCHANGED knows
                 /\ Goto(p, "failed")
                 /\ \/ UNCHANGED quota
                    \/ mails /\ quota' = [quota EXCEPT !.exhausted = TRUE, !.today = TRUE]
           /\ burst' = (burst \/ (~mails /\ since < Gap))
    /\ UNCHANGED <<rows, buying, queueing, setBy, crashes, lost>>

\* bumpQuota counts, and writes today's date whatever day the counter is of.
Bump(p) ==
    /\ worker[p].at = "bump"
    /\ quota' = [quota EXCEPT !.used = IF @ < Limit THEN @ + 1 ELSE @, !.today = TRUE]
    /\ Goto(p, "sent")
    /\ UNCHANGED <<rows, buying, queueing, passwords, crashes, history>>

\* The last update asks for nothing.
Finish(p) ==
    /\ worker[p].at \in {"sent", "failed"}
    /\ Return(p)
    /\ LET u == worker[p].user
           tries == worker[p].read.attempts + 1
       IN  IF worker[p].at = "sent"
             THEN /\ row' = [row EXCEPT ![u].status = "sent", ![u].attempts = tries]
                  /\ since' = IF row[u].channel = "whatsapp" THEN 0 ELSE since
             ELSE /\ row' = [row EXCEPT
                               ![u].status = IF tries >= GiveUpAfter THEN "failed" ELSE "pending",
                               ![u].attempts = tries, ![u].due = Retry]
                  /\ UNCHANGED since
    /\ UNCHANGED <<quota, buying, queueing, passwords, crashes, history>>

\* A process dies with its tick, or with the purchases or the class it handles.
Crash ==
    /\ crashes < MaxCrashes
    /\ crashes' = crashes + 1
    /\ \/ \E p \in Processes : worker[p] # Idle /\ Return(p)
          /\ UNCHANGED <<buying, queueing, lost>>
       \/ \E u \in Users :
          /\ AtWebhook(u)
          /\ buying' = [buying EXCEPT ![u] = "no"]
          /\ queueing' = [queueing EXCEPT ![u] = "no"]
          /\ lost' = IF queueing[u] # "no" THEN lost \cup {u} ELSE lost
          /\ UNCHANGED worker
    /\ UNCHANGED <<rows, quota, passwords, burst>>

NewDay ==
    /\ quota.today
    /\ quota' = [quota EXCEPT !.today = FALSE]
    /\ UNCHANGED <<rows, worker, buying, queueing, passwords, crashes, history>>

Elapse ==
    /\ \A p \in Processes : worker[p] = Idle
    /\ \A u \in Users : ~AtWebhook(u)
    /\ row' = [u \in Users |-> [row[u] EXCEPT !.due = IF @ > 0 THEN @ - 1 ELSE 0]]
    /\ since' = IF since < Gap THEN since + 1 ELSE since
    /\ UNCHANGED <<quota, worker, buying, queueing, passwords, crashes, history>>

-----------------------------------------------------------------------------
Order(u) == \/ Purchase(u) \/ Enrol(u) \/ Enqueue(u) \/ EnqueueFails(u)
            \/ EmailAtOnce(u) \/ TextAtOnce(u) \/ Mark(u)

Tick(p) == \/ \E u \in Users : Find(p, u)
           \/ Claim(p) \/ Route(p) \/ RotatePassword(p) \/ Send(p) \/ Bump(p) \/ Finish(p)

Next ==
    \/ \E u \in Users : Order(u)
    \/ \E p \in Processes : Tick(p)
    \/ Crash
    \/ NewDay
    \/ Elapse

Spec == Init /\ [][Next]_vars

-----------------------------------------------------------------------------
RowType == [status : {"none", "pending", "sent", "failed"}, channel : {"email", "whatsapp"},
            attempts : 0..GiveUpAfter, due : 0..(Gap + 1)]

\* The state is what the queue, the accounts and the tick can hold.
TypeOK ==
    /\ row \in [Users -> RowType]
    /\ quota \in [used : 0..Limit, exhausted : BOOLEAN, today : BOOLEAN]
    /\ worker \in [Processes ->
                     [at : {"idle", "claim", "quota", "rotate", "send", "bump", "sent", "failed"},
                      user : Users \cup {None}, read : RowType]]
    /\ buying \in [Users -> {"no", "email", "text", "textMailed", "markText", "markMail"}]
    /\ queueing \in [Users -> {"no", "purchase", "class"}]
    /\ setBy \in [Users -> Processes \cup {"web", "class", None}]
    /\ knows \subseteq Users
    /\ since \in 0..Gap
    /\ crashes \in 0..MaxCrashes
    /\ lost \subseteq Users
    /\ burst \in BOOLEAN

\* Nobody is locked out in silence: whoever does not know the current password
\* is in the queue or marked as failed, or the row is about to be written, or its
\* write was lost. Ticks that meet, retries that rotate the password again and
\* crashes between the rotation, the message and the mark do not change that
\* (processCredentialDeliveries, markCredentialDelivered).
NobodyLockedOut ==
    \A u \in Users \ knows :
        row[u].status \in {"pending", "failed"} \/ queueing[u] # "no" \/ u \in lost

\* "15 to 20 minutes BETWEEN people, never in a burst": the queue sends no
\* WhatsApp message within the gap after the last one (nextWhatsappSlot).
WhatsappSpaced == ~burst
=============================================================================
