----------------------------- MODULE GroupQueue -----------------------------
(***************************************************************************)
(* What the program posts in WhatsApp groups: the administrators' messages *)
(* to the members (membersGroup.ts) and the news of published pages        *)
(* (centralAnnounce.ts). Each is a table that a tick of every process      *)
(* works through, one entry a tick; a tick claims an entry by moving its   *)
(* date, guarded by the date it read.                                      *)
(* Time is counted in units of five minutes and passes while no request    *)
(* is under way: a request ends within that time.                          *)
(***************************************************************************)
EXTENDS Integers

CONSTANTS Messages,        \* messages of the administrators
          Pages,           \* pages of the Central
          Processes,
          Nothing,
          Lifetime,        \* 24 hours, in units of time
          MaxAttempts,     \* failures after which a message is given up: 5
          LastTime,        \* bound on the clock
          MaxFaults        \* bound: ticks that die and replies that are lost

VARIABLES
    entry,          \* rows of GroupMessageQueue and CentralAnnouncement
    page,           \* ContentPage.status
    tick,           \* the tick of each process
    now,
    faults,
    posted,         \* how often each entry was posted (history)
    late            \* a page was news a day after it was due (history)

vars == <<entry, page, tick, now, faults, posted, late>>

Entries == Messages \cup Pages
ClaimFor == 1      \* 5 minutes
Delay == 2         \* ANNOUNCE_DELAY_MS: 10 minutes

NoEntry == [status |-> "none", due |-> 0, attempts |-> 0, first |-> 0]
New(due) == [status |-> "pending", due |-> due, attempts |-> 0, first |-> due]
Idle == [at |-> "idle", entry |-> Nothing, read |-> NoEntry]

Init ==
    /\ entry = [e \in Entries |-> NoEntry]
    /\ page = [e \in Pages |-> "draft"]
    /\ tick = [p \in Processes |-> Idle]
    /\ now = 0
    /\ faults = 0
    /\ posted = [e \in Entries |-> 0]
    /\ late = FALSE

Goto(p, point) == tick' = [tick EXCEPT ![p].at = point]
Return(p) == tick' = [tick EXCEPT ![p] = Idle]
Item(p) == tick[p].entry

-----------------------------------------------------------------------------
(* Administrators *)

\* A message for now or for later.
EnqueueMessage(e) ==
    /\ entry[e].status = "none"
    /\ \E when \in {now, now + 1} : entry' = [entry EXCEPT ![e] = New(when)]
    /\ UNCHANGED <<page, tick, now, faults, posted, late>>

CancelMessage(e) ==
    /\ entry[e].status = "pending"
    /\ entry' = [entry EXCEPT ![e].status = "canceled"]
    /\ UNCHANGED <<page, tick, now, faults, posted, late>>

\* pageId is unique: a page that was queued once is not queued again.
AnnounceOnce(e) ==
    entry' = [entry EXCEPT ![e] = IF @.status = "none" THEN New(now + Delay) ELSE @]

\* A page that becomes public is queued; a failure of that is only logged.
Publish(e) ==
    /\ page[e] = "draft"
    /\ page' = [page EXCEPT ![e] = "published"]
    /\ AnnounceOnce(e) \/ UNCHANGED entry
    /\ UNCHANGED <<tick, now, faults, posted, late>>

Unpublish(e) ==
    /\ page[e] = "published"
    /\ \E state \in {"draft", "deleted"} : page' = [page EXCEPT ![e] = state]
    /\ UNCHANGED <<entry, tick, now, faults, posted, late>>

-----------------------------------------------------------------------------
(* A tick *)

Overdue(e) == entry[e].status = "pending" /\ entry[e].due + Lifetime < now

\* News that were due a day ago are given up.
Expire(p) ==
    /\ tick[p] = Idle
    /\ entry' = [e \in Entries |->
                   IF e \in Pages /\ Overdue(e) THEN [entry[e] EXCEPT !.status = "skipped"]
                   ELSE entry[e]]
    /\ Goto(p, "find")
    /\ UNCHANGED <<page, now, faults, posted, late>>

Due(queue) == {e \in queue : entry[e].status = "pending" /\ entry[e].due <= now}

\* The first entry of a queue that is due. Either queue has its tick; that of the
\* messages starts here.
Find(p) ==
    /\ \E queue \in {Messages, Pages} :
        /\ tick[p].at = IF queue = Pages THEN "find" ELSE "idle"
        /\ IF Due(queue) = {}
           THEN tick[p].at = "find" /\ Return(p)
           ELSE \E e \in Due(queue) :
                    /\ \A other \in Due(queue) : entry[e].due <= entry[other].due
                    /\ tick' = [tick EXCEPT ![p] = [at |-> "claim", entry |-> e, read |-> entry[e]]]
    /\ UNCHANGED <<entry, page, now, faults, posted, late>>

\* Mutant: the claim looks at the status alone.
UnclaimedStatus(p) == entry[Item(p)].status = "pending"

Unclaimed(p) == entry[Item(p)].status = "pending" /\ entry[Item(p)].due = tick[p].read.due

Claim(p) ==
    /\ tick[p].at = "claim"
    /\ IF Unclaimed(p)
       THEN entry' = [entry EXCEPT ![Item(p)].due = now + ClaimFor] /\ Goto(p, "check")
       ELSE Return(p) /\ UNCHANGED entry
    /\ UNCHANGED <<page, now, faults, posted, late>>

Attempted(p) == tick[p].read.attempts + 1

\* A message that failed is given up after MaxAttempts; news go on.
Failed(p) ==
    IF Item(p) \in Pages THEN UNCHANGED entry
    ELSE entry' = [entry EXCEPT ![Item(p)].attempts = Attempted(p),
                                ![Item(p)].status = IF Attempted(p) >= MaxAttempts
                                                    THEN "failed" ELSE @]

\* News need their page to be public; both need the group and the gateway's key.
\* A message without them is pending again, even if it was cancelled meanwhile.
Check(p) ==
    /\ tick[p].at = "check"
    /\ \/ /\ Item(p) \in Pages /\ page[Item(p)] # "published"
          /\ entry' = [entry EXCEPT ![Item(p)].status = "skipped"]
          /\ Return(p)
       \/ /\ Item(p) \in Pages => page[Item(p)] = "published"
          /\ Goto(p, "send")
          /\ UNCHANGED entry
       \/ /\ Item(p) \in Pages /\ page[Item(p)] = "published"
          /\ Return(p)
          /\ UNCHANGED entry
       \/ /\ Item(p) \in Messages
          /\ entry' = [entry EXCEPT ![Item(p)].attempts = Attempted(p),
                                    ![Item(p)].status = IF Attempted(p) >= MaxAttempts
                                                        THEN "failed" ELSE "pending"]
          /\ Return(p)
    /\ UNCHANGED <<page, now, faults, posted, late>>

Posting(e) ==
    /\ posted' = [posted EXCEPT ![e] = @ + 1]
    /\ late' = (late \/ (e \in Pages /\ entry[e].first + Lifetime < now))

Send(p) ==
    /\ tick[p].at = "send"
    /\ Posting(Item(p))
    /\ Goto(p, "sent")
    /\ UNCHANGED <<entry, page, now, faults>>

\* The gateway refuses, or answers that it does.
SendFails(p) ==
    /\ tick[p].at = "send"
    /\ Failed(p)
    /\ Return(p)
    /\ UNCHANGED <<page, now, faults, posted, late>>

\* The post was made and the reply was lost.
ReplyLost(p) ==
    /\ tick[p].at = "sent"
    /\ faults < MaxFaults
    /\ faults' = faults + 1
    /\ Failed(p)
    /\ Return(p)
    /\ UNCHANGED <<page, now, posted, late>>

\* Written over whatever the entry has become.
MarkSent(p) ==
    /\ tick[p].at = "sent"
    /\ entry' = [entry EXCEPT ![Item(p)].status = "sent"]
    /\ Return(p)
    /\ UNCHANGED <<page, now, faults, posted, late>>

-----------------------------------------------------------------------------
(* Environment *)

Crash(p) ==
    /\ tick[p] # Idle
    /\ faults < MaxFaults
    /\ faults' = faults + 1
    /\ Return(p)
    /\ UNCHANGED <<entry, page, now, posted, late>>

Pass ==
    /\ now < LastTime
    /\ \A p \in Processes : tick[p] = Idle
    /\ now' = now + 1
    /\ UNCHANGED <<entry, page, tick, faults, posted, late>>

Next ==
    \/ \E e \in Messages : EnqueueMessage(e) \/ CancelMessage(e)
    \/ \E e \in Pages : Publish(e) \/ Unpublish(e)
    \/ \E p \in Processes :
        \/ Expire(p) \/ Find(p) \/ Claim(p) \/ Check(p)
        \/ Send(p) \/ SendFails(p) \/ ReplyLost(p) \/ MarkSent(p)
        \/ Crash(p)
    \/ Pass

Spec == Init /\ [][Next]_vars

-----------------------------------------------------------------------------
(* Properties *)

Entry == [status : {"none", "pending", "sent", "failed", "canceled", "skipped"},
          due : 0..LastTime + Delay, attempts : 0..MaxAttempts, first : 0..LastTime + Delay]

\* The state is what the tables and the ticks can hold.
TypeOK ==
    /\ entry \in [Entries -> Entry]
    /\ page \in [Pages -> {"draft", "published", "deleted"}]
    /\ tick \in [Processes -> [at : {"idle", "find", "claim", "check", "send", "sent"},
                               entry : Entries \cup {Nothing}, read : Entry]]
    /\ now \in 0..LastTime
    /\ faults \in 0..MaxFaults
    /\ posted \in [Entries -> Nat]
    /\ late \in BOOLEAN

\* An entry is posted once, however often ticks overlap, its page is published
\* again or it is cancelled meanwhile; only a tick that dies, or a reply that is
\* lost, can make it appear twice.
PostedOnce == \A e \in Entries : posted[e] <= 1 + faults

\* News are never posted more than a day after they were due (centralAnnounce.ts,
\* lines 17-18). It does not hold: every claim moves the date that is compared.
NoLateNews == ~late
=============================================================================
