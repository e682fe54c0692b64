---------------------------- MODULE GroupRemoval ----------------------------
(***************************************************************************)
(* Removal of lapsed members from the WhatsApp group (membersGroup.ts):    *)
(* a daily check and the administrators queue participants, and a tick     *)
(* removes them in small batches, with a pause between batches, after it   *)
(* looked at each subscription again.                                      *)
(* A person is known by the phone of a participant. Rows of the queue that *)
(* are no longer pending do not matter to it and are left out.             *)
(***************************************************************************)
EXTENDS Integers, Sequences, SequencesExt

CONSTANTS People,
          Shared,          \* those whose phone also has an account with no plan
          Team,            \* administrators, of the program or of the group
          Stuck,           \* those whose removal the gateway always refuses
          BatchSize,       \* REMOVAL_BATCH_SIZE: 3
          MaxAttempts,     \* failures after which a row is given up: 5
          MaxRestarts,     \* bound
          Nobody

ASSUME RemovalAssumption ==
    /\ BatchSize \in Nat \ {0}
    /\ MaxAttempts \in Nat \ {0}
    /\ MaxRestarts \in Nat

VARIABLES
    subscription,   \* "active", "grace" (lapsed for less than three days), "lapsed"
    inGroup,        \* participants
    queue,          \* pending rows of GroupRemovalQueue, oldest first
    adding,         \* people that the daily check and an administrator have yet to queue
    unseen,         \* whom either of them looked up and did not find pending
    resting,        \* nextRemovalBatchAt lies ahead
    batch,          \* rows of the batch yet to be checked
    kept,           \* rows of the batch that were checked and are to be removed
    restarts

tickState == <<resting, batch, kept>>
addState == <<adding, unseen>>
vars == <<subscription, inGroup, queue, addState, tickState, restarts>>

Adders == {"auto", "admin"}
Rows == [who : People, requestedBy : Adders, attempts : 0..MaxAttempts]

Init ==
    /\ subscription = [p \in People |-> "active"]
    /\ inGroup = People
    /\ queue = <<>>
    /\ adding = [a \in Adders |-> {}]
    /\ unseen = [a \in Adders |-> Nobody]
    /\ resting = FALSE
    /\ batch = <<>>
    /\ kept = <<>>
    /\ restarts = 0

-----------------------------------------------------------------------------
(* Members *)

Subscribe(p, status) ==
    /\ subscription' = [subscription EXCEPT ![p] = status]
    /\ UNCHANGED <<inGroup, queue, addState, tickState, restarts>>

Lapse(p) == subscription[p] = "active" /\ Subscribe(p, "grace")
GraceEnds(p) == subscription[p] = "grace" /\ Subscribe(p, "lapsed")
Renew(p) == subscription[p] # "active" /\ Subscribe(p, "active")

Join(p) ==
    /\ subscription[p] = "active"
    /\ inGroup' = inGroup \cup {p}
    /\ UNCHANGED <<subscription, queue, addState, tickState, restarts>>

-----------------------------------------------------------------------------
(* Queueing *)

\* Of the accounts of a phone the best one counts.
ToRemove == {p \in inGroup \ Team : subscription[p] # "active"}

\* autoEnqueueExpired, once a day.
Daily ==
    /\ adding["auto"] = {} /\ unseen["auto"] = Nobody
    /\ adding' = [adding EXCEPT !["auto"] = {p \in ToRemove : subscription[p] = "lapsed"}]
    /\ UNCHANGED <<subscription, inGroup, queue, unseen, tickState, restarts>>

\* An administrator picks among those the page showed as to be removed, in their
\* days of grace or not.
RequestRemoval(p) ==
    /\ adding["admin"] = {} /\ unseen["admin"] = Nobody
    /\ p \in ToRemove
    /\ adding' = [adding EXCEPT !["admin"] = {p}]
    /\ UNCHANGED <<subscription, inGroup, queue, unseen, tickState, restarts>>

Pending(p) == \E r \in Range(queue) : r.who = p

\* enqueueGroupRemovals looks for a pending row ...
LookUp(a) ==
    /\ unseen[a] = Nobody
    /\ \E p \in adding[a] :
        /\ adding' = [adding EXCEPT ![a] = @ \ {p}]
        /\ unseen' = [unseen EXCEPT ![a] = IF Pending(p) THEN Nobody ELSE p]
    /\ UNCHANGED <<subscription, inGroup, queue, tickState, restarts>>

\* ... and creates one.
Enqueue(a) ==
    /\ unseen[a] # Nobody
    /\ queue' = Append(queue, [who |-> unseen[a], requestedBy |-> a, attempts |-> 0])
    /\ unseen' = [unseen EXCEPT ![a] = Nobody]
    /\ UNCHANGED <<subscription, inGroup, adding, tickState, restarts>>

-----------------------------------------------------------------------------
(* A batch: processGroupRemovalQueue *)

\* The rows of s that are in K, in their order: SelectSeq, as a recursive function.
Only(s, K) ==
    LET taken[n \in 0..Len(s)] ==
            IF n = 0 THEN <<>>
            ELSE IF s[n] \in K THEN Append(taken[n - 1], s[n]) ELSE taken[n - 1]
    IN  taken[Len(s)]

Smaller(m, n) == IF m < n THEN m ELSE n

\* The pause is set before anything can fail.
StartBatch ==
    /\ ~resting
    /\ queue # <<>>
    /\ batch' = SubSeq(queue, 1, Smaller(BatchSize, Len(queue)))
    /\ resting' = TRUE
    /\ UNCHANGED <<subscription, inGroup, queue, addState, kept, restarts>>

Settled(p) == subscription[p] = "active" \/ p \in Team

\* The account that is looked up again is any account of the phone.
Recheck(p) == IF p \in Shared THEN {Settled(p), p \in Team} ELSE {Settled(p)}

\* Who has renewed leaves the queue; the others are to be removed.
CheckNext ==
    /\ batch # <<>>
    /\ \E renewed \in Recheck(Head(batch).who) :
        IF renewed
        THEN queue' = Only(queue, Rows \ {Head(batch)}) /\ UNCHANGED kept
        ELSE kept' = Append(kept, Head(batch)) /\ UNCHANGED queue
    /\ batch' = Tail(batch)
    /\ UNCHANGED <<subscription, inGroup, addState, resting, restarts>>

RemoveKept ==
    /\ inGroup' = inGroup \ {r.who : r \in Range(kept)}
    /\ queue' = Only(queue, Rows \ Range(kept))

\* Mutant: a row that failed is tried again for ever.
RetryForEver == UNCHANGED queue

\* Every row of a batch that fails has one attempt more, and is given up in the end.
RetryOrGiveUp ==
    queue' = LET tried == [i \in DOMAIN queue |->
                             IF queue[i] \in Range(kept)
                             THEN [queue[i] EXCEPT !.attempts = @ + 1] ELSE queue[i]]
             IN  Only(tried, {r \in Rows : r.attempts < MaxAttempts})

AtRemoval == batch = <<>> /\ kept # <<>>

RemoveBatch ==
    /\ AtRemoval
    /\ \A r \in Range(kept) : r.who \notin Stuck
    /\ RemoveKept
    /\ kept' = <<>>
    /\ UNCHANGED <<subscription, addState, resting, batch, restarts>>

\* The call fails, or it removed them and its reply was lost.
RemoveFails ==
    /\ AtRemoval
    /\ \/ UNCHANGED inGroup
       \/ /\ \A r \in Range(kept) : r.who \notin Stuck
          /\ inGroup' = inGroup \ {r.who : r \in Range(kept)}
    /\ RetryOrGiveUp
    /\ kept' = <<>>
    /\ UNCHANGED <<subscription, addState, resting, batch, restarts>>

\* Ten to fifteen minutes are over; a batch is done by then.
PauseEnds ==
    /\ resting
    /\ batch = <<>> /\ kept = <<>>
    /\ resting' = FALSE
    /\ UNCHANGED <<subscription, inGroup, queue, addState, batch, kept, restarts>>

\* A restart forgets the batch and the pause.
Restart ==
    /\ restarts < MaxRestarts
    /\ restarts' = restarts + 1
    /\ adding' = [a \in Adders |-> {}]
    /\ unseen' = [a \in Adders |-> Nobody]
    /\ resting' = FALSE
    /\ batch' = <<>>
    /\ kept' = <<>>
    /\ UNCHANGED <<subscription, inGroup, queue>>

Next ==
    \/ \E p \in People : Lapse(p) \/ GraceEnds(p) \/ Renew(p) \/ Join(p) \/ RequestRemoval(p)
    \/ Daily
    \/ \E a \in Adders : LookUp(a) \/ Enqueue(a)
    \/ StartBatch \/ CheckNext \/ RemoveBatch \/ RemoveFails \/ PauseEnds
    \/ Restart

\* The daily check and the ticks keep coming, and a removal that works time and
\* again is not always answered with a failure.
Fairness ==
    /\ WF_vars(Daily)
    /\ WF_vars(LookUp("auto")) /\ WF_vars(Enqueue("auto"))
    /\ WF_vars(StartBatch) /\ WF_vars(CheckNext) /\ WF_vars(PauseEnds)
    /\ SF_vars(RemoveBatch) /\ WF_vars(RemoveFails)

Spec == Init /\ [][Next]_vars /\ Fairness

-----------------------------------------------------------------------------
(* Properties *)

\* The state is what the tables and the ticks can hold.
TypeOK ==
    /\ subscription \in [People -> {"active", "grace", "lapsed"}]
    /\ inGroup \subseteq People
    /\ queue \in Seq(Rows)
    /\ adding \in [Adders -> SUBSET People]
    /\ unseen \in [Adders -> People \cup {Nobody}]
    /\ resting \in BOOLEAN
    /\ batch \in Seq(Rows)
    /\ kept \in Seq(Rows)
    /\ restarts \in 0..MaxRestarts

\* Nobody whose subscription lapsed stays in the group for ever, though the
\* removal of somebody ahead in the queue never works.
LapsedLeave ==
    \A p \in People \ (Team \cup Stuck) :
        ~<>[](p \in inGroup /\ subscription[p] = "lapsed")

\* Who has renewed by the time the batch looks is not removed by it
\* (membersGroup.ts, line 433).
RenewedStays ==
    [][\A r \in Range(kept') \ Range(kept) : subscription[r.who] # "active"]_vars
=============================================================================
