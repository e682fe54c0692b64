---------------------------- MODULE ServicesProofs ----------------------------
(*************************************************************************)
(* What holds of the services that send messages, of those around an     *)
(* account and of a course, whatever the number of people, processes, calls, *)
(* codes, items and faults: a section for each, by its inductive invariant *)
(* (ServicesInvariants).                                                 *)
(*************************************************************************)
EXTENDS ServicesInvariants, FiniteSetTheorems, SequenceTheorems, WellFoundedInduction, TLAPS

-----------------------------------------------------------------------------
(* The queues of the group *)

\* The types hold at first.
LEMMA GroupTypesInit == Group!Init => GroupTypes
<1> SUFFICES ASSUME Group!Init PROVE GroupTypes
  OBVIOUS
<1>1. Group!NoEntry \in Group!Entry /\ Group!NoEntry.attempts < MaxAttempts
  BY GroupAssumption DEF Group!NoEntry, Group!Entry, Group!Delay
<1>2. entry \in [Group!Entries -> Group!Entry] /\ posted \in [Group!Entries -> Nat]
  BY <1>1 DEF Group!Init
<1>3. posting \in [Processes -> [at : {"idle", "find", "claim", "check", "send", "sent"},
                              entry : Group!Entries \cup {Nothing}, read : Group!Entry]]
  BY <1>1 DEF Group!Init, Group!Idle
<1>4. AttemptsLeft /\ InHand
  BY <1>1 DEF Group!Init, AttemptsLeft, InHand, Group!Idle, Group!NoEntry, Taken
<1>5. now \in 0..LastTime /\ groupFaults \in 0..MaxFaults
  BY GroupAssumption DEF Group!Init
<1>6. central \in [Pages -> {"draft", "published", "deleted"}] /\ late \in BOOLEAN
  BY DEF Group!Init
<1> QED
  BY <1>2, <1>3, <1>4, <1>5, <1>6 DEF GroupTypes, Group!TypeOK

\* A row that is written keeps the types of the table.
LEMMA RowKeepsType ==
  ASSUME GroupTypes, NEW e \in Group!Entries, NEW written \in Group!Entry,
         written.status = "pending" => written.attempts < MaxAttempts,
         entry' = [entry EXCEPT ![e] = written]
  PROVE  /\ entry' \in [Group!Entries -> Group!Entry]
         /\ \A f \in Group!Entries : entry'[f].status = "pending" => entry'[f].attempts < MaxAttempts
BY DEF GroupTypes, Group!TypeOK, AttemptsLeft

\* A failed attempt is written as a row, whatever status it has if attempts are left.
LEMMA AttemptIsRow ==
  ASSUME GroupTypes, NEW p \in Processes, Group!Item(p) \in Group!Entries,
         NEW left \in {"none", "pending", "sent", "failed", "canceled", "skipped"},
         entry' = [entry EXCEPT ![Group!Item(p)].attempts = Group!Attempted(p),
                                ![Group!Item(p)].status = IF Group!Attempted(p) >= MaxAttempts
                                                    THEN "failed" ELSE left]
  PROVE  /\ entry' \in [Group!Entries -> Group!Entry]
         /\ \A f \in Group!Entries : entry'[f].status = "pending" => entry'[f].attempts < MaxAttempts
<1> DEFINE after == IF Group!Attempted(p) >= MaxAttempts THEN "failed" ELSE left
           written == Rewritten(entry[Group!Item(p)], Group!Attempted(p), after)
<1>1. Group!Attempted(p) \in 1..MaxAttempts
  BY GroupAssumption DEF Group!Attempted, GroupTypes, Group!TypeOK, AttemptsLeft, Group!Entry
<1>2. entry[Group!Item(p)] \in Group!Entry /\ Group!Attempted(p) \in 0..MaxAttempts
  BY <1>1 DEF GroupTypes, Group!TypeOK
<1>3. after \in {"none", "pending", "sent", "failed", "canceled", "skipped"}
  OBVIOUS
<1>4. after = "pending" => Group!Attempted(p) < MaxAttempts
  BY <1>1, GroupAssumption
<1>5. entry' = [entry EXCEPT ![Group!Item(p)] = written]
  BY <1>2 DEF Rewritten, GroupTypes, Group!TypeOK
<1>6. written \in Group!Entry /\ written.attempts = Group!Attempted(p) /\ written.status = after
  <2> HIDE DEF after
  <2> QED
    <3>1. PICK r, n, s : r = entry[Group!Item(p)] /\ n = Group!Attempted(p) /\ s = after
      OBVIOUS
    <3> QED
      BY <1>2, <1>3, <3>1 DEF Rewritten, Group!Entry
<1>7. written.status = "pending" => written.attempts < MaxAttempts
  BY <1>4, <1>6
<1> HIDE DEF written
<1> QED
  BY <1>5, <1>6, <1>7, RowKeepsType

\* What a tick writes after a failure keeps the types of the table.
LEMMA FailureIsRow ==
  ASSUME GroupTypes, NEW p \in Processes, Group!Item(p) \in Group!Entries, Group!Failed(p)
  PROVE  /\ entry' \in [Group!Entries -> Group!Entry]
         /\ \A f \in Group!Entries : entry'[f].status = "pending" => entry'[f].attempts < MaxAttempts
<1>1. CASE UNCHANGED entry
  BY <1>1 DEF GroupTypes, Group!TypeOK, AttemptsLeft
<1>2. CASE Group!Item(p) \notin Pages
  <2>1. entry[Group!Item(p)].status \in {"none", "pending", "sent", "failed", "canceled", "skipped"}
    BY DEF GroupTypes, Group!TypeOK, Group!Entry
  <2>2. entry' = [entry EXCEPT ![Group!Item(p)].attempts = Group!Attempted(p),
                               ![Group!Item(p)].status = IF Group!Attempted(p) >= MaxAttempts
                                                   THEN "failed" ELSE entry[Group!Item(p)].status]
    BY <1>2 DEF Group!Failed, GroupTypes, Group!TypeOK, Group!Entry
  <2> QED
    BY <2>1, <2>2, AttemptIsRow
<1> QED
  BY <1>1, <1>2 DEF Group!Failed

\* A tick that returns after it wrote a row keeps the types.
LEMMA ReturnKeepsType ==
  ASSUME GroupTypes, NEW p \in Processes, Group!Return(p),
         UNCHANGED <<central, now, groupFaults, posted, late>>,
         entry' \in [Group!Entries -> Group!Entry],
         \A f \in Group!Entries : entry'[f].status = "pending" => entry'[f].attempts < MaxAttempts
  PROVE  GroupTypes'
<1>1. Group!NoEntry \in Group!Entry /\ Group!NoEntry.attempts < MaxAttempts
  BY GroupAssumption DEF Group!NoEntry, Group!Entry, Group!Delay
<1>2. /\ posting' = [posting EXCEPT ![p] = Group!Idle]
      /\ Group!Idle.at = "idle" /\ Group!Idle.read = Group!NoEntry
      /\ Group!Idle \in [at : {"idle", "find", "claim", "check", "send", "sent"},
                          entry : Group!Entries \cup {Nothing}, read : Group!Entry]
  BY <1>1 DEF Group!Return, Group!Idle
<1>3. /\ posting' \in [Processes -> [at : {"idle", "find", "claim", "check", "send", "sent"},
                                     entry : Group!Entries \cup {Nothing}, read : Group!Entry]]
      /\ \A q \in Processes : posting'[q] = posting[q] \/ posting'[q] = Group!Idle
  BY <1>2 DEF GroupTypes, Group!TypeOK
<1>4. AttemptsLeft'
  BY <1>1, <1>2, <1>3 DEF GroupTypes, AttemptsLeft
<1>5. InHand'
  BY <1>2, <1>3 DEF GroupTypes, InHand, Taken, Group!Item
<1> QED
  BY <1>3, <1>4, <1>5 DEF GroupTypes, Group!TypeOK

\* A step of a tick keeps the types.
LEMMA TickKeepsType ==
  ASSUME GroupTypes, NEW p \in Processes,
         \/ Group!Expire(p) \/ Group!Find(p) \/ Group!Claim(p) \/ Group!Check(p) \/ Group!Send(p)
         \/ Group!SendFails(p) \/ Group!ReplyLost(p) \/ Group!MarkSent(p) \/ Group!Crash(p)
  PROVE  GroupTypes'
<1> USE GroupAssumption DEF GroupTypes, Group!TypeOK, AttemptsLeft, InHand, Taken, Group!Idle,
     Group!NoEntry,
            Group!Delay, Group!ClaimFor, Group!Goto, Group!Return, Group!Item
<1>1. CASE Group!Expire(p)
  <2>1. ASSUME NEW e \in Group!Entries
        PROVE  /\ entry'[e] \in Group!Entry
               /\ entry'[e].status = "pending" => entry'[e] = entry[e]
    <3>1. entry'[e] \in {entry[e], [entry[e] EXCEPT !.status = "skipped"]}
      BY <1>1 DEF Group!Expire
    <3>2. entry[e] \in Group!Entry
      OBVIOUS
    <3> QED
      BY <3>1, <3>2 DEF Group!Entry
  <2>2. entry' \in [Group!Entries -> Group!Entry]
    BY <1>1, <2>1 DEF Group!Expire
  <2>3. /\ posting' = [posting EXCEPT ![p].at = "find"]
        /\ UNCHANGED <<central, now, groupFaults, posted, late>>
    BY <1>1 DEF Group!Expire
  <2> QED
    BY <2>1, <2>2, <2>3
<1>2. CASE Group!Find(p)
  <2>1. CASE Group!Return(p)
    BY <1>2, <2>1 DEF Group!Find, Group!Entry
  <2>2. ASSUME NEW queue \in {Messages, Pages}, NEW e \in Group!Due(queue),
               posting' = [posting EXCEPT ![p] = [at |-> "claim", entry |-> e, read |-> entry[e]]]
        PROVE  GroupTypes'
    BY <1>2, <2>2 DEF Group!Find, Group!Due, Group!Entry, Group!Entries
  <2> QED
    BY <1>2, <2>1, <2>2 DEF Group!Find
<1>3. CASE Group!Claim(p)
  <2>1. CASE Group!Return(p) /\ UNCHANGED entry
    BY <1>3, <2>1 DEF Group!Claim, Group!Entry
  <2>2. CASE entry' = [entry EXCEPT ![Group!Item(p)].due = now + Group!ClaimFor] /\ Group!Goto(p, "check")
    <3>1. entry[Group!Item(p)] \in Group!Entry /\ Group!Item(p) \in Group!Entries
      BY <1>3 DEF Group!Claim
    <3>2. [entry[Group!Item(p)] EXCEPT !.due = now + Group!ClaimFor] \in Group!Entry
      BY <3>1 DEF Group!Entry
    <3> QED
      BY <1>3, <2>2, <3>1, <3>2, RowKeepsType DEF Group!Claim, Group!Entry
  <2> QED
    BY <1>3, <2>1, <2>2 DEF Group!Claim
<1>4. CASE Group!Check(p)
  <2>1. /\ Group!Attempted(p) \in 1..MaxAttempts
        /\ Group!Item(p) \in Group!Entries /\ entry[Group!Item(p)] \in Group!Entry
    BY <1>4 DEF Group!Attempted, Group!Check, Group!Entry
  <2>2. CASE UNCHANGED entry
    <3>1. posting' \in [Processes -> [at : {"idle", "find", "claim", "check", "send", "sent"},
                                   entry : Group!Entries \cup {Nothing}, read : Group!Entry]]
      <4>1. CASE Group!Return(p)
        <5>1. Group!Idle \in [at : {"idle", "find", "claim", "check", "send", "sent"},
                        entry : Group!Entries \cup {Nothing}, read : Group!Entry]
          BY DEF Group!Entry
        <5> QED
          BY <4>1, <5>1
      <4>2. CASE Group!Goto(p, "send")
        BY <4>2
      <4> QED
        BY <1>4, <4>1, <4>2 DEF Group!Check
    <3>2. \A q \in Processes : /\ posting'[q].read.attempts < MaxAttempts
                               /\ posting'[q].at \in Taken => /\ posting[q].at \in Taken
                                                           /\ posting'[q].entry = posting[q].entry
                                                           /\ posting'[q].read = posting[q].read
      <4>1. CASE Group!Return(p)
        BY <4>1
      <4>2. CASE Group!Goto(p, "send")
        BY <1>4, <4>2 DEF Group!Check
      <4> QED
        BY <1>4, <4>1, <4>2 DEF Group!Check
    <3>3. InHand'
      BY <1>4, <3>2 DEF Group!Check
    <3> QED
      BY <1>4, <2>2, <3>1, <3>2, <3>3 DEF Group!Check
  <2>3. CASE entry' = [entry EXCEPT ![Group!Item(p)].status = "skipped"] /\ Group!Return(p)
    <3>1. [entry[Group!Item(p)] EXCEPT !.status = "skipped"] \in Group!Entry
      BY <2>1 DEF Group!Entry
    <3>2. /\ entry' \in [Group!Entries -> Group!Entry]
          /\ \A f \in Group!Entries : entry'[f].status = "pending" => entry'[f].attempts < MaxAttempts
      BY <2>1, <2>3, <3>1, RowKeepsType
    <3>3. UNCHANGED <<central, now, groupFaults, posted, late>>
      BY <1>4 DEF Group!Check
    <3> QED
      BY <2>3, <3>2, <3>3, ReturnKeepsType
  <2>4. CASE /\ Group!Return(p)
             /\ entry' = [entry EXCEPT ![Group!Item(p)].attempts = Group!Attempted(p),
                                       ![Group!Item(p)].status = IF Group!Attempted(p) >= MaxAttempts
                                                           THEN "failed" ELSE "pending"]
    <3>1. /\ entry' \in [Group!Entries -> Group!Entry]
          /\ \A f \in Group!Entries : entry'[f].status = "pending" => entry'[f].attempts < MaxAttempts
      BY <2>1, <2>4, AttemptIsRow
    <3>2. UNCHANGED <<central, now, groupFaults, posted, late>>
      BY <1>4 DEF Group!Check
    <3> QED
      BY <2>4, <3>1, <3>2, ReturnKeepsType
  <2> QED
    BY <1>4, <2>2, <2>3, <2>4 DEF Group!Check
<1>5. CASE Group!Send(p)
  <2>1. posted' \in [Group!Entries -> Nat] /\ late' \in BOOLEAN
    BY <1>5 DEF Group!Send, Group!Posting
  <2> QED
    BY <1>5, <2>1 DEF Group!Send, Group!Entry
<1>6. CASE Group!SendFails(p)
  <2>1. Group!Item(p) \in Group!Entries /\ Group!Failed(p)
    BY <1>6 DEF Group!SendFails
  <2> QED
    BY <1>6, <2>1, FailureIsRow DEF Group!SendFails, Group!Entry
<1>7. CASE Group!ReplyLost(p)
  <2>1. Group!Item(p) \in Group!Entries /\ Group!Failed(p)
    BY <1>7 DEF Group!ReplyLost
  <2> QED
    BY <1>7, <2>1, FailureIsRow DEF Group!ReplyLost, Group!Entry
<1>8. CASE Group!MarkSent(p)
  <2>1. /\ Group!Item(p) \in Group!Entries
        /\ entry' = [entry EXCEPT ![Group!Item(p)].status = "sent"]
    BY <1>8 DEF Group!MarkSent
  <2>2. [entry[Group!Item(p)] EXCEPT !.status = "sent"] \in Group!Entry
    BY <2>1 DEF Group!Entry
  <2> QED
    BY <1>8, <2>1, <2>2 DEF Group!MarkSent, Group!Entry
<1>9. CASE Group!Crash(p)
  BY <1>9 DEF Group!Crash, Group!Entry
<1> QED
  BY <1>1, <1>2, <1>3, <1>4, <1>5, <1>6, <1>7, <1>8, <1>9

\* A new written is a written.
LEMMA NewIsRow ==
  ASSUME now \in 0..LastTime, NEW when \in {now, now + 1, now + Group!Delay}
  PROVE  Group!New(when) \in Group!Entry /\ Group!New(when).attempts < MaxAttempts
<1>1. when \in 0..LastTime + Group!Delay
  BY GroupAssumption DEF Group!Delay
<1> QED
  BY <1>1, GroupAssumption DEF Group!New, Group!Entry

\* Any step keeps the types.
LEMMA GroupTypesNext ==
  ASSUME GroupTypes, [Group!Next]_(Group!vars)
  PROVE  GroupTypes'
<1> USE GroupAssumption DEF GroupTypes, Group!TypeOK, AttemptsLeft, InHand, Taken, Group!Item
<1>1. ASSUME NEW e \in Messages, Group!EnqueueMessage(e) PROVE GroupTypes'
  <2>1. PICK when \in {now, now + 1} : entry' = [entry EXCEPT ![e] = Group!New(when)]
    BY <1>1 DEF Group!EnqueueMessage
  <2> QED
    BY <1>1, <2>1, NewIsRow, RowKeepsType DEF Group!EnqueueMessage, Group!Entries
<1>2. ASSUME NEW e \in Messages, Group!CancelMessage(e) PROVE GroupTypes'
  BY <1>2 DEF Group!CancelMessage, Group!Entry, Group!Entries
<1>3. ASSUME NEW e \in Pages, Group!Publish(e) PROVE GroupTypes'
  <2>1. central' \in [Pages -> {"draft", "published", "deleted"}]
    BY <1>3 DEF Group!Publish
  <2>2. CASE UNCHANGED entry
    BY <1>3, <2>1, <2>2 DEF Group!Publish
  <2>3. CASE entry' = [entry EXCEPT ![e] = Group!New(now + Group!Delay)]
    BY <1>3, <2>1, <2>3, NewIsRow, RowKeepsType DEF Group!Publish, Group!Entries
  <2> QED
    BY <1>3, <2>2, <2>3 DEF Group!Publish, Group!AnnounceOnce, Group!Entries
<1>4. ASSUME NEW e \in Pages, Group!Unpublish(e) PROVE GroupTypes'
  BY <1>4 DEF Group!Unpublish
<1>5. CASE Group!Pass
  BY <1>5 DEF Group!Pass, Group!Idle, Group!Entry
<1>6. CASE UNCHANGED Group!vars
  BY <1>6 DEF Group!vars
<1> QED
  BY <1>1, <1>2, <1>3, <1>4, <1>5, <1>6, TickKeepsType DEF Group!Next

\* The tables and ticks hold what they can hold, for any number of everything.
THEOREM GroupTyped == Group!Spec => []Group!TypeOK
<1>1. Group!Init => GroupTypes
  BY GroupTypesInit
<1>2. GroupTypes /\ [Group!Next]_(Group!vars) => GroupTypes'
  BY GroupTypesNext
<1>3. GroupTypes => Group!TypeOK
  BY DEF GroupTypes
<1> QED
  BY <1>1, <1>2, <1>3, PTL DEF Group!Spec

\* Nothing is posted at first.
LEMMA GroupInit == Group!Init => GroupInv
BY GroupTypesInit, GroupAssumption DEF Group!Init, GroupInv, ClaimIsAhead, OneHolder,
     UnsentIsFaulty, PostedOnce, Group!PostedOnce,
                   HoldsEntry, Group!Idle, Group!NoEntry, Group!Entries

\* A step that leaves who holds what alone, writes no written that is held and no mark
\* "sent" away, keeps what was posted.
LEMMA OthersKeepPosts ==
  ASSUME GroupInv, GroupTypes', UNCHANGED <<posted, groupFaults, now>>,
         \A p \in Processes : posting'[p].at \in HoldsEntry => posting'[p] = posting[p],
         \A p \in Processes : posting[p].at = "sent" => posting'[p] = posting[p],
         \A e \in Group!Entries : entry[e].status = "sent" => entry'[e] = entry[e],
         \A p \in Processes : posting'[p].at \in HoldsEntry =>
             /\ entry'[Group!Item(p)].due = entry[Group!Item(p)].due
             /\ entry'[Group!Item(p)].status \notin {"none", "sent"}
  PROVE  GroupInv'
<1> USE DEF GroupInv, Group!Item
<1>1. ClaimIsAhead'
  BY DEF ClaimIsAhead, Group!ClaimFor
<1>2. OneHolder'
  BY DEF OneHolder
<1>3. UnsentIsFaulty'
  <2> SUFFICES ASSUME NEW e \in Group!Entries, entry'[e].status # "sent",
                      \A p \in Processes : ~(posting'[p].at = "sent" /\ posting'[p].entry = e)
               PROVE  posted[e] <= groupFaults
    BY DEF UnsentIsFaulty
  <2>1. entry[e].status # "sent"
    OBVIOUS
  <2>2. \A p \in Processes : ~(posting[p].at = "sent" /\ posting[p].entry = e)
    OBVIOUS
  <2> QED
    BY <2>1, <2>2 DEF UnsentIsFaulty
<1>4. PostedOnce'
  BY DEF PostedOnce, Group!PostedOnce
<1> QED
  BY <1>1, <1>2, <1>3, <1>4

\* A step of a tick that holds nothing, or gives its entry back, keeps what was posted.
LEMMA ReturnKeepsPosts ==
  ASSUME GroupInv, GroupTypes', NEW p \in Processes, Group!Return(p),
         posting[p].at \in HoldsEntry,
         UNCHANGED <<posted, now>>,
         groupFaults' = groupFaults \/ groupFaults' = groupFaults + 1,
         posting[p].at = "sent" => entry'[Group!Item(p)].status = "sent" \/ groupFaults' = groupFaults + 1,
         \A e \in Group!Entries : e # Group!Item(p) => entry'[e] = entry[e]
  PROVE  GroupInv'
<1> USE DEF GroupInv, Group!Item, Group!Return, Group!Idle, HoldsEntry, GroupTypes, Group!TypeOK
<1>1. \A q \in Processes : posting'[q].at \in HoldsEntry => q # p /\ posting'[q] = posting[q]
  OBVIOUS
<1>2. \A q \in Processes : posting'[q].at \in HoldsEntry => posting[q].entry # posting[p].entry
  BY <1>1 DEF OneHolder
<1>3. \A q \in Processes : posting'[q].at \in HoldsEntry => posting[q].entry \in Group!Entries
  BY <1>1 DEF InHand, Taken
<1>4. ClaimIsAhead'
  BY <1>1, <1>2, <1>3 DEF ClaimIsAhead, Group!ClaimFor
<1>5. OneHolder'
  BY <1>1 DEF OneHolder
<1>6. groupFaults \in Nat /\ posted \in [Group!Entries -> Nat]
  OBVIOUS
<1>7. PostedOnce'
  BY <1>6 DEF PostedOnce, Group!PostedOnce
<1>8. UnsentIsFaulty'
  <2> SUFFICES ASSUME NEW e \in Group!Entries, entry'[e].status # "sent",
                      \A q \in Processes : ~(posting'[q].at = "sent" /\ posting'[q].entry = e)
               PROVE  posted[e] <= groupFaults'
    BY DEF UnsentIsFaulty
  <2>1. CASE e # posting[p].entry
    <3>1. \A q \in Processes : ~(posting[q].at = "sent" /\ posting[q].entry = e)
      BY <2>1
    <3> QED
      BY <1>6, <2>1, <3>1 DEF UnsentIsFaulty
  <2>2. CASE e = posting[p].entry /\ posting[p].at = "sent"
    <3>1. groupFaults' = groupFaults + 1
      BY <2>2
    <3> QED
      BY <1>6, <3>1 DEF PostedOnce, Group!PostedOnce
  <2>3. CASE e = posting[p].entry /\ posting[p].at # "sent"
    <3>1. entry[e].status # "sent"
      BY <2>3 DEF ClaimIsAhead
    <3>2. \A q \in Processes : ~(posting[q].at = "sent" /\ posting[q].entry = e)
      BY <2>3 DEF OneHolder
    <3> QED
      BY <1>6, <3>1, <3>2 DEF UnsentIsFaulty
  <2> QED
    BY <2>1, <2>2, <2>3
<1> QED
  BY <1>4, <1>5, <1>7, <1>8

\* A step of a tick keeps what was posted.
LEMMA TickKeepsPosts ==
  ASSUME GroupInv, NEW p \in Processes,
         \/ Group!Expire(p) \/ Group!Find(p) \/ Group!Claim(p) \/ Group!Check(p) \/ Group!Send(p)
         \/ Group!SendFails(p) \/ Group!ReplyLost(p) \/ Group!MarkSent(p) \/ Group!Crash(p)
  PROVE  GroupInv'
<1>0. GroupTypes'
  BY TickKeepsType DEF GroupInv
<1> USE <1>0 DEF GroupInv, GroupTypes, Group!TypeOK, Group!Goto, Group!Item
<1>1. CASE Group!Expire(p)
  <2>1. \A q \in Processes : posting'[q].at \in HoldsEntry =>
                              posting'[q] = posting[q] /\ posting[q].entry \in Group!Entries
    BY <1>1 DEF Group!Expire, HoldsEntry, InHand, Taken
  <2>2. \A q \in Processes : posting[q].at = "sent" => posting'[q] = posting[q]
    BY <1>1 DEF Group!Expire, Group!Idle
  <2>3. \A e \in Group!Entries : /\ entry[e].status = "sent" => entry'[e] = entry[e]
                           /\ entry'[e].due = entry[e].due
                           /\ entry'[e].status \in {"skipped", entry[e].status}
    BY <1>1 DEF Group!Expire, Group!Overdue, Group!Entry
  <2> QED
    BY <1>1, <2>1, <2>2, <2>3, OthersKeepPosts DEF Group!Expire, ClaimIsAhead
<1>2. CASE Group!Find(p)
  <2>1. \A q \in Processes : /\ posting'[q].at \in HoldsEntry => posting'[q] = posting[q]
                             /\ posting[q].at = "sent" => posting'[q] = posting[q]
    BY <1>2 DEF Group!Find, HoldsEntry, Group!Return, Group!Idle
  <2> QED
    BY <1>2, <2>1, OthersKeepPosts DEF Group!Find, ClaimIsAhead
<1>3. CASE Group!Claim(p)
  <2>1. CASE Group!Return(p) /\ UNCHANGED entry
    <3>1. \A q \in Processes : /\ posting'[q].at \in HoldsEntry => posting'[q] = posting[q]
                               /\ posting[q].at = "sent" => posting'[q] = posting[q]
      BY <1>3, <2>1 DEF Group!Claim, HoldsEntry, Group!Return, Group!Idle
    <3> QED
      BY <1>3, <2>1, <3>1, OthersKeepPosts DEF Group!Claim, ClaimIsAhead
  <2>2. CASE /\ Group!Unclaimed(p)
             /\ entry' = [entry EXCEPT ![Group!Item(p)].due = now + Group!ClaimFor]
             /\ Group!Goto(p, "check")
    <3> DEFINE e == posting[p].entry
    <3>1. e \in Group!Entries /\ entry[e].status = "pending" /\ entry[e].due <= now
      BY <1>3, <2>2 DEF Group!Claim, Group!Unclaimed, InHand, Taken
    <3>2. now \in Int /\ now' = now /\ groupFaults' = groupFaults /\ posted' = posted
      BY <1>3 DEF Group!Claim
    <3>3. \A q \in Processes : posting[q].at \in HoldsEntry => posting[q].entry # e
      BY <3>1, <3>2 DEF ClaimIsAhead, Group!ClaimFor
    <3>4. \A q \in Processes : q # p => posting'[q] = posting[q]
      BY <2>2
    <3>5. posting'[p].at = "check" /\ posting'[p].entry = e
      BY <2>2
    <3>6. /\ entry'[e].due = now + Group!ClaimFor /\ entry'[e].status = "pending"
          /\ \A f \in Group!Entries : f # e => entry'[f] = entry[f]
      BY <2>2, <3>1 DEF Group!Entry
    <3>7. ClaimIsAhead'
      BY <3>2, <3>3, <3>4, <3>5, <3>6 DEF ClaimIsAhead, InHand, Taken, HoldsEntry, Group!ClaimFor
    <3>8. OneHolder'
      BY <3>3, <3>4, <3>5 DEF OneHolder, HoldsEntry
    <3>9. \A q \in Processes : posting[q].at = "sent" => posting'[q] = posting[q]
      BY <1>3, <3>4 DEF Group!Claim
    <3>10. UnsentIsFaulty'
      BY <3>1, <3>2, <3>6, <3>9 DEF UnsentIsFaulty
    <3> QED
      BY <3>2, <3>7, <3>8, <3>10 DEF PostedOnce, Group!PostedOnce
  <2> QED
    BY <1>3, <2>1, <2>2 DEF Group!Claim
<1>4. CASE Group!Check(p)
  <2>1. posting[p].at \in HoldsEntry /\ posting[p].at # "sent"
    BY <1>4 DEF Group!Check, HoldsEntry
  <2>2. CASE Group!Return(p)
    <3>1. \A e \in Group!Entries : e # posting[p].entry => entry'[e] = entry[e]
      BY <1>4 DEF Group!Check
    <3> QED
      BY <1>4, <2>1, <2>2, <3>1, ReturnKeepsPosts DEF Group!Check
  <2>3. CASE Group!Goto(p, "send") /\ UNCHANGED entry
    <3>1. \A q \in Processes : posting'[q].at \in HoldsEntry =>
                                posting[q].at \in HoldsEntry /\ posting'[q].entry = posting[q].entry
      BY <2>1, <2>3 DEF HoldsEntry
    <3>2. \A q \in Processes : posting[q].at = "sent" => posting'[q] = posting[q]
      BY <2>1, <2>3
    <3> QED
      BY <1>4, <2>3, <3>1, <3>2 DEF Group!Check, ClaimIsAhead, OneHolder, UnsentIsFaulty,
           PostedOnce, Group!PostedOnce
  <2> QED
    BY <1>4, <2>2, <2>3 DEF Group!Check
<1>5. CASE Group!Send(p)
  <2> DEFINE e == posting[p].entry
  <2>1. posting[p].at = "send" /\ e \in Group!Entries /\ posted' = [posted EXCEPT ![e] = @ + 1]
    BY <1>5 DEF Group!Send, Group!Posting, InHand, Taken
  <2>2. entry[e].status # "sent"
    BY <2>1 DEF ClaimIsAhead, HoldsEntry
  <2>3. \A q \in Processes : ~(posting[q].at = "sent" /\ posting[q].entry = e)
    BY <2>1 DEF OneHolder, HoldsEntry
  <2>4. posted[e] <= groupFaults
    BY <2>1, <2>2, <2>3 DEF UnsentIsFaulty
  <2>5. posting' = [posting EXCEPT ![p].at = "sent"] /\ UNCHANGED <<entry, now, groupFaults>>
    BY <1>5 DEF Group!Send
  <2>6. \A q \in Processes : posting'[q].at \in HoldsEntry =>
                              posting[q].at \in HoldsEntry /\ posting'[q].entry = posting[q].entry
    BY <2>1, <2>5 DEF HoldsEntry
  <2>7. \A q \in Processes : posting[q].at = "sent" => posting'[q] = posting[q]
    BY <2>1, <2>5
  <2>8. ClaimIsAhead' /\ OneHolder'
    BY <2>5, <2>6 DEF ClaimIsAhead, OneHolder
  <2>9. PostedOnce'
    BY <2>1, <2>4, <2>5 DEF PostedOnce, Group!PostedOnce
  <2>10. posting'[p].at = "sent" /\ posting'[p].entry = e
    BY <2>5
  <2>11. UnsentIsFaulty'
    BY <2>1, <2>5, <2>7, <2>10 DEF UnsentIsFaulty
  <2> QED
    BY <2>8, <2>9, <2>11
<1>6. CASE Group!SendFails(p)
  BY <1>6, ReturnKeepsPosts DEF Group!SendFails, Group!Failed, HoldsEntry
<1>7. CASE Group!ReplyLost(p)
  BY <1>7, ReturnKeepsPosts DEF Group!ReplyLost, Group!Failed, HoldsEntry
<1>8. CASE Group!MarkSent(p)
  <2>1. Group!Item(p) \in Group!Entries
    BY <1>8 DEF Group!MarkSent, InHand, Taken
  <2>2. /\ entry'[Group!Item(p)].status = "sent"
        /\ \A e \in Group!Entries : e # Group!Item(p) => entry'[e] = entry[e]
    BY <1>8, <2>1 DEF Group!MarkSent, Group!Entry
  <2> QED
    BY <1>8, <2>2, ReturnKeepsPosts DEF Group!MarkSent, HoldsEntry
<1>9. CASE Group!Crash(p)
  <2>1. CASE posting[p].at \in HoldsEntry
    BY <1>9, <2>1, ReturnKeepsPosts DEF Group!Crash
  <2>2. CASE posting[p].at \notin HoldsEntry
    <3>1. \A q \in Processes : /\ posting'[q].at \in HoldsEntry => posting'[q] = posting[q]
                               /\ posting[q].at = "sent" => posting'[q] = posting[q]
      BY <1>9, <2>2 DEF Group!Crash, HoldsEntry, Group!Return, Group!Idle
    <3>2. UNCHANGED <<entry, now, posted>> /\ groupFaults' = groupFaults + 1 /\ groupFaults \in Int
      BY <1>9 DEF Group!Crash
    <3>3. UnsentIsFaulty'
      BY <3>1, <3>2 DEF UnsentIsFaulty
    <3> QED
      BY <3>1, <3>2, <3>3 DEF ClaimIsAhead, OneHolder, PostedOnce, Group!PostedOnce
  <2> QED
    BY <2>1, <2>2
<1> QED
  BY <1>1, <1>2, <1>3, <1>4, <1>5, <1>6, <1>7, <1>8, <1>9

\* Any step keeps what was posted.
LEMMA GroupNext ==
  ASSUME GroupInv, [Group!Next]_(Group!vars)
  PROVE  GroupInv'
<1>0. GroupTypes'
  BY GroupTypesNext DEF GroupInv
<1> USE <1>0 DEF GroupInv, GroupTypes, Group!TypeOK, Group!Item
<1>a. \A p \in Processes : posting[p].at \in HoldsEntry =>
          posting[p].entry \in Group!Entries /\ entry[posting[p].entry].status \notin {"none", "sent"}
  BY DEF ClaimIsAhead, InHand, HoldsEntry, Taken
<1>1. ASSUME NEW e \in Messages, Group!EnqueueMessage(e) PROVE GroupInv'
  BY <1>a, <1>1, OthersKeepPosts DEF Group!EnqueueMessage, Group!Entries
<1>2. ASSUME NEW e \in Messages, Group!CancelMessage(e) PROVE GroupInv'
  <2>1. \A f \in Group!Entries : /\ entry[f].status = "sent" => entry'[f] = entry[f]
                           /\ entry'[f].due = entry[f].due
                           /\ entry'[f].status \in {"canceled", entry[f].status}
    BY <1>2 DEF Group!CancelMessage, Group!Entry
  <2> QED
    BY <1>a, <1>2, <2>1, OthersKeepPosts DEF Group!CancelMessage
<1>3. ASSUME NEW e \in Pages, Group!Publish(e) PROVE GroupInv'
  <2>1. \A f \in Group!Entries : entry[f].status # "none" => entry'[f] = entry[f]
    BY <1>3 DEF Group!Publish, Group!AnnounceOnce
  <2> QED
    BY <1>a, <1>3, <2>1, OthersKeepPosts DEF Group!Publish
<1>4. ASSUME NEW e \in Pages, Group!Unpublish(e) PROVE GroupInv'
  BY <1>a, <1>4, OthersKeepPosts DEF Group!Unpublish
<1>5. CASE Group!Pass
  BY <1>5 DEF Group!Pass, Group!Idle, HoldsEntry, ClaimIsAhead, OneHolder, UnsentIsFaulty,
       PostedOnce, Group!PostedOnce
<1>6. CASE UNCHANGED Group!vars
  BY <1>6 DEF Group!vars, ClaimIsAhead, OneHolder, UnsentIsFaulty, PostedOnce, Group!PostedOnce
<1> QED
  BY <1>1, <1>2, <1>3, <1>4, <1>5, <1>6, TickKeepsPosts DEF Group!Next

\* A message or a page's news appears in the group once, and once more for each tick
\* that died or reply that was lost, however many processes tick.
THEOREM GroupPostedOnce == Group!Spec => []PostedOnce
<1>1. Group!Init => GroupInv
  BY GroupInit
<1>2. GroupInv /\ [Group!Next]_(Group!vars) => GroupInv'
  BY GroupNext
<1>3. GroupInv => PostedOnce
  BY DEF GroupInv
<1> QED
  BY <1>1, <1>2, <1>3, PTL DEF Group!Spec

-----------------------------------------------------------------------------
(* The page of a broadcast *)

\* The invariant holds at first.
LEMMA PanelInit == Panel!Init => PanelInv
<1> SUFFICES ASSUME Panel!Init PROVE PanelInv
  OBVIOUS
<1> USE PanelAssumption DEF Panel!Init, Panel!Jobs, Panel!NotAsked
<1>1. Panel!TypeOK
  <2>1. {sending, polling, completed, kept} \subseteq BOOLEAN
    OBVIOUS
  <2> QED
    BY <2>1 DEF Panel!TypeOK, Panel!Server!JobStatus, Panel!Server!Live, Panel!Server!Ended
<1>2. ClosedIsBlank /\ WaitingIsBlank /\ SendingIsQuiet /\ AnswersTellTruth
  BY DEF ClosedIsBlank, WaitingIsBlank, SendingIsQuiet, AnswersTellTruth, BlankPage
<1>3. JobsExist /\ PollingShown /\ EndsCounted /\ NotGivenUp
  BY DEF JobsExist, Known, PollingShown, EndsCounted, NotGivenUp
<1> QED
  BY <1>1, <1>2, <1>3 DEF PanelInv

LEMMA MovesStay ==
  ASSUME PanelInv, NEW j \in Panel!Jobs, NEW moves \in SUBSET AllMoves, Panel!Move(j, moves)
  PROVE  JobsStay /\ ~Over(j) /\ followed'[j] # "none" /\ followed'[j] \in Panel!Server!JobStatus
<1>1. followed \in [Panel!Jobs -> Panel!Server!JobStatus]
  BY DEF PanelInv, Panel!TypeOK
<1>2. PICK s \in Panel!Server!JobStatus :
         <<followed[j], s>> \in AllMoves /\ followed' = [followed EXCEPT ![j] = s]
  BY DEF Panel!Move
<1>3. /\ followed[j] \notin Panel!Server!Ended /\ s # "none"
      /\ followed[j] = "none" \/ followed[j] \in Panel!Server!Live
  BY <1>2 DEF AllMoves, Panel!Server!Launch, Panel!Server!Pause, Panel!Server!Resume,
       Panel!Server!Stop, Panel!Server!Fail, Panel!Server!Finish, Panel!Server!Live,
       Panel!Server!Ended
<1> QED
  BY <1>1, <1>2, <1>3 DEF JobsStay, Over

\* Only the jobs move.
LEMMA ServerKeepsPanel ==
  ASSUME PanelInv, JobsStay,
         UNCHANGED <<panel, sending, polling, watched, shown, completed, kept, stored, ghosts,
                     active, sent, answers, replies, ends>>
  PROVE  PanelInv'
<1> USE DEF PanelInv
<1>1. Panel!TypeOK'
  BY DEF Panel!TypeOK, JobsStay
<1>2. ClosedIsBlank' /\ WaitingIsBlank' /\ SendingIsQuiet' /\ PollingShown'
  BY DEF ClosedIsBlank, WaitingIsBlank, SendingIsQuiet, PollingShown, BlankPage
<1>3. AnswersTellTruth'
  BY DEF AnswersTellTruth, JobsStay, Panel!TypeOK
<1>4. JobsExist'
  BY DEF JobsExist, Known, JobsStay
<1>5. EndsCounted' /\ NotGivenUp'
  BY DEF EndsCounted, NotGivenUp, JobsStay, JobsExist, Known
<1> QED
  BY <1>1, <1>2, <1>3, <1>4, <1>5

\* A page that shows nothing starts to poll a job; also one whose send is answered.
LEMMA PollingStarts ==
  ASSUME PanelInv, NEW j \in Panel!Jobs, Panel!StartPolling(j), followed[j] # "none",
         ends[j] = 0, answers = {}, replies = {}, \A i \in Panel!Jobs : ends'[i] = ends[i],
         panel' = "open", sent' = 0, active' = Panel!NotAsked, kept' \in BOOLEAN,
         UNCHANGED <<followed, shown, ghosts, answers, replies, ends>>
  PROVE  PanelInv'
<1> USE DEF PanelInv, Panel!StartPolling, Panel!NotAsked
<1>1. Panel!TypeOK'
  <2>1. {sending', polling', completed', kept'} \subseteq BOOLEAN
    OBVIOUS
  <2>2. {watched', stored', sent'} \subseteq 0..MaxJobs
    BY PanelAssumption DEF Panel!Jobs
  <2> QED
    BY <2>1, <2>2, PanelAssumption DEF Panel!TypeOK
<1>2. j # 0
  BY DEF Panel!Jobs
<1>3. ClosedIsBlank' /\ WaitingIsBlank' /\ SendingIsQuiet' /\ PollingShown' /\ AnswersTellTruth'
  BY <1>2 DEF ClosedIsBlank, WaitingIsBlank, SendingIsQuiet, PollingShown, AnswersTellTruth
<1>4. JobsExist'
  BY DEF JobsExist, Known
<1>5. EndsCounted' /\ NotGivenUp'
  BY DEF EndsCounted, NotGivenUp, Over
<1> QED
  BY <1>1, <1>3, <1>4, <1>5

\* A page opens.
LEMMA OpenKeepsPanel == PanelInv /\ Panel!Open => PanelInv'
<1> SUFFICES ASSUME PanelInv, Panel!Open PROVE PanelInv'
  OBVIOUS
<1>1. BlankPage /\ sent = 0 /\ sent' = 0 /\ active = Panel!NotAsked /\ panel' = "open"
      /\ UNCHANGED <<followed, ghosts, shown, answers, replies, ends>> /\ kept' \in BOOLEAN
  BY DEF PanelInv, ClosedIsBlank, Panel!Open
<1>2. CASE stored # 0
  <2>1. stored \in Panel!Jobs /\ followed[stored] # "none"
    BY <1>2 DEF PanelInv, JobsExist, Known
  <2>2. Panel!StartPolling(stored) /\ active' = Panel!NotAsked
    BY <1>1, <1>2 DEF Panel!Open
  <2>3. ends[stored] = 0
    BY <1>1, <2>1 DEF BlankPage
  <2> QED
    BY <1>1, <2>1, <2>2, <2>3, PollingStarts DEF BlankPage
<1>3. CASE stored = 0
  <2>1. /\ UNCHANGED <<sending, polling, watched, completed, stored>>
        /\ active' = [at |-> "asked", job |-> 0]
    BY <1>1, <1>3 DEF Panel!Open, Panel!NotAsked
  <2> USE <1>1, <1>3, <2>1 DEF PanelInv
  <2>2. Panel!TypeOK'
    BY PanelAssumption DEF Panel!TypeOK
  <2>3. ClosedIsBlank' /\ WaitingIsBlank' /\ SendingIsQuiet' /\ PollingShown' /\ AnswersTellTruth'
    BY DEF ClosedIsBlank, WaitingIsBlank, SendingIsQuiet, PollingShown, AnswersTellTruth, BlankPage
  <2>4. JobsExist' /\ EndsCounted' /\ NotGivenUp'
    BY DEF JobsExist, Known, EndsCounted, NotGivenUp, BlankPage, Over
  <2> QED
    BY <2>2, <2>3, <2>4
<1> QED
  BY <1>2, <1>3

\* A page is left, or one that was left hears of an end.
LEMMA LeaveKeepsPanel ==
  PanelInv /\ (Panel!Leave \/ \E j \in Panel!Jobs : Panel!GhostHears(j)) => PanelInv'
<1> USE PanelAssumption DEF PanelInv
<1>1. ASSUME PanelInv, Panel!Leave PROVE PanelInv'
  <2> USE <1>1 DEF Panel!Leave
  <2>1. Panel!TypeOK'
    <3>1. {sending', polling', completed', kept'} \subseteq BOOLEAN
      OBVIOUS
    <3>2. ghosts' \subseteq Panel!Jobs
      <4>1. polling => watched \in Panel!Jobs
        BY DEF PollingShown, JobsExist, Known
      <4> QED
        BY <4>1 DEF Panel!TypeOK
    <3> QED
      BY <3>1, <3>2 DEF Panel!TypeOK
  <2>2. WaitingIsBlank'
    BY DEF WaitingIsBlank, BlankPage
  <2>3. ClosedIsBlank' /\ SendingIsQuiet' /\ PollingShown' /\ AnswersTellTruth'
    BY DEF ClosedIsBlank, SendingIsQuiet, PollingShown, AnswersTellTruth, BlankPage
  <2>4. JobsExist' /\ EndsCounted' /\ NotGivenUp'
    BY DEF JobsExist, Known, EndsCounted, NotGivenUp
  <2> QED
    BY <2>1, <2>2, <2>3, <2>4
<1>2. ASSUME PanelInv, NEW j \in Panel!Jobs, Panel!GhostHears(j) PROVE PanelInv'
  <2> USE <1>2 DEF Panel!GhostHears, Panel!pageVars, Panel!netVars
  <2>1. Panel!TypeOK'
    BY DEF Panel!TypeOK
  <2>2. ClosedIsBlank' /\ WaitingIsBlank' /\ SendingIsQuiet' /\ PollingShown' /\ AnswersTellTruth'
    BY DEF ClosedIsBlank, WaitingIsBlank, SendingIsQuiet, PollingShown, AnswersTellTruth, BlankPage, Over
  <2>3. JobsExist' /\ EndsCounted' /\ NotGivenUp'
    BY DEF JobsExist, Known, EndsCounted, NotGivenUp, Over
  <2> QED
    BY <2>1, <2>2, <2>3
<1> QED
  BY <1>1, <1>2

\* The active job is read, and told to the page that asked for it or to none.
LEMMA ActiveKeepsPanel == PanelInv /\ (Panel!ActiveRead \/ Panel!ActiveAnswered) => PanelInv'
<1> SUFFICES ASSUME PanelInv, Panel!ActiveRead \/ Panel!ActiveAnswered PROVE PanelInv'
  OBVIOUS
<1>1. BlankPage /\ sent = 0
  BY DEF PanelInv, WaitingIsBlank, Panel!ActiveRead, Panel!ActiveAnswered, Panel!NotAsked
<1>2. CASE Panel!ActiveRead
  <2>1. PICK j \in Panel!Jobs \cup {0} :
           /\ active' = [at |-> "read", job |-> j]
           /\ j # 0 => followed[j] \in Panel!Server!Live
    BY <1>2 DEF Panel!ActiveRead
  <2> USE <1>2, <2>1, <1>1 DEF PanelInv, Panel!ActiveRead, Panel!pageVars, Panel!keyVars
  <2>2. active' \in [at : {"no", "asked", "read"}, job : 0..MaxJobs]
    BY PanelAssumption DEF Panel!Jobs
  <2>3. Panel!TypeOK'
    BY <2>2 DEF Panel!TypeOK
  <2>4. Known(active.job)'
    BY DEF Known, Panel!Server!Live
  <2>5. ClosedIsBlank' /\ WaitingIsBlank' /\ SendingIsQuiet' /\ PollingShown' /\ AnswersTellTruth'
    BY DEF ClosedIsBlank, WaitingIsBlank, SendingIsQuiet, PollingShown, AnswersTellTruth, BlankPage, Over
  <2>6. JobsExist' /\ EndsCounted' /\ NotGivenUp'
    BY <2>4 DEF JobsExist, Known, EndsCounted, NotGivenUp, Over
  <2> QED
    BY <2>3, <2>5, <2>6
<1>3. CASE Panel!ActiveAnswered
  <2>1. /\ active' = Panel!NotAsked /\ UNCHANGED <<followed, panel, kept, shown, sent, answers,
                                                   replies, ends>>
        /\ kept' \in BOOLEAN
    BY <1>3 DEF Panel!ActiveAnswered, PanelInv, Panel!TypeOK
  <2>2. CASE UNCHANGED <<sending, polling, watched, completed, stored, ghosts>>
    <3> USE <2>1, <2>2, <1>1 DEF PanelInv, Panel!NotAsked
    <3>1. Panel!TypeOK'
      BY PanelAssumption DEF Panel!TypeOK
    <3>2. ClosedIsBlank' /\ WaitingIsBlank' /\ SendingIsQuiet' /\ PollingShown' /\ AnswersTellTruth'
      BY DEF ClosedIsBlank, WaitingIsBlank, SendingIsQuiet, PollingShown, AnswersTellTruth, BlankPage,
             Over
    <3>3. JobsExist' /\ EndsCounted' /\ NotGivenUp'
      BY DEF JobsExist, Known, EndsCounted, NotGivenUp, Over
    <3> QED
      BY <3>1, <3>2, <3>3
  <2>3. CASE active.job # 0 /\ Panel!Attach(active.job)
    <3>1. active.job \in Panel!Jobs /\ followed[active.job] # "none"
      BY <2>3 DEF PanelInv, JobsExist, Known
    <3>2. CASE panel = "open" /\ Panel!StartPolling(active.job) /\ UNCHANGED ghosts
      <4>1. ends[active.job] = 0 /\ answers = {} /\ replies = {} /\ sent' = 0 /\ panel' = "open"
        BY <1>1, <2>1, <3>1, <3>2 DEF BlankPage
      <4> QED
        BY <2>1, <3>1, <3>2, <4>1, PollingStarts
    <3>3. CASE /\ panel = "closed" /\ stored' = active.job /\ ghosts' = ghosts \cup {active.job}
               /\ UNCHANGED <<sending, polling, watched, completed>>
      <4> USE <1>1, <2>1, <3>1, <3>3 DEF PanelInv, Panel!NotAsked
      <4>1. Panel!TypeOK'
        BY PanelAssumption DEF Panel!TypeOK, Panel!Jobs
      <4>2. ClosedIsBlank' /\ WaitingIsBlank' /\ SendingIsQuiet' /\ PollingShown' /\ AnswersTellTruth'
        BY DEF ClosedIsBlank, WaitingIsBlank, SendingIsQuiet, PollingShown, AnswersTellTruth, BlankPage,
               Over
      <4>3. JobsExist' /\ EndsCounted' /\ NotGivenUp'
        BY DEF JobsExist, Known, EndsCounted, NotGivenUp, Over, BlankPage
      <4> QED
        BY <4>1, <4>2, <4>3
    <3> QED
      BY <2>3, <3>2, <3>3 DEF Panel!Attach
  <2> QED
    BY <1>3, <2>2, <2>3 DEF Panel!ActiveAnswered, Panel!keyVars
<1> QED
  BY <1>2, <1>3

\* The next broadcast is sent while nothing is under way, and its answer comes.
LEMMA SendKeepsPanel ==
  ASSUME PanelInv, (\E j \in Panel!Jobs : Panel!Send(j)) \/ Panel!SendAnswered
  PROVE  PanelInv'
<1>1. ASSUME NEW j \in Panel!Jobs, Panel!Send(j) PROVE PanelInv'
  <2>1. followed[j] = "none" /\ JobsStay /\ followed'[j] # "none" /\ ~Over(j)
    <3>1. Panel!Server!Launch \in SUBSET AllMoves
      BY DEF AllMoves
    <3> QED
      BY <1>1, <3>1, MovesStay DEF Panel!Send, Panel!Move, Panel!Server!Launch
  <2>2. /\ panel = "open" /\ ~sending /\ sent = 0 /\ active = Panel!NotAsked
        /\ answers = {} /\ replies = {} /\ sending' = TRUE /\ completed' = FALSE /\ sent' = j
        /\ UNCHANGED <<panel, polling, watched, kept, shown, stored, ghosts, active, answers,
                       replies, ends>>
    BY <1>1 DEF Panel!Send, Panel!keyVars
  <2>3. ~polling /\ j # watched /\ ends[j] = 0 /\ j # 0
    BY <2>1, <2>2 DEF PanelInv, PollingShown, JobsExist, Known, EndsCounted, Panel!Jobs,
         Panel!TypeOK
  <2> USE <2>1, <2>2, <2>3 DEF PanelInv, Panel!NotAsked
  <2>4. Panel!TypeOK'
    <3>0. /\ polling \in BOOLEAN /\ kept \in BOOLEAN
          /\ watched \in 0..MaxJobs /\ stored \in 0..MaxJobs /\ j \in 0..MaxJobs
      <4>1. j \in 0..MaxJobs
        BY PanelAssumption DEF Panel!Jobs
      <4> QED
        BY <4>1 DEF Panel!TypeOK
    <3>1. /\ {sending', polling', completed', kept'} \subseteq BOOLEAN
          /\ {watched', stored', sent'} \subseteq 0..MaxJobs
      BY <3>0
    <3>2. followed' \in [Panel!Jobs -> Panel!Server!JobStatus]
      BY DEF JobsStay
    <3>3. /\ panel' \in {"closed", "open"}
          /\ shown' \in Panel!Server!JobStatus \cup {"unknown"}
          /\ ghosts' \subseteq Panel!Jobs
          /\ active' \in [at : {"no", "asked", "read"}, job : 0..MaxJobs]
          /\ answers' \subseteq Panel!Jobs \X Panel!Server!JobStatus
          /\ replies' \subseteq Panel!Jobs \X Panel!Server!JobStatus
          /\ ends' \in [Panel!Jobs -> Nat]
      BY DEF Panel!TypeOK
    <3> QED
      BY <3>1, <3>2, <3>3 DEF Panel!TypeOK
  <2>5. ClosedIsBlank' /\ WaitingIsBlank' /\ SendingIsQuiet' /\ PollingShown' /\ AnswersTellTruth'
    BY DEF ClosedIsBlank, WaitingIsBlank, SendingIsQuiet, PollingShown, AnswersTellTruth
  <2>6. JobsExist'
    BY DEF JobsExist, Known, JobsStay
  <2>7. EndsCounted' /\ NotGivenUp'
    BY DEF EndsCounted, NotGivenUp, JobsStay, JobsExist, Known
  <2> QED
    BY <2>4, <2>5, <2>6, <2>7
<1>2. CASE Panel!SendAnswered
  <2>1. /\ sent # 0 /\ sent \in Panel!Jobs /\ followed[sent] # "none" /\ sent' = 0
        /\ active = Panel!NotAsked
        /\ UNCHANGED <<followed, panel, kept, shown, active, answers, replies, ends>>
        /\ kept' \in BOOLEAN
    BY <1>2 DEF Panel!SendAnswered, PanelInv, JobsExist, Known, WaitingIsBlank, Panel!TypeOK
  <2>2. CASE sending' = FALSE /\ UNCHANGED <<polling, watched, completed, stored, ghosts>>
    <3> USE <2>1, <2>2 DEF PanelInv
    <3>1. Panel!TypeOK'
      <4>1. /\ polling \in BOOLEAN /\ completed \in BOOLEAN
            /\ watched \in 0..MaxJobs /\ stored \in 0..MaxJobs /\ 0 \in 0..MaxJobs
        BY PanelAssumption DEF Panel!TypeOK
      <4>2. /\ {sending', polling', completed', kept'} \subseteq BOOLEAN
            /\ {watched', stored', sent'} \subseteq 0..MaxJobs
        BY <4>1
      <4>3. /\ followed' \in [Panel!Jobs -> Panel!Server!JobStatus]
            /\ panel' \in {"closed", "open"}
            /\ shown' \in Panel!Server!JobStatus \cup {"unknown"}
            /\ ghosts' \subseteq Panel!Jobs
            /\ active' \in [at : {"no", "asked", "read"}, job : 0..MaxJobs]
            /\ answers' \subseteq Panel!Jobs \X Panel!Server!JobStatus
            /\ replies' \subseteq Panel!Jobs \X Panel!Server!JobStatus
            /\ ends' \in [Panel!Jobs -> Nat]
        BY DEF Panel!TypeOK
      <4> QED
        BY <4>2, <4>3 DEF Panel!TypeOK
    <3>2. ~polling
      BY DEF SendingIsQuiet, PollingShown
    <3>3. ClosedIsBlank' /\ WaitingIsBlank' /\ SendingIsQuiet' /\ PollingShown' /\ AnswersTellTruth'
      BY <3>2 DEF ClosedIsBlank, WaitingIsBlank, SendingIsQuiet, PollingShown, AnswersTellTruth,
                  BlankPage, Over
    <3>4. JobsExist' /\ EndsCounted' /\ NotGivenUp'
      BY <3>2 DEF JobsExist, Known, EndsCounted, NotGivenUp, Over
    <3> QED
      BY <3>1, <3>3, <3>4
  <2>3. CASE panel = "open" /\ Panel!StartPolling(sent) /\ UNCHANGED ghosts
    <3>1. ends[sent] = 0 /\ answers = {} /\ replies = {} /\ panel' = "open"
      BY <2>1, <2>3 DEF PanelInv, SendingIsQuiet
    <3> QED
      BY <2>1, <2>3, <3>1, PollingStarts
  <2>4. CASE /\ panel = "closed" /\ stored' = sent /\ ghosts' = ghosts \cup {sent}
             /\ UNCHANGED <<sending, polling, watched, completed>>
    <3> USE <2>1, <2>4 DEF PanelInv, Panel!NotAsked
    <3>1. Panel!TypeOK'
      <4>0. /\ sending \in BOOLEAN /\ polling \in BOOLEAN /\ completed \in BOOLEAN
            /\ watched \in 0..MaxJobs /\ ghosts \subseteq Panel!Jobs
        BY DEF Panel!TypeOK
      <4>1. sent \in 0..MaxJobs /\ 0 \in 0..MaxJobs
        BY PanelAssumption DEF Panel!Jobs
      <4>2. /\ {sending', polling', completed', kept'} \subseteq BOOLEAN
            /\ {watched', stored', sent'} \subseteq 0..MaxJobs
            /\ ghosts' \subseteq Panel!Jobs
        BY <4>0, <4>1
      <4>3. /\ followed' \in [Panel!Jobs -> Panel!Server!JobStatus]
            /\ panel' \in {"closed", "open"}
            /\ shown' \in Panel!Server!JobStatus \cup {"unknown"}
            /\ active' \in [at : {"no", "asked", "read"}, job : 0..MaxJobs]
            /\ answers' \subseteq Panel!Jobs \X Panel!Server!JobStatus
            /\ replies' \subseteq Panel!Jobs \X Panel!Server!JobStatus
            /\ ends' \in [Panel!Jobs -> Nat]
        BY DEF Panel!TypeOK
      <4> QED
        BY <4>2, <4>3 DEF Panel!TypeOK
    <3>2. ClosedIsBlank' /\ WaitingIsBlank' /\ SendingIsQuiet' /\ PollingShown' /\ AnswersTellTruth'
      BY DEF ClosedIsBlank, WaitingIsBlank, SendingIsQuiet, PollingShown, AnswersTellTruth, BlankPage,
             Over
    <3>3. JobsExist' /\ EndsCounted' /\ NotGivenUp'
      BY DEF JobsExist, Known, EndsCounted, NotGivenUp, Over, ClosedIsBlank, BlankPage
    <3> QED
      BY <3>1, <3>2, <3>3
  <2> QED
    BY <1>2, <2>2, <2>3, <2>4 DEF Panel!SendAnswered, Panel!Attach, Panel!keyVars
<1> QED
  BY <1>1, <1>2

\* The interval and the controls ask; what was asked before is about the same job.
LEMMA AskKeepsPanel == PanelInv /\ (Panel!Poll \/ Panel!Press) => PanelInv'
<1> SUFFICES ASSUME PanelInv, Panel!Poll \/ Panel!Press PROVE PanelInv'
  OBVIOUS
<1>1. watched # 0 /\ watched \in Panel!Jobs /\ followed[watched] \in Panel!Server!JobStatus
  BY DEF PanelInv, PollingShown, JobsExist, Known, Panel!Poll, Panel!Press, Panel!TypeOK
<1>2. panel = "open" /\ active = Panel!NotAsked
  BY <1>1 DEF PanelInv, ClosedIsBlank, WaitingIsBlank, BlankPage, Panel!TypeOK
<1>3. /\ JobsStay /\ polling
      /\ \/ answers' = answers \cup {<<watched, followed[watched]>>} /\ UNCHANGED <<replies, followed>>
         \/ replies' = replies \cup {<<watched, followed'[watched]>>} /\ UNCHANGED answers
      /\ UNCHANGED <<panel, sending, polling, watched, shown, completed, kept, stored, ghosts,
                     active, sent, ends>>
  <2>1. CASE Panel!Poll
    BY <2>1 DEF Panel!Poll, JobsStay, PanelInv, Panel!TypeOK, Panel!pageVars, Panel!keyVars, Over
  <2>2. CASE Panel!Press
    <3>1. PICK moves \in {Panel!Server!Pause, Panel!Server!Resume, Panel!Server!Stop} :
             Panel!Move(watched, moves)
      BY <2>2 DEF Panel!Press
    <3>2. moves \in SUBSET AllMoves
      BY DEF AllMoves
    <3>3. JobsStay /\ ~Over(watched)
      BY <1>1, <3>1, <3>2, MovesStay
    <3>4. polling
      BY <1>1, <3>3 DEF PanelInv, NotGivenUp
    <3> QED
      BY <2>2, <3>3, <3>4 DEF Panel!Press, Panel!pageVars, Panel!keyVars
  <2> QED
    BY <2>1, <2>2
<1>4. followed'[watched] \in Panel!Server!JobStatus
  BY <1>1, <1>3 DEF JobsStay
<1> USE <1>1, <1>2, <1>3 DEF PanelInv
<1>5. Panel!TypeOK'
  BY <1>4 DEF Panel!TypeOK, JobsStay
<1>6. sent = 0
  BY DEF SendingIsQuiet
<1>7. ClosedIsBlank' /\ WaitingIsBlank' /\ SendingIsQuiet' /\ PollingShown'
  BY <1>6 DEF ClosedIsBlank, WaitingIsBlank, SendingIsQuiet, PollingShown, BlankPage
<1>8. AnswersTellTruth'
  <2> SUFFICES ASSUME NEW a \in answers' \cup replies'
               PROVE  a[1] = watched /\ (a[2] \in Panel!Server!Ended => Over(a[1])')
    BY DEF AnswersTellTruth, Over
  <2>1. CASE a \in answers \cup replies
    BY <2>1 DEF AnswersTellTruth, JobsStay
  <2>2. CASE a = <<watched, followed[watched]>> \/ a = <<watched, followed'[watched]>>
    BY <2>2 DEF Over, JobsStay
  <2> QED
    BY <2>1, <2>2
<1>9. JobsExist' /\ EndsCounted' /\ NotGivenUp'
  BY DEF JobsExist, Known, EndsCounted, NotGivenUp, JobsStay
<1> QED
  BY <1>5, <1>7, <1>8, <1>9

\* A status that is applied is told once, and of a job that has ended.
LEMMA ApplyCounts ==
  ASSUME PanelInv, NEW j \in Panel!Jobs, NEW s \in Panel!Server!JobStatus, Panel!Apply(j, s),
         <<j, s>> \in answers \cup replies, followed' = followed, watched' = watched
  PROVE  /\ j = watched /\ (s \in Panel!Server!Ended => Over(watched))
         /\ completed' \in BOOLEAN /\ shown' = s /\ ends' \in [Panel!Jobs -> Nat]
         /\ \A i \in Panel!Jobs : ends'[i] <= 1 /\ (ends'[i] > 0 => Over(i))
         /\ completed' \/ ends'[watched] = 0
<1> USE DEF PanelInv
<1>1. j = watched /\ (s \in Panel!Server!Ended => Over(watched))
  BY DEF AnswersTellTruth
<1>2. /\ ends \in [Panel!Jobs -> Nat] /\ completed \in BOOLEAN
      /\ \A i \in Panel!Jobs : ends[i] <= 1 /\ (ends[i] > 0 => Over(i))
      /\ completed \/ ends[watched] = 0
  BY DEF Panel!TypeOK, EndsCounted
<1>3. shown' = s /\ completed' = (completed \/ s \in Panel!Server!Ended)
  BY DEF Panel!Apply
<1>4. CASE s \in Panel!Server!Ended /\ ~completed
  <2>1. ends' = [ends EXCEPT ![j] = ends[j] + 1] /\ completed'
    BY <1>3, <1>4 DEF Panel!Apply
  <2> QED
    BY <1>1, <1>2, <1>3, <1>4, <2>1
<1>5. CASE ~(s \in Panel!Server!Ended /\ ~completed)
  <2>1. ends' = ends
    BY <1>5 DEF Panel!Apply
  <2>2. completed' \/ ends'[watched] = 0
    BY <1>2, <1>3, <2>1
  <2>3. completed' \in BOOLEAN
    BY <1>3
  <2> QED
    BY <1>1, <1>2, <1>3, <2>1, <2>2, <2>3
<1> QED
  BY <1>4, <1>5

\* An answer comes, of a poll or of a control, or is lost.
LEMMA AnswerKeepsPanel ==
  ASSUME PanelInv, NEW j \in Panel!Jobs, NEW s \in Panel!Server!JobStatus,
         Panel!Answer(j, s) \/ Panel!PollLost(j, s) \/ Panel!ControlAnswered(j, s)
  PROVE  PanelInv'
<1>1. /\ <<j, s>> \in answers \cup replies /\ UNCHANGED <<followed, panel, watched, kept, ghosts,
                                                          active, sent>>
      /\ answers' \subseteq answers /\ replies' \subseteq replies
  BY DEF Panel!Answer, Panel!PollLost, Panel!ControlAnswered, Panel!pageVars, Panel!keyVars
<1>2. /\ panel = "open" /\ sent = 0 /\ active = Panel!NotAsked /\ watched # 0
      /\ j = watched /\ (s \in Panel!Server!Ended => Over(watched))
  <2>1. answers # {} \/ replies # {}
    BY <1>1
  <2>2. j = watched /\ (s \in Panel!Server!Ended => Over(watched))
    BY <1>1 DEF PanelInv, AnswersTellTruth
  <2> QED
    BY <2>1, <2>2 DEF PanelInv, ClosedIsBlank, WaitingIsBlank, SendingIsQuiet, BlankPage, Panel!TypeOK,
         Panel!Jobs
<1>3. /\ completed' \in BOOLEAN /\ ends' \in [Panel!Jobs -> Nat]
      /\ shown' \in Panel!Server!JobStatus \cup {"unknown"}
      /\ \A i \in Panel!Jobs : ends'[i] <= 1 /\ (ends'[i] > 0 => Over(i))
      /\ polling \/ answers # {} \/ replies # {} => completed' \/ ends'[watched] = 0
  <2>1. CASE Panel!PollLost(j, s)
    BY <2>1 DEF Panel!PollLost, Panel!pageVars, PanelInv, Panel!TypeOK, EndsCounted
  <2>2. CASE Panel!Answer(j, s) \/ Panel!ControlAnswered(j, s)
    <3>1. Panel!Apply(j, s)
      BY <2>2 DEF Panel!Answer, Panel!ControlAnswered
    <3> QED
      BY <1>1, <3>1, ApplyCounts
  <2> QED
    BY <2>1, <2>2
<1>4. \/ UNCHANGED <<polling, sending, stored>>
      \/ s \in Panel!Server!Ended /\ polling' = FALSE /\ sending' = FALSE /\ stored' = 0
  BY DEF Panel!Answer, Panel!PollLost, Panel!ControlAnswered, Panel!pageVars, Panel!keyVars
<1> USE <1>1, <1>2, <1>3, <1>4 DEF PanelInv
<1>5. Panel!TypeOK'
  <2>1. {sending', polling', completed', kept'} \subseteq BOOLEAN
    BY DEF Panel!TypeOK
  <2>2. {watched', stored', sent'} \subseteq 0..MaxJobs
    BY PanelAssumption DEF Panel!TypeOK
  <2> QED
    BY <2>1, <2>2 DEF Panel!TypeOK
<1>6. ClosedIsBlank' /\ WaitingIsBlank' /\ SendingIsQuiet' /\ PollingShown'
  BY DEF ClosedIsBlank, WaitingIsBlank, SendingIsQuiet, PollingShown
<1>7. AnswersTellTruth' /\ JobsExist'
  BY DEF AnswersTellTruth, JobsExist, Known, Over
<1>8. EndsCounted'
  <2>1. polling' \/ answers' # {} \/ replies' # {} => polling \/ answers # {} \/ replies # {}
    OBVIOUS
  <2> QED
    BY <2>1 DEF EndsCounted, Over
<1>9. NotGivenUp'
  BY DEF NotGivenUp, Over
<1> QED
  BY <1>5, <1>6, <1>7, <1>8, <1>9

\* Every step keeps the invariant.
LEMMA PanelStays == PanelInv /\ [Panel!Next]_(Panel!vars) => PanelInv'
<1> SUFFICES ASSUME PanelInv, [Panel!Next]_(Panel!vars) PROVE PanelInv'
  OBVIOUS
<1>1. ASSUME NEW j \in Panel!Jobs, Panel!ServerStep(j) PROVE PanelInv'
  <2>1. Panel!Server!Pause \cup Panel!Server!Resume \cup Panel!Server!Stop \cup Panel!Server!Fail
           \cup Panel!Server!Finish \in SUBSET AllMoves
    BY DEF AllMoves
  <2>2. JobsStay
    BY <1>1, <2>1, MovesStay DEF Panel!ServerStep
  <2> QED
    BY <1>1, <2>2, ServerKeepsPanel DEF Panel!ServerStep, Panel!pageVars, Panel!keyVars,
         Panel!netVars
<1>2. CASE UNCHANGED Panel!vars
  <2>1. JobsStay
    BY <1>2 DEF Panel!vars, JobsStay, PanelInv, Panel!TypeOK, Over
  <2> QED
    BY <1>2, <2>1, ServerKeepsPanel DEF Panel!vars, Panel!pageVars, Panel!keyVars, Panel!netVars
<1> QED
  BY <1>1, <1>2, OpenKeepsPanel, LeaveKeepsPanel, ActiveKeepsPanel, SendKeepsPanel, AskKeepsPanel,
     AnswerKeepsPanel DEF Panel!Next

\* The end of each broadcast is told at most once and not before it, and the page never
\* gives up a job that goes on, however many answers overlap or come late, when the next
\* broadcast is sent with no answer under way (the broadcast page of the panel).
THEOREM EndIsToldOnce == Panel!Spec => []EndToldOnce
<1>1. PanelInv => EndToldOnce
  BY DEF PanelInv, EndsCounted, NotGivenUp, Over, EndToldOnce, Panel!EndToldOnce
<1> QED
  BY <1>1, PanelInit, PanelStays, PTL DEF Panel!Spec

-----------------------------------------------------------------------------
(* Credentials *)

\* The invariant holds at first.
LEMMA DeliveryInit == Delivery!Init => DeliveryInv
<1> SUFFICES ASSUME Delivery!Init PROVE DeliveryInv
  OBVIOUS
<1> USE DEF Delivery!Init, Delivery!Idle, Delivery!NoRow, Claimed
<1>1. Delivery!TypeOK
  <2>1. Delivery!NoRow \in Delivery!RowType
    BY DEF Delivery!RowType, Delivery!GiveUpAfter, Delivery!Gap
  <2>2. row \in [Users -> Delivery!RowType] /\ since \in 0..Delivery!Gap
    BY <2>1 DEF Delivery!Gap
  <2>3. worker \in [Processes ->
                      [at : {"idle", "claim", "quota", "rotate", "send", "bump", "sent", "failed"},
                       user : Users \cup {None}, read : Delivery!RowType]]
    BY <2>1
  <2>4. quota \in [used : 0..Limit, exhausted : BOOLEAN, today : BOOLEAN]
    BY DeliveryAssumption
  <2>5. /\ buying \in [Users -> {"no", "email", "text", "textMailed", "markText", "markMail"}]
        /\ queueing \in [Users -> {"no", "purchase", "class"}]
        /\ setBy \in [Users -> Processes \cup {"web", "class", None}]
    OBVIOUS
  <2>6. knows \subseteq Users /\ lost \subseteq Users /\ burst \in BOOLEAN
    OBVIOUS
  <2>7. deaths \in 0..MaxCrashes
    BY BroadcastAssumption
  <2> QED
    BY <2>2, <2>3, <2>4, <2>5, <2>6, <2>7 DEF Delivery!TypeOK
<1>2. DeliveryTypes
  BY <1>1 DEF DeliveryTypes, Delivery!GiveUpAfter
<1>3. OneTickClaims /\ TicksApart /\ TickTells
  BY DEF OneTickClaims, TicksApart, TickTells
<1>4. AttemptTells /\ ClassUnsent /\ NobodyLockedOut
  BY DEF AttemptTells, ClassUnsent, NobodyLockedOut, Delivery!NobodyLockedOut
<1> QED
  BY <1>2, <1>3, <1>4 DEF DeliveryInv

\* A purchase or a class gives a new password to a user no tick holds, and is about
\* to write the row.
LEMMA RotationKeepsDelivery ==
  ASSUME DeliveryInv, ~Overlapping, NEW u \in Users, Delivery!Purchase(u) \/ Delivery!Enrol(u)
  PROVE  DeliveryInv'
<1> USE DEF DeliveryInv, Delivery!Purchase, Delivery!Enrol, Delivery!Rotate, Delivery!AtWebhook,
            Delivery!rows, Delivery!history
<1>1. \A p \in Processes : worker[p].user # u
  OBVIOUS
<1>2. /\ \A v \in Users : v # u => buying'[v] = buying[v] /\ queueing'[v] = queueing[v]
      /\ queueing'[u] \in {"purchase", "class"} /\ buying'[u] \in {"no", "email"}
      /\ buying' \in [Users -> {"no", "email", "text", "textMailed", "markText", "markMail"}]
      /\ queueing' \in [Users -> {"no", "purchase", "class"}]
  BY DEF DeliveryTypes, Delivery!TypeOK
<1>3. /\ \A v \in Users : v # u => setBy'[v] = setBy[v]
      /\ buying'[u] = "email" => setBy'[u] = "web"
      /\ setBy' \in [Users -> Processes \cup {"web", "class", None}]
  BY DEF DeliveryTypes, Delivery!TypeOK
<1>4. DeliveryTypes'
  BY <1>2, <1>3 DEF DeliveryTypes, Delivery!TypeOK
<1>5. OneTickClaims'
  BY DEF OneTickClaims
<1>6. TicksApart' /\ TickTells'
  BY <1>1, <1>2, <1>3 DEF TicksApart, TickTells, DeliveryTypes, Claimed
<1>7. AttemptTells'
  BY <1>2, <1>3 DEF AttemptTells
<1>8. ClassUnsent'
  BY <1>2 DEF ClassUnsent, DeliveryTypes, Delivery!TypeOK
<1>9. NobodyLockedOut'
  BY <1>2 DEF NobodyLockedOut, Delivery!NobodyLockedOut
<1> QED
  BY <1>4, <1>5, <1>6, <1>7, <1>8, <1>9

\* A row that is written keeps the types of the table.
LEMMA DeliveryRowWritten ==
  ASSUME DeliveryTypes, NEW u \in Users, NEW new \in Delivery!RowType,
         new.status = "pending" => new.attempts < Delivery!GiveUpAfter,
         row' = [row EXCEPT ![u] = new]
  PROVE  /\ row' \in [Users -> Delivery!RowType] /\ row'[u] = new
         /\ \A v \in Users : v # u => row'[v] = row[v]
         /\ \A v \in Users : row'[v].status = "pending" => row'[v].attempts < Delivery!GiveUpAfter
BY DEF DeliveryTypes, Delivery!TypeOK

\* The row is written, or that fails; no tick holds it.
LEMMA EnqueueKeepsDelivery ==
  ASSUME DeliveryInv, NEW u \in Users, Delivery!Enqueue(u) \/ Delivery!EnqueueFails(u)
  PROVE  DeliveryInv'
<1> USE DEF DeliveryInv, Delivery!AtWebhook, Delivery!rows, Delivery!history, Delivery!passwords
<1>1. /\ \A v \in Users : v # u => queueing'[v] = queueing[v]
      /\ queueing[u] # "no" /\ queueing'[u] = "no"
      /\ queueing' \in [Users -> {"no", "purchase", "class"}]
      /\ UNCHANGED <<quota, worker, buying, setBy, knows, since, deaths, burst>>
  BY DEF DeliveryTypes, Delivery!TypeOK, Delivery!Enqueue, Delivery!EnqueueFails
<1>2. \A p \in Processes : worker[p].at # "idle" => worker[p].user \in Users \ {u}
  BY <1>1 DEF TicksApart, DeliveryTypes
<1>3. TicksApart' /\ TickTells' /\ AttemptTells'
  BY <1>1, <1>2 DEF TicksApart, TickTells, AttemptTells, Claimed
<1>4. CASE Delivery!Enqueue(u)
  <2> DEFINE new == IF queueing[u] = "purchase"
                      THEN [Delivery!NoRow EXCEPT !.status = "pending", !.due = Delivery!Grace]
                    ELSE IF row[u].status = "none" THEN [Delivery!NoRow EXCEPT !.status = "pending"]
                    ELSE row[u]
  <2>1. row' = [row EXCEPT ![u] = new] /\ UNCHANGED lost
    BY <1>4 DEF Delivery!Enqueue
  <2>2. /\ new \in Delivery!RowType /\ new.status # "none"
        /\ queueing[u] = "class" => new.status # "sent"
        /\ queueing[u] = "purchase" => new.status # "sent"
        /\ new.status = "pending" => new.attempts < Delivery!GiveUpAfter
    <3>1. row[u] \in Delivery!RowType
      BY DEF DeliveryTypes, Delivery!TypeOK
    <3>2. row[u].status = "pending" => row[u].attempts < Delivery!GiveUpAfter
      BY DEF DeliveryTypes
    <3>3. queueing[u] = "class" => row[u].status # "sent"
      BY DEF ClassUnsent
    <3>4. queueing[u] \in {"purchase", "class"}
      BY <1>1 DEF DeliveryTypes, Delivery!TypeOK
    <3> USE DEF Delivery!RowType, Delivery!NoRow, Delivery!Grace, Delivery!Gap, Delivery!GiveUpAfter
    <3>5. CASE queueing[u] = "purchase"
      <4>1. new = [status |-> "pending", channel |-> "email", attempts |-> 0, due |-> 2]
        BY <3>5
      <4> HIDE DEF new
      <4> QED
        BY <3>5, <4>1
    <3>6. CASE queueing[u] = "class" /\ row[u].status = "none"
      BY <3>6
    <3>7. CASE queueing[u] = "class" /\ row[u].status # "none"
      BY <3>1, <3>2, <3>3, <3>7
    <3> QED
      BY <3>4, <3>5, <3>6, <3>7
  <2> HIDE DEF new
  <2>3. /\ row' \in [Users -> Delivery!RowType] /\ row'[u] = new
        /\ \A v \in Users : v # u => row'[v] = row[v]
        /\ \A v \in Users : row'[v].status = "pending" => row'[v].attempts < Delivery!GiveUpAfter
    BY <2>1, <2>2, DeliveryRowWritten
  <2>4. DeliveryTypes'
    BY <1>1, <2>1, <2>3 DEF DeliveryTypes, Delivery!TypeOK
  <2>5. OneTickClaims'
    BY <1>1, <1>2, <2>3 DEF OneTickClaims, Claimed
  <2>6. ClassUnsent'
    BY <1>1, <2>3 DEF ClassUnsent
  <2>7. new.status \in {"pending", "failed"}
    BY <1>1, <2>2 DEF DeliveryTypes, Delivery!TypeOK, Delivery!RowType
  <2>8. NobodyLockedOut'
    BY <1>1, <2>1, <2>3, <2>7 DEF NobodyLockedOut, Delivery!NobodyLockedOut
  <2> QED
    BY <1>3, <2>4, <2>5, <2>6, <2>8
<1>5. CASE Delivery!EnqueueFails(u)
  <2>1. lost' = lost \cup {u} /\ row' = row
    BY <1>5 DEF Delivery!EnqueueFails
  <2>2. DeliveryTypes' /\ OneTickClaims'
    BY <1>1, <2>1 DEF DeliveryTypes, Delivery!TypeOK, OneTickClaims
  <2>3. ClassUnsent' /\ NobodyLockedOut'
    BY <1>1, <2>1 DEF ClassUnsent, NobodyLockedOut, Delivery!NobodyLockedOut
  <2> QED
    BY <1>3, <2>2, <2>3
<1> QED
  BY <1>4, <1>5

\* The immediate attempt tells the password it set, and marks a row only then.
LEMMA AttemptKeepsDelivery ==
  ASSUME DeliveryInv, NEW u \in Users,
         Delivery!EmailAtOnce(u) \/ Delivery!TextAtOnce(u) \/ Delivery!Mark(u)
  PROVE  DeliveryInv'
<1> USE DEF DeliveryInv, Delivery!AtWebhook, Delivery!rows, Delivery!history, Delivery!passwords,
            Delivery!Tell
<1>1. /\ \A v \in Users : v # u => buying'[v] = buying[v]
      /\ buying[u] # "no"
      /\ buying' \in [Users -> {"no", "email", "text", "textMailed", "markText", "markMail"}]
      /\ UNCHANGED <<quota, worker, queueing, setBy, deaths, lost, burst>>
      /\ knows \subseteq knows' /\ knows' \subseteq knows \cup {u}
      /\ buying'[u] \in {"textMailed", "markText", "markMail"} => u \in knows'
  BY DEF DeliveryTypes, Delivery!TypeOK, AttemptTells, Delivery!EmailAtOnce, Delivery!TextAtOnce,
         Delivery!Mark
<1>2. \A p \in Processes : worker[p].at # "idle" => worker[p].user \in Users \ {u}
  BY <1>1 DEF TicksApart, DeliveryTypes
<1>3. TicksApart' /\ TickTells' /\ AttemptTells'
  BY <1>1, <1>2 DEF TicksApart, TickTells, AttemptTells, Claimed
<1>4. CASE UNCHANGED <<row, since>>
  <2>1. DeliveryTypes' /\ OneTickClaims'
    BY <1>1, <1>4 DEF DeliveryTypes, Delivery!TypeOK, OneTickClaims
  <2>2. ClassUnsent' /\ NobodyLockedOut'
    BY <1>1, <1>4 DEF ClassUnsent, NobodyLockedOut, Delivery!NobodyLockedOut
  <2> QED
    BY <1>3, <2>1, <2>2
<1>5. CASE Delivery!Mark(u) /\ row[u].status = "pending"
  <2> DEFINE new == [row[u] EXCEPT !.status = "sent",
                                   !.channel = IF buying[u] = "markText"
                                                 THEN "whatsapp" ELSE "email"]
  <2>1. row[u] \in Delivery!RowType
    BY DEF DeliveryTypes, Delivery!TypeOK
  <2>2. new \in Delivery!RowType /\ new.status = "sent"
    BY <2>1 DEF Delivery!RowType
  <2>3. row' = [row EXCEPT ![u] = new] /\ since' \in {since, 0} /\ u \in knows'
    <3>1. row' = [row EXCEPT ![u] = new]
      BY <1>5 DEF Delivery!Mark, DeliveryTypes, Delivery!TypeOK
    <3> QED
      BY <1>1, <1>5, <3>1 DEF Delivery!Mark, AttemptTells
  <2> HIDE DEF new
  <2>4. /\ row' \in [Users -> Delivery!RowType] /\ row'[u] = new
        /\ \A v \in Users : v # u => row'[v] = row[v]
        /\ \A v \in Users : row'[v].status = "pending" => row'[v].attempts < Delivery!GiveUpAfter
    BY <2>2, <2>3, DeliveryRowWritten
  <2>5. since' \in 0..Delivery!Gap
    BY <2>3 DEF DeliveryTypes, Delivery!TypeOK, Delivery!Gap
  <2>6. DeliveryTypes'
    BY <1>1, <2>4, <2>5 DEF DeliveryTypes, Delivery!TypeOK
  <2>7. OneTickClaims'
    BY <1>1, <1>2, <2>4 DEF OneTickClaims, Claimed
  <2>8. ClassUnsent' /\ NobodyLockedOut'
    BY <1>1, <2>2, <2>3, <2>4 DEF ClassUnsent, NobodyLockedOut, Delivery!NobodyLockedOut
  <2> QED
    BY <1>3, <2>6, <2>7, <2>8
<1> QED
  BY <1>4, <1>5 DEF Delivery!EmailAtOnce, Delivery!TextAtOnce, Delivery!Mark

\* A step of a tick: what the types and the others' claims ask of it. The worker has
\* what it had or is idle, and the row it may write is one it has claimed.
LEMMA WorkerGoesOn ==
  ASSUME DeliveryTypes, NEW p \in Processes,
         NEW point \in {"quota", "rotate", "send", "bump", "sent", "failed"},
         Delivery!Goto(p, point)
  PROVE  /\ worker' \in [Processes ->
                         [at : {"idle", "claim", "quota", "rotate", "send", "bump", "sent", "failed"},
                          user : Users \cup {None}, read : Delivery!RowType]]
         /\ worker'[p].at = point /\ worker'[p].user = worker[p].user
         /\ worker'[p].read = worker[p].read
         /\ \A q \in Processes : q # p => worker'[q] = worker[q]
BY DEF DeliveryTypes, Delivery!TypeOK, Delivery!Goto

LEMMA WorkerReturns ==
  ASSUME DeliveryTypes, NEW p \in Processes, Delivery!Return(p)
  PROVE  /\ worker' \in [Processes ->
                         [at : {"idle", "claim", "quota", "rotate", "send", "bump", "sent", "failed"},
                          user : Users \cup {None}, read : Delivery!RowType]]
         /\ worker'[p].at = "idle" /\ worker'[p].read.attempts = 0
         /\ \A q \in Processes : q # p => worker'[q] = worker[q]
<1>1. Delivery!Idle \in [at : {"idle", "claim", "quota", "rotate", "send", "bump", "sent", "failed"},
                         user : Users \cup {None}, read : Delivery!RowType]
  BY DEF Delivery!Idle, Delivery!NoRow, Delivery!RowType, Delivery!GiveUpAfter, Delivery!Gap
<1>2. Delivery!Idle.at = "idle" /\ Delivery!Idle.read.attempts = 0
  BY DEF Delivery!Idle, Delivery!NoRow
<1> QED
  BY <1>1, <1>2 DEF DeliveryTypes, Delivery!TypeOK, Delivery!Return

\* Nobody is locked out by a step that writes one row as it may be.
LEMMA StillNotLockedOut ==
  ASSUME NobodyLockedOut, NEW u \in Users,
         \A v \in Users : v # u => row'[v] = row[v],
         u \in knows' \/ row'[u].status \in {"pending", "failed"},
         knows \ {u} \subseteq knows', UNCHANGED <<queueing, lost>>
  PROVE  NobodyLockedOut'
BY DEF NobodyLockedOut, Delivery!NobodyLockedOut

\* A tick finds a row that is due and whose user no webhook handles.
LEMMA FindKeepsDelivery ==
  ASSUME DeliveryInv, ~Overlapping, NEW p \in Processes, NEW u \in Users, Delivery!Find(p, u)
  PROVE  DeliveryInv'
<1> USE DEF DeliveryInv, Delivery!Find, Delivery!rows, Delivery!passwords, Delivery!history
<1> DEFINE w == [at |-> "claim", user |-> u, read |-> row[u]]
<1>1. row[u] \in Delivery!RowType /\ row[u].attempts < Delivery!GiveUpAfter
  BY DEF DeliveryTypes, Delivery!TypeOK
<1>2. w \in [at : {"idle", "claim", "quota", "rotate", "send", "bump", "sent", "failed"},
             user : Users \cup {None}, read : Delivery!RowType]
  BY <1>1
<1>3. /\ worker' \in [Processes ->
                       [at : {"idle", "claim", "quota", "rotate", "send", "bump", "sent", "failed"},
                        user : Users \cup {None}, read : Delivery!RowType]]
      /\ worker'[p] = w /\ \A q \in Processes : q # p => worker'[q] = worker[q]
  BY <1>2 DEF DeliveryTypes, Delivery!TypeOK
<1>4. DeliveryTypes'
  BY <1>1, <1>3 DEF DeliveryTypes, Delivery!TypeOK
<1>5. OneTickClaims'
  BY <1>3 DEF OneTickClaims, Claimed
<1>6. TicksApart' /\ TickTells'
  BY <1>3 DEF TicksApart, TickTells, Delivery!AtWebhook
<1>7. AttemptTells' /\ ClassUnsent' /\ NobodyLockedOut'
  BY DEF AttemptTells, ClassUnsent, NobodyLockedOut, Delivery!NobodyLockedOut
<1> QED
  BY <1>4, <1>5, <1>6, <1>7

\* Of two ticks that read one row, the second finds its date moved.
LEMMA ClaimKeepsDelivery ==
  ASSUME DeliveryInv, NEW p \in Processes, Delivery!Claim(p)
  PROVE  DeliveryInv'
<1> USE DEF DeliveryInv, Delivery!passwords, Delivery!history
<1> DEFINE u == worker[p].user
<1>1. u \in Users /\ worker[p].at = "claim" /\ worker[p].read.due = 0
      /\ UNCHANGED <<quota, buying, queueing, setBy, knows, since, deaths, lost, burst>>
  BY DEF DeliveryTypes, OneTickClaims, Delivery!Claim
<1>2. CASE row[u].status = "pending" /\ row[u].due = worker[p].read.due
  <2> DEFINE new == [row[u] EXCEPT !.due = Delivery!ClaimFor]
  <2>1. row[u] \in Delivery!RowType /\ row[u].attempts < Delivery!GiveUpAfter
    BY <1>1, <1>2 DEF DeliveryTypes, Delivery!TypeOK
  <2>2. /\ new \in Delivery!RowType /\ new.status = "pending" /\ new.due = Delivery!ClaimFor
        /\ new.attempts < Delivery!GiveUpAfter
    BY <1>2, <2>1 DEF Delivery!RowType, Delivery!ClaimFor, Delivery!Gap
  <2>3. row' = [row EXCEPT ![u] = new] /\ Delivery!Goto(p, "quota")
    BY <1>2 DEF Delivery!Claim
  <2> HIDE DEF new
  <2>4. /\ row' \in [Users -> Delivery!RowType] /\ row'[u] = new
        /\ \A v \in Users : v # u => row'[v] = row[v]
        /\ \A v \in Users : row'[v].status = "pending" => row'[v].attempts < Delivery!GiveUpAfter
    BY <1>1, <2>2, <2>3, DeliveryRowWritten
  <2>5. /\ worker' \in [Processes ->
                         [at : {"idle", "claim", "quota", "rotate", "send", "bump", "sent", "failed"},
                          user : Users \cup {None}, read : Delivery!RowType]]
        /\ worker'[p].at = "quota" /\ worker'[p].user = u /\ worker'[p].read = worker[p].read
        /\ \A q \in Processes : q # p => worker'[q] = worker[q]
    BY <2>3, WorkerGoesOn
  <2>6. DeliveryTypes'
    BY <1>1, <2>4, <2>5 DEF DeliveryTypes, Delivery!TypeOK
  <2>7. \A q \in Processes : worker[q].at \in Claimed => worker[q].user # u
    BY <1>1, <1>2 DEF OneTickClaims, Delivery!ClaimFor
  <2>8. OneTickClaims'
    BY <1>1, <2>2, <2>4, <2>5, <2>7 DEF OneTickClaims, Claimed, DeliveryTypes
  <2>9. TicksApart' /\ TickTells'
    BY <1>1, <2>5 DEF TicksApart, TickTells, Delivery!AtWebhook
  <2>10. AttemptTells' /\ ClassUnsent'
    BY <1>1, <1>2, <2>2, <2>4 DEF AttemptTells, ClassUnsent
  <2>11. NobodyLockedOut'
    BY <1>1, <2>2, <2>4, StillNotLockedOut
  <2> QED
    BY <2>6, <2>8, <2>9, <2>10, <2>11
<1>3. CASE ~(row[u].status = "pending" /\ row[u].due = worker[p].read.due)
  <2>1. row' = row /\ Delivery!Return(p)
    BY <1>3 DEF Delivery!Claim
  <2>2. /\ worker' \in [Processes ->
                         [at : {"idle", "claim", "quota", "rotate", "send", "bump", "sent", "failed"},
                          user : Users \cup {None}, read : Delivery!RowType]]
        /\ worker'[p].at = "idle" /\ worker'[p].read.attempts = 0
        /\ \A q \in Processes : q # p => worker'[q] = worker[q]
    BY <2>1, WorkerReturns
  <2>3. DeliveryTypes'
    BY <1>1, <2>1, <2>2 DEF DeliveryTypes, Delivery!TypeOK, Delivery!GiveUpAfter
  <2>4. OneTickClaims' /\ TicksApart' /\ TickTells'
    BY <1>1, <2>1, <2>2 DEF OneTickClaims, TicksApart, TickTells, Delivery!AtWebhook, Claimed
  <2>5. AttemptTells' /\ ClassUnsent' /\ NobodyLockedOut'
    BY <1>1, <2>1 DEF AttemptTells, ClassUnsent, NobodyLockedOut, Delivery!NobodyLockedOut
  <2> QED
    BY <2>3, <2>4, <2>5
<1> QED
  BY <1>2, <1>3

\* What a tick that has claimed a row may count on.
LEMMA ClaimHolds ==
  ASSUME DeliveryInv, NEW p \in Processes, worker[p].at \in Claimed
  PROVE  /\ worker[p].user \in Users /\ row[worker[p].user].status = "pending"
         /\ row[worker[p].user] \in Delivery!RowType
         /\ buying[worker[p].user] = "no" /\ queueing[worker[p].user] = "no"
         /\ \A q \in Processes :
               worker[q].at \in Claimed /\ worker[q].user = worker[p].user => q = p
BY DEF DeliveryInv, DeliveryTypes, Delivery!TypeOK, OneTickClaims, TicksApart, Delivery!AtWebhook,
       Claimed

\* A tick that goes on with its row as it is keeps its claim.
LEMMA PointKeepsClaims ==
  ASSUME DeliveryInv, NEW p \in Processes,
         NEW point \in {"rotate", "send", "bump", "sent", "failed"},
         worker[p].at \in Claimed, Delivery!Goto(p, point), UNCHANGED <<row, buying, queueing>>
  PROVE  OneTickClaims' /\ TicksApart' /\ ClassUnsent'
<1>1. /\ worker'[p].at = point /\ worker'[p].user = worker[p].user
      /\ worker'[p].read = worker[p].read
      /\ \A q \in Processes : q # p => worker'[q] = worker[q]
  BY WorkerGoesOn DEF DeliveryInv
<1>2. OneTickClaims'
  BY <1>1 DEF DeliveryInv, OneTickClaims, Claimed
<1>3. TicksApart' /\ ClassUnsent'
  BY <1>1 DEF DeliveryInv, TicksApart, ClassUnsent, Delivery!AtWebhook, Claimed
<1> QED
  BY <1>2, <1>3

\* A tick that goes on with its row as it is keeps the types.
LEMMA PointKeepsTypes ==
  ASSUME DeliveryTypes, NEW p \in Processes,
         NEW point \in {"rotate", "send", "bump", "sent", "failed"},
         worker[p].at \in Claimed, Delivery!Goto(p, point),
         quota' \in [used : 0..Limit, exhausted : BOOLEAN, today : BOOLEAN],
         setBy' \in [Users -> Processes \cup {"web", "class", None}],
         knows' \subseteq Users, burst' \in BOOLEAN,
         UNCHANGED <<row, buying, queueing, since, deaths, lost>>
  PROVE  DeliveryTypes'
<1>1. /\ worker' \in [Processes ->
                       [at : {"idle", "claim", "quota", "rotate", "send", "bump", "sent", "failed"},
                        user : Users \cup {None}, read : Delivery!RowType]]
      /\ worker'[p].at = point /\ worker'[p].user = worker[p].user
      /\ worker'[p].read = worker[p].read
      /\ \A q \in Processes : q # p => worker'[q] = worker[q]
  BY WorkerGoesOn
<1>2. worker[p].user \in Users
  BY DEF DeliveryTypes, Claimed
<1> QED
  BY <1>1, <1>2 DEF DeliveryTypes, Delivery!TypeOK

\* Without a way to send, the row fails or waits for a slot of the other channel.
LEMMA RouteKeepsDelivery ==
  ASSUME DeliveryInv, NEW p \in Processes, Delivery!Route(p)
  PROVE  DeliveryInv'
<1> USE DEF DeliveryInv
<1> DEFINE u == worker[p].user
<1>1. /\ worker[p].at = "quota" /\ worker[p].at \in Claimed
      /\ UNCHANGED <<buying, queueing, setBy, knows, since, deaths, lost, burst>>
  BY DEF Delivery!Route, Claimed, Delivery!passwords, Delivery!history
<1>2. /\ u \in Users /\ row[u].status = "pending" /\ row[u] \in Delivery!RowType
      /\ buying[u] = "no" /\ queueing[u] = "no"
      /\ \A q \in Processes : worker[q].at \in Claimed /\ worker[q].user = u => q = p
  BY <1>1, ClaimHolds
<1>3. quota' \in [used : 0..Limit, exhausted : BOOLEAN, today : BOOLEAN]
  BY DeliveryAssumption DEF Delivery!Route, Delivery!Today, DeliveryTypes, Delivery!TypeOK
<1>4. CASE Delivery!Goto(p, "rotate") /\ row' = row
  <2>1. OneTickClaims' /\ TicksApart' /\ ClassUnsent' /\ DeliveryTypes'
    BY <1>1, <1>3, <1>4, PointKeepsClaims, PointKeepsTypes DEF DeliveryTypes, Delivery!TypeOK
  <2>2. TickTells'
    BY <1>1, <1>4, WorkerGoesOn DEF TickTells
  <2>3. AttemptTells' /\ NobodyLockedOut'
    BY <1>1, <1>4 DEF AttemptTells, NobodyLockedOut, Delivery!NobodyLockedOut
  <2> QED
    BY <2>1, <2>2, <2>3
<1>5. CASE Delivery!Return(p) /\ \E new \in Delivery!RowType :
                 /\ row' = [row EXCEPT ![u] = new] /\ new.status \in {"pending", "failed"}
                 /\ new.attempts = row[u].attempts
  <2>1. PICK new \in Delivery!RowType :
                 /\ row' = [row EXCEPT ![u] = new] /\ new.status \in {"pending", "failed"}
                 /\ new.attempts = row[u].attempts
    BY <1>5
  <2>2. new.attempts < Delivery!GiveUpAfter
    BY <1>2, <2>1 DEF DeliveryTypes
  <2>3. /\ row' \in [Users -> Delivery!RowType] /\ row'[u] = new
        /\ \A v \in Users : v # u => row'[v] = row[v]
        /\ \A v \in Users : row'[v].status = "pending" => row'[v].attempts < Delivery!GiveUpAfter
    BY <1>2, <2>1, <2>2, DeliveryRowWritten
  <2>4. /\ worker' \in [Processes ->
                         [at : {"idle", "claim", "quota", "rotate", "send", "bump", "sent", "failed"},
                          user : Users \cup {None}, read : Delivery!RowType]]
        /\ worker'[p].at = "idle" /\ worker'[p].read.attempts = 0
        /\ \A q \in Processes : q # p => worker'[q] = worker[q]
    BY <1>5, WorkerReturns
  <2>5. DeliveryTypes'
    BY <1>1, <1>3, <2>3, <2>4 DEF DeliveryTypes, Delivery!TypeOK, Delivery!GiveUpAfter
  <2>6. OneTickClaims'
    BY <1>2, <2>3, <2>4 DEF OneTickClaims, Claimed, DeliveryTypes
  <2>7. TicksApart' /\ TickTells' /\ AttemptTells'
    BY <1>1, <2>4 DEF TicksApart, TickTells, AttemptTells, Delivery!AtWebhook
  <2>8. ClassUnsent'
    BY <1>1, <1>2, <2>3 DEF ClassUnsent
  <2>9. NobodyLockedOut'
    BY <1>1, <1>2, <2>1, <2>3, StillNotLockedOut
  <2> QED
    BY <2>5, <2>6, <2>7, <2>8, <2>9
<1>6. Delivery!Return(p) => \E new \in Delivery!RowType :
                 /\ row' = [row EXCEPT ![u] = new] /\ new.status \in {"pending", "failed"}
                 /\ new.attempts = row[u].attempts
  <2> SUFFICES ASSUME Delivery!Return(p)
               PROVE  \E new \in Delivery!RowType :
                 /\ row' = [row EXCEPT ![u] = new] /\ new.status \in {"pending", "failed"}
                 /\ new.attempts = row[u].attempts
    OBVIOUS
  <2>1. worker'[p].at = "idle"
    BY WorkerReturns
  <2>2. \/ row' = [row EXCEPT ![u].status = "failed"]
        \/ \E slot \in Delivery!Slots : row' = [row EXCEPT ![u].channel = "whatsapp", ![u].due = slot]
    BY <2>1, WorkerGoesOn DEF Delivery!Route
  <2>3. CASE row' = [row EXCEPT ![u].status = "failed"]
    <3> DEFINE new == [row[u] EXCEPT !.status = "failed"]
    <3>1. row' = [row EXCEPT ![u] = new]
      BY <2>3
    <3>2. new \in Delivery!RowType /\ new.status = "failed" /\ new.attempts = row[u].attempts
      BY <1>2 DEF Delivery!RowType
    <3> QED
      BY <3>1, <3>2
  <2>4. ASSUME NEW slot \in Delivery!Slots,
               row' = [row EXCEPT ![u].channel = "whatsapp", ![u].due = slot]
        PROVE  \E new \in Delivery!RowType :
                 /\ row' = [row EXCEPT ![u] = new] /\ new.status \in {"pending", "failed"}
                 /\ new.attempts = row[u].attempts
    <3> DEFINE new == [row[u] EXCEPT !.channel = "whatsapp", !.due = slot]
    <3>1. row' = [row EXCEPT ![u] = new]
      BY <1>2, <2>4 DEF DeliveryTypes, Delivery!TypeOK
    <3>2. slot \in 0..(Delivery!Gap + 1)
      BY DEF Delivery!Slots, Delivery!Gap, DeliveryTypes, Delivery!TypeOK
    <3>3. new \in Delivery!RowType /\ new.status = "pending" /\ new.attempts = row[u].attempts
      BY <1>2, <3>2 DEF Delivery!RowType
    <3> QED
      BY <3>1, <3>3
  <2> QED
    BY <2>2, <2>3, <2>4
<1> QED
  BY <1>4, <1>5, <1>6 DEF Delivery!Route

\* The password is rotated, sent and counted under the claim.
LEMMA SendKeepsDelivery ==
  ASSUME DeliveryInv, NEW p \in Processes,
         Delivery!RotatePassword(p) \/ Delivery!Send(p) \/ Delivery!Bump(p)
  PROVE  DeliveryInv'
<1> USE DEF DeliveryInv
<1> DEFINE u == worker[p].user
<1>1. /\ worker[p].at \in Claimed
      /\ UNCHANGED <<row, buying, queueing, since, deaths, lost>>
  BY DEF Delivery!RotatePassword, Delivery!Send, Delivery!Bump, Claimed, Delivery!passwords,
         Delivery!history, Delivery!rows
<1>2. /\ u \in Users /\ row[u].status = "pending" /\ row[u] \in Delivery!RowType
      /\ buying[u] = "no" /\ queueing[u] = "no"
      /\ \A q \in Processes : worker[q].at \in Claimed /\ worker[q].user = u => q = p
  BY <1>1, ClaimHolds
<1>3. PICK point \in {"send", "bump", "sent", "failed"} :
        /\ Delivery!Goto(p, point)
        /\ point = "send" => Delivery!RotatePassword(p)
        /\ point \in {"bump", "sent"} => u \in knows'
  <2>1. CASE Delivery!RotatePassword(p)
    BY <2>1 DEF Delivery!RotatePassword
  <2>2. CASE Delivery!Send(p)
    <3>1. setBy[u] = p
      BY <2>2 DEF Delivery!Send, TickTells
    <3> QED
      BY <2>2, <3>1 DEF Delivery!Send, Delivery!Tell
  <2>3. CASE Delivery!Bump(p)
    BY <2>3 DEF Delivery!Bump, TickTells, Delivery!passwords
  <2> QED
    BY <2>1, <2>2, <2>3
<1>4. quota' \in [used : 0..Limit, exhausted : BOOLEAN, today : BOOLEAN]
  <2>1. quota \in [used : 0..Limit, exhausted : BOOLEAN, today : BOOLEAN]
    BY DEF DeliveryTypes, Delivery!TypeOK
  <2>2. \/ quota' = quota \/ quota' = [quota EXCEPT !.exhausted = TRUE, !.today = TRUE]
        \/ quota' = [quota EXCEPT !.used = IF @ < Limit THEN @ + 1 ELSE @, !.today = TRUE]
    BY DEF Delivery!RotatePassword, Delivery!Send, Delivery!Bump
  <2>3. CASE quota' = [quota EXCEPT !.exhausted = TRUE, !.today = TRUE]
    BY <2>1, <2>3
  <2>4. CASE quota' = [quota EXCEPT !.used = IF @ < Limit THEN @ + 1 ELSE @, !.today = TRUE]
    <3>1. (IF quota.used < Limit THEN quota.used + 1 ELSE quota.used) \in 0..Limit
      BY <2>1, DeliveryAssumption
    <3> QED
      BY <2>1, <2>4, <3>1
  <2> QED
    BY <2>1, <2>2, <2>3, <2>4
<1>5. /\ knows \ {u} \subseteq knows' /\ knows' \subseteq knows \cup {u} /\ burst' \in BOOLEAN
      /\ \A v \in Users : v # u => setBy'[v] = setBy[v]
      /\ setBy' \in [Users -> Processes \cup {"web", "class", None}]
      /\ Delivery!RotatePassword(p) => setBy'[u] = p
  <2>1. setBy \in [Users -> Processes \cup {"web", "class", None}] /\ burst \in BOOLEAN
    BY DEF DeliveryTypes, Delivery!TypeOK
  <2>2. CASE Delivery!RotatePassword(p)
    BY <1>2, <2>1, <2>2 DEF Delivery!RotatePassword, Delivery!Rotate, Delivery!history
  <2>3. CASE Delivery!Send(p)
    <3>1. ~Delivery!RotatePassword(p)
      BY <2>3 DEF Delivery!RotatePassword, Delivery!Send
    <3>2. setBy' = setBy /\ burst' \in BOOLEAN
      BY <2>1, <2>3 DEF Delivery!Send
    <3>3. knows' = knows \/ Delivery!Tell(u, p)
      BY <2>3 DEF Delivery!Send
    <3> QED
      BY <2>1, <3>1, <3>2, <3>3 DEF Delivery!Tell
  <2>4. CASE Delivery!Bump(p)
    BY <2>1, <2>4 DEF Delivery!Bump, Delivery!RotatePassword, Delivery!passwords, Delivery!history
  <2> QED
    BY <2>2, <2>3, <2>4
<1>6. /\ worker'[p].at = point /\ worker'[p].user = u
      /\ \A q \in Processes : q # p => worker'[q] = worker[q]
  BY <1>3, WorkerGoesOn
<1>7. OneTickClaims' /\ TicksApart' /\ ClassUnsent'
  BY <1>1, <1>3, PointKeepsClaims
<1>8. DeliveryTypes'
  <2>1. knows' \subseteq Users
    BY <1>2, <1>5 DEF DeliveryTypes, Delivery!TypeOK
  <2> QED
    BY <1>1, <1>3, <1>4, <1>5, <2>1, PointKeepsTypes
<1>9. TickTells'
  BY <1>2, <1>3, <1>5, <1>6 DEF TickTells, Claimed, DeliveryTypes
<1>10. AttemptTells' /\ NobodyLockedOut'
  BY <1>1, <1>2, <1>5, StillNotLockedOut DEF AttemptTells
<1> QED
  BY <1>7, <1>8, <1>9, <1>10

\* A row that is written after an attempt is a row.
LEMMA AttemptIsDeliveryRow ==
  ASSUME NEW r \in Delivery!RowType, NEW n \in 1..Delivery!GiveUpAfter,
         NEW s \in {"none", "pending", "sent", "failed"}, NEW d \in 0..(Delivery!Gap + 1)
  PROVE  /\ [r EXCEPT !.status = s, !.attempts = n] \in Delivery!RowType
         /\ [r EXCEPT !.status = s, !.attempts = n, !.due = d] \in Delivery!RowType
<1>1. n \in 0..Delivery!GiveUpAfter
  BY DEF Delivery!GiveUpAfter
<1> QED
  BY <1>1 DEF Delivery!RowType

\* The tick writes what became of the row, and lets it go.
LEMMA FinishKeepsDelivery ==
  ASSUME DeliveryInv, NEW p \in Processes, Delivery!Finish(p)
  PROVE  DeliveryInv'
<1> USE DEF DeliveryInv
<1> DEFINE u == worker[p].user
           tries == worker[p].read.attempts + 1
           new == IF worker[p].at = "sent"
                    THEN [row[u] EXCEPT !.status = "sent", !.attempts = tries]
                  ELSE [row[u] EXCEPT
                          !.status = IF tries >= Delivery!GiveUpAfter THEN "failed" ELSE "pending",
                          !.attempts = tries, !.due = Delivery!Retry]
<1>1. /\ worker[p].at \in {"sent", "failed"} /\ worker[p].at \in Claimed /\ Delivery!Return(p)
      /\ UNCHANGED <<quota, buying, queueing, setBy, knows, deaths, lost, burst>>
  BY DEF Delivery!Finish, Claimed, Delivery!passwords, Delivery!history
<1>2. /\ u \in Users /\ row[u].status = "pending" /\ row[u] \in Delivery!RowType
      /\ buying[u] = "no" /\ queueing[u] = "no"
      /\ \A q \in Processes : worker[q].at \in Claimed /\ worker[q].user = u => q = p
  BY <1>1, ClaimHolds
<1>3. tries \in 1..Delivery!GiveUpAfter
  BY DEF DeliveryTypes, Delivery!TypeOK, Delivery!RowType, Delivery!GiveUpAfter
<1> DEFINE r == row[u]
<1>4. row' = [row EXCEPT ![u] = new]
  BY <1>1, <1>2 DEF Delivery!Finish, DeliveryTypes, Delivery!TypeOK
<1>5. since' \in 0..Delivery!Gap
  BY DEF Delivery!Finish, DeliveryTypes, Delivery!TypeOK, Delivery!Gap
<1> HIDE DEF tries
<1>r. r \in Delivery!RowType
  BY <1>2
<1>6. /\ new \in Delivery!RowType
      /\ new.status = "pending" => new.attempts < Delivery!GiveUpAfter
      /\ new.status \in {"pending", "failed"} \/ u \in knows
  <2>1. CASE worker[p].at = "sent"
    <3>1. new = [r EXCEPT !.status = "sent", !.attempts = tries]
      BY <2>1
    <3>2. u \in knows
      BY <2>1 DEF TickTells
    <3> HIDE DEF new, r
    <3>3. new \in Delivery!RowType /\ new.status = "sent"
      <4>1. Delivery!Retry \in 0..(Delivery!Gap + 1)
        BY DEF Delivery!Retry, Delivery!Gap
      <4>2. new \in Delivery!RowType
        BY <1>r, <1>3, <3>1, <4>1, AttemptIsDeliveryRow
      <4> QED
        BY <1>r, <3>1, <4>2 DEF Delivery!RowType
    <3> QED
      BY <3>2, <3>3
  <2>2. CASE worker[p].at = "failed"
    <3>1. Delivery!Retry \in 0..(Delivery!Gap + 1)
      BY DEF Delivery!Retry, Delivery!Gap
    <3>2. new = [r EXCEPT
                   !.status = IF tries >= Delivery!GiveUpAfter THEN "failed" ELSE "pending",
                   !.attempts = tries, !.due = Delivery!Retry]
      BY <2>2
    <3> HIDE DEF new, r
    <3>3. /\ new \in Delivery!RowType /\ new.attempts = tries
          /\ new.status = IF tries >= Delivery!GiveUpAfter THEN "failed" ELSE "pending"
      <4>1. new \in Delivery!RowType
        BY <1>r, <1>3, <3>1, <3>2, AttemptIsDeliveryRow
      <4> QED
        BY <1>r, <3>2, <4>1 DEF Delivery!RowType
    <3> QED
      BY <1>3, <3>3 DEF Delivery!GiveUpAfter
  <2> QED
    BY <1>1, <2>1, <2>2
<1> HIDE DEF new
<1>7. /\ row' \in [Users -> Delivery!RowType] /\ row'[u] = new
      /\ \A v \in Users : v # u => row'[v] = row[v]
      /\ \A v \in Users : row'[v].status = "pending" => row'[v].attempts < Delivery!GiveUpAfter
  BY <1>2, <1>4, <1>6, DeliveryRowWritten
<1>8. /\ worker' \in [Processes ->
                       [at : {"idle", "claim", "quota", "rotate", "send", "bump", "sent", "failed"},
                        user : Users \cup {None}, read : Delivery!RowType]]
      /\ worker'[p].at = "idle" /\ worker'[p].read.attempts = 0
      /\ \A q \in Processes : q # p => worker'[q] = worker[q]
  BY <1>1, WorkerReturns
<1>9. DeliveryTypes'
  BY <1>1, <1>5, <1>7, <1>8 DEF DeliveryTypes, Delivery!TypeOK, Delivery!GiveUpAfter
<1>10. OneTickClaims'
  BY <1>2, <1>7, <1>8 DEF OneTickClaims, Claimed, DeliveryTypes
<1>11. TicksApart' /\ TickTells' /\ AttemptTells'
  BY <1>1, <1>8 DEF TicksApart, TickTells, AttemptTells, Delivery!AtWebhook
<1>12. ClassUnsent'
  BY <1>1, <1>2, <1>7 DEF ClassUnsent
<1>13. NobodyLockedOut'
  BY <1>1, <1>2, <1>6, <1>7, StillNotLockedOut
<1> QED
  BY <1>9, <1>10, <1>11, <1>12, <1>13

\* A process dies with its tick, or with what its webhook had to write.
LEMMA CrashKeepsDelivery == DeliveryInv /\ Delivery!Crash => DeliveryInv'
<1> SUFFICES ASSUME DeliveryInv, Delivery!Crash PROVE DeliveryInv'
  OBVIOUS
<1> USE DEF DeliveryInv
<1>1. /\ UNCHANGED <<row, since, quota, setBy, knows, burst>> /\ deaths' \in 0..MaxCrashes
  BY BroadcastAssumption DEF Delivery!Crash, Delivery!rows, Delivery!passwords, DeliveryTypes,
       Delivery!TypeOK
<1>2. ASSUME NEW p \in Processes, Delivery!Return(p), UNCHANGED <<buying, queueing, lost>>
      PROVE  DeliveryInv'
  <2>1. /\ worker' \in [Processes ->
                         [at : {"idle", "claim", "quota", "rotate", "send", "bump", "sent", "failed"},
                          user : Users \cup {None}, read : Delivery!RowType]]
        /\ worker'[p].at = "idle" /\ worker'[p].read.attempts = 0
        /\ \A q \in Processes : q # p => worker'[q] = worker[q]
    BY <1>2, WorkerReturns
  <2>2. DeliveryTypes'
    BY <1>1, <1>2, <2>1 DEF DeliveryTypes, Delivery!TypeOK, Delivery!GiveUpAfter
  <2>3. OneTickClaims' /\ TicksApart' /\ TickTells'
    BY <1>1, <1>2, <2>1 DEF OneTickClaims, TicksApart, TickTells, Delivery!AtWebhook, Claimed
  <2>4. AttemptTells' /\ ClassUnsent' /\ NobodyLockedOut'
    BY <1>1, <1>2 DEF AttemptTells, ClassUnsent, NobodyLockedOut, Delivery!NobodyLockedOut
  <2> QED
    BY <2>2, <2>3, <2>4
<1>3. ASSUME NEW u \in Users, buying' = [buying EXCEPT ![u] = "no"],
             queueing' = [queueing EXCEPT ![u] = "no"],
             lost' = IF queueing[u] # "no" THEN lost \cup {u} ELSE lost, UNCHANGED worker
      PROVE  DeliveryInv'
  <2>1. /\ \A v \in Users : /\ buying'[v] = IF v = u THEN "no" ELSE buying[v]
                            /\ queueing'[v] = IF v = u THEN "no" ELSE queueing[v]
        /\ buying' \in [Users -> {"no", "email", "text", "textMailed", "markText", "markMail"}]
        /\ queueing' \in [Users -> {"no", "purchase", "class"}]
    BY <1>3 DEF DeliveryTypes, Delivery!TypeOK
  <2>2. DeliveryTypes' /\ OneTickClaims' /\ TickTells'
    BY <1>1, <1>3, <2>1 DEF DeliveryTypes, Delivery!TypeOK, OneTickClaims, TickTells
  <2>3. TicksApart'
    BY <1>3, <2>1 DEF TicksApart, Delivery!AtWebhook, DeliveryTypes
  <2>4. AttemptTells' /\ ClassUnsent'
    BY <1>1, <2>1 DEF AttemptTells, ClassUnsent
  <2>5. NobodyLockedOut'
    BY <1>1, <1>3, <2>1 DEF NobodyLockedOut, Delivery!NobodyLockedOut
  <2> QED
    BY <2>2, <2>3, <2>4, <2>5
<1> QED
  BY <1>2, <1>3 DEF Delivery!Crash

\* Time passes while nobody is at work.
LEMMA TimeKeepsDelivery == DeliveryInv /\ (Delivery!NewDay \/ Delivery!Elapse) => DeliveryInv'
<1> SUFFICES ASSUME DeliveryInv, Delivery!NewDay \/ Delivery!Elapse PROVE DeliveryInv'
  OBVIOUS
<1> USE DEF DeliveryInv
<1>1. CASE Delivery!NewDay
  <2> USE <1>1 DEF Delivery!NewDay, Delivery!rows, Delivery!passwords, Delivery!history
  <2>1. DeliveryTypes' /\ OneTickClaims' /\ TicksApart' /\ TickTells'
    BY DEF DeliveryTypes, Delivery!TypeOK, OneTickClaims, TicksApart, TickTells, Delivery!AtWebhook
  <2>2. AttemptTells' /\ ClassUnsent' /\ NobodyLockedOut'
    BY DEF AttemptTells, ClassUnsent, NobodyLockedOut, Delivery!NobodyLockedOut
  <2> QED
    BY <2>1, <2>2
<1>2. CASE Delivery!Elapse
  <2> USE <1>2 DEF Delivery!Elapse, Delivery!passwords, Delivery!history
  <2>1. \A p \in Processes : worker[p].at = "idle"
    BY DEF Delivery!Idle
  <2>2. \A u \in Users : /\ row'[u] \in Delivery!RowType /\ row'[u].status = row[u].status
                        /\ row'[u].attempts = row[u].attempts
    <3> SUFFICES ASSUME NEW u \in Users
                 PROVE  /\ row'[u] \in Delivery!RowType /\ row'[u].status = row[u].status
                        /\ row'[u].attempts = row[u].attempts
      OBVIOUS
    <3>1. row[u] \in Delivery!RowType
      BY DEF DeliveryTypes, Delivery!TypeOK
    <3>2. row'[u] = [row[u] EXCEPT !.due = IF @ > 0 THEN @ - 1 ELSE 0]
      OBVIOUS
    <3> QED
      BY <3>1, <3>2 DEF Delivery!RowType, Delivery!Gap
  <2>3. row' \in [Users -> Delivery!RowType] /\ since' \in 0..Delivery!Gap
    <3>1. row' \in [Users -> Delivery!RowType]
      BY <2>2
    <3> QED
      BY <3>1 DEF DeliveryTypes, Delivery!TypeOK, Delivery!Gap
  <2>4. DeliveryTypes'
    BY <2>2, <2>3 DEF DeliveryTypes, Delivery!TypeOK
  <2>5. OneTickClaims' /\ TicksApart' /\ TickTells'
    BY <2>1 DEF OneTickClaims, TicksApart, TickTells, Claimed
  <2>6. AttemptTells' /\ ClassUnsent' /\ NobodyLockedOut'
    BY <2>2 DEF AttemptTells, ClassUnsent, NobodyLockedOut, Delivery!NobodyLockedOut
  <2> QED
    BY <2>4, <2>5, <2>6
<1> QED
  BY <1>1, <1>2

\* Every step keeps the invariant.
LEMMA DeliveryNext == ~Overlapping /\ DeliveryInv /\ [Delivery!Next]_(Delivery!vars) => DeliveryInv'
<1> SUFFICES ASSUME ~Overlapping, DeliveryInv, [Delivery!Next]_(Delivery!vars) PROVE DeliveryInv'
  OBVIOUS
<1>1. ASSUME NEW u \in Users, Delivery!Order(u) PROVE DeliveryInv'
  BY <1>1, RotationKeepsDelivery, EnqueueKeepsDelivery, AttemptKeepsDelivery DEF Delivery!Order
<1>2. ASSUME NEW p \in Processes, Delivery!Tick(p) PROVE DeliveryInv'
  BY <1>2, FindKeepsDelivery, ClaimKeepsDelivery, RouteKeepsDelivery, SendKeepsDelivery,
     FinishKeepsDelivery DEF Delivery!Tick
<1>3. CASE UNCHANGED Delivery!vars
  <2> USE <1>3 DEF Delivery!vars, Delivery!rows, Delivery!passwords, Delivery!history, DeliveryInv
  <2>1. DeliveryTypes' /\ OneTickClaims' /\ TicksApart' /\ TickTells'
    BY DEF DeliveryTypes, Delivery!TypeOK, OneTickClaims, TicksApart, TickTells, Delivery!AtWebhook
  <2>2. AttemptTells' /\ ClassUnsent' /\ NobodyLockedOut'
    BY DEF AttemptTells, ClassUnsent, NobodyLockedOut, Delivery!NobodyLockedOut
  <2> QED
    BY <2>1, <2>2
<1> QED
  BY <1>1, <1>2, <1>3, CrashKeepsDelivery, TimeKeepsDelivery DEF Delivery!Next

\* Where no purchase or class meets a tick that holds its user, nobody is locked out
\* in silence: ticks that meet, retries that rotate the password again and crashes
\* between the rotation, the message and the mark leave a row that says so
\* (credentialDelivery.service.ts).
THEOREM CredentialsArriveOrShow == ~Overlapping => (Delivery!Spec => []NobodyLockedOut)
<1>1. DeliveryInv => NobodyLockedOut
  BY DEF DeliveryInv
<1> SUFFICES ASSUME ~Overlapping PROVE Delivery!Spec => []NobodyLockedOut
  OBVIOUS
<1>2. DeliveryInv /\ [Delivery!Next]_(Delivery!vars) => DeliveryInv'
  BY DeliveryNext
<1> QED
  BY <1>1, <1>2, DeliveryInit, PTL DEF Delivery!Spec

-----------------------------------------------------------------------------
(* The survey *)

\* A survey stays one when a field of it changes.
LEMMA SurveyFields ==
  ASSUME NEW s \in Asked!Survey
  PROVE  /\ \A x \in Asked!FeedbackStatus \cup {"none"} : [s EXCEPT !.feedback = x] \in Asked!Survey
         /\ \A x \in Asked!SuggestionStatus \cup {"none"} :
               [s EXCEPT !.suggestion = x] \in Asked!Survey
         /\ \A x \in {"none", "whatsapp", "email", "web"} :
               [s EXCEPT !.channel = x] \in Asked!Survey
         /\ \A x \in 0..Questions : [s EXCEPT !.question = x] \in Asked!Survey
         /\ \A x \in 0..2 : [s EXCEPT !.streak = x] \in Asked!Survey
         /\ \A x \in BOOLEAN : [s EXCEPT !.next = x] \in Asked!Survey
         /\ \A x \in BOOLEAN : [s EXCEPT !.started = x] \in Asked!Survey
         /\ \A x \in BOOLEAN : [s EXCEPT !.finished = x] \in Asked!Survey
         /\ \A x \in BOOLEAN : [s EXCEPT !.window = x] \in Asked!Survey
         /\ \A x \in BOOLEAN : [s EXCEPT !.fresh = x] \in Asked!Survey
         /\ \A x \in BOOLEAN : [s EXCEPT !.thanked = x] \in Asked!Survey
BY DEF Asked!Survey

\* The lock of a waiting tick is all that Move touches.
LEMMA Moved ==
  ASSUME NEW t \in [Sweepers -> SweepState]
  PROVE  /\ Asked!Move(t) \in [Sweepers -> SweepState]
         /\ \A q \in Sweepers : /\ Asked!Move(t)[q].at = t[q].at
                               /\ Asked!Move(t)[q].question = t[q].question
                               /\ Asked!Move(t)[q].streak = t[q].streak
                               /\ Asked!Move(t)[q].overdue = t[q].overdue
BY DEF Asked!Move, SweepState

\* A tick that goes on elsewhere.
LEMMA NewTick ==
  ASSUME NEW point \in SweepPoint
  PROVE  /\ [Asked!NoTick EXCEPT !.at = point] \in SweepState
         /\ [Asked!NoTick EXCEPT !.at = point].at = point
<1>1. Asked!NoTick \in SweepState
  BY SurveyAssumption DEF Asked!NoTick, SweepState, SweepPoint
<1> QED
  BY <1>1 DEF SweepState

\* Where a tick goes that moves the others.
LEMMA MovedTo ==
  ASSUME sweep \in [Sweepers -> SweepState], NEW p \in Sweepers
  PROVE  /\ \A x \in SweepPoint :
               Asked!Move([sweep EXCEPT ![p] = [Asked!NoTick EXCEPT !.at = x]])[p].at = x
         /\ Asked!Move([sweep EXCEPT ![p] = Asked!NoTick])[p].at = "idle"
<1>1. Asked!NoTick \in SweepState /\ Asked!NoTick.at = "idle"
  BY SurveyAssumption DEF Asked!NoTick, SweepState, SweepPoint
<1>2. ASSUME NEW t \in SweepState
      PROVE  Asked!Move([sweep EXCEPT ![p] = t])[p].at = t.at
  <2> DEFINE s == [sweep EXCEPT ![p] = t]
  <2>1. s \in [Sweepers -> SweepState] /\ s[p] = t
    OBVIOUS
  <2> HIDE DEF s
  <2> QED
    BY <2>1, Moved DEF s
<1> QED
  BY <1>1, <1>2, NewTick

\* With one process there is one tick.
LEMMA TickView ==
  ASSUME OneSweeper, NEW p \in Sweepers
  PROVE  /\ Ticking = sweep[p].at /\ Ticking' = sweep'[p].at
         /\ (Late <=> sweep[p].overdue) /\ (Late' <=> sweep'[p].overdue)
<1>1. p = CHOOSE q \in Sweepers : TRUE
  BY DEF OneSweeper
<1> QED
  BY <1>1 DEF Ticking, Late

\* Steps of texts, votes and pages leave the ticks where they are.
LEMMA TicksStay == (SweepsStay \/ UNCHANGED sweep) => UNCHANGED <<Ticking, Late>>
BY DEF Ticking, Late, SweepsStay

\* What a step of one text does to the points that texts are at.
LEMMA TextView ==
  ASSUME NEW h \in Texts, NEW x, TextGoes(h, x)
  PROVE  AllGo(text[h].at, x) /\ AsksGo(text[h].at, x)
<1>1. \A y : Goes(y, text[h].at, x)
  BY DEF Handles, TextGoes, Goes
<1>2. AsksGo(text[h].at, x)
  BY DEF AsksGo, OneAsks, Handles, TextGoes
<1> QED
  BY <1>1, <1>2 DEF AllGo

\* What a message adds to what went out.
LEMMA SendsOut ==
  /\ Asked!Send("poll") => PollOut
  /\ Asked!Send("consent") => ConsentOut
  /\ Asked!Send("ask") => Outgoing("ask")
  /\ Asked!Send("stored") => Outgoing("stored")
BY Zenon DEF Asked!Send, Asked!AfterNo, PollOut, ConsentOut, Outgoing, NoneRefused

\* Other steps leave the texts where they are ...
LEMMA TextsStay == UNCHANGED text =>
  /\ UNCHANGED <<OneAsks, Agreeing, Reviving, Requested, Asking, Storing>>
  /\ \A y : UNCHANGED Handles(y)
BY DEF Handles, OneAsks, Agreeing, Reviving, Requested, Asking, Storing

\* ... and the votes.
LEMMA VotesStay == UNCHANGED vote =>
  /\ UNCHANGED VotedEarlier
  /\ (\A v \in Votes : vote[v].at = "idle") => (\A v \in Votes : vote[v].at = "idle")'
BY DEF VotedEarlier

\* Every step keeps what the manners rest on: what a step writes first, then each part.
LEMMA SurveyRestKept == OneSweeper /\ SurveyTypes /\ SurveyRest /\ Asked!Next => SurveyRest'
<1>1. SUFFICES ASSUME OneSweeper, SurveyTypes, SurveyRest, Asked!Next
      PROVE  SurveyRest'
  OBVIOUS
<1>2. /\ survey \in Asked!Survey /\ sweep \in [Sweepers -> SweepState]
      /\ text \in [Texts -> TextState] /\ vote \in [Votes -> VoteState] /\ said \in SaidState
      /\ \A v \in Votes : vote[v].at = "resume" => vote[v].read \in Underway
  BY <1>1 DEF SurveyTypes, SurveyFine, SweepFine, VoteFine
<1>3. surveyFaults \in 0..MaxFaults
  BY <1>1 DEF SurveyTypes, SurveyFine, SweepFine, VoteFine
<1>4. surveyFaults + 1 # 0
  BY <1>3, GroupAssumption
<1>5. YesBefore /\ Blank /\ ThanksMarked
  BY <1>1 DEF SurveyRest
<1>6. Orderly
  BY <1>1 DEF SurveyRest
<1> USE DEF Asked!At, Asked!GoOn, Asked!Keep, Asked!Return, Asked!handlers,
        Asked!AfterNo, Asked!Asked, Asked!Question, HeardYes, Heard, Refusing, Asked!Live,
             Asked!Exists, Asked!NoSurvey, Asked!history,
        YesBefore, Blank, ThanksMarked, Orderly, Before, Standing, Telling, NotStarted, Opening,
             AskingNext, AskStarted, Unasked,
        Consenting, AskConsenting, PollsRefused, AskRefused, Handled, WindowOpen, ChannelChosen,
        Underway, NoneRefused, Asked!NoTick, Asked!NoText, Asked!NoVote

<1>11. ASSUME NEW p \in Sweepers, Asked!ReadPaused(p)
      PROVE  SurveyRest'
  <2>1. /\ sweep[p].at = "idle"
        /\ sweep'[p].at \in {"unpause", "window"}
        /\ survey.feedback # "none"
        /\ sweep'[p].overdue => survey.suggestion = "scheduled"
        /\ UNCHANGED <<survey, said, told, thanks, text, vote, response, web, surveyFaults>>
    BY <1>11, <1>2 DEF Asked!ReadPaused
  <2>2. YesBefore'
    BY <1>1, <1>5, <2>1, TickView, TextsStay, VotesStay
  <2>3. Blank' /\ ThanksMarked'
    BY <1>1, <1>5, <2>1, TickView, TextsStay, VotesStay
  <2>4. Before'
    BY <1>1, <1>4, <1>6, <2>1, TickView, TextsStay, VotesStay
  <2>5. Standing'
    BY <1>1, <1>4, <1>6, <2>1, TickView, TextsStay, VotesStay
  <2>6. Telling'
    BY <1>1, <1>4, <1>6, <2>1, TickView, TextsStay, VotesStay
  <2> QED
    BY <2>2, <2>3, <2>4, <2>5, <2>6 DEF SurveyRest
<1>12. ASSUME NEW p \in Sweepers, Asked!ExpirePaused(p)
      PROVE  SurveyRest'
  <2>1. /\ sweep[p].at = "unpause"
        /\ sweep'[p].at = "window"
        /\ UNCHANGED <<said, told, thanks, text, vote, response, web, surveyFaults>>
    BY <1>12, <1>2 DEF Asked!ExpirePaused, Asked!Statement
  <2>11. /\ \/ UNCHANGED survey
            \/ /\ survey.feedback = "paused" /\ survey'.feedback = "expired"
               /\ \/ survey'.suggestion = survey.suggestion
                  \/ sweep[p].overdue /\ survey'.suggestion = "skipped"
               /\ UNCHANGED <<survey.channel, survey.started, survey.window, survey.thanked, survey.fresh>>
    BY <1>12, <1>2, NewTick DEF Asked!ExpirePaused, Asked!Statement, SweepPoint
  <2>2. YesBefore'
    BY <1>1, <1>5, <2>1, <2>11, TickView, TextsStay, VotesStay
  <2>3. Blank' /\ ThanksMarked'
    BY <1>1, <1>5, <2>1, <2>11, TickView, TextsStay, VotesStay
  <2>4. Before'
    BY <1>1, <1>4, <1>6, <2>1, <2>11, TickView, TextsStay, VotesStay
  <2>5. Standing'
    <3>1. CASE UNCHANGED survey
      BY <1>1, <1>4, <1>6, <3>1, <2>1, TickView, TextsStay, VotesStay
    <3>2. CASE /\ survey.feedback = "paused" /\ survey'.feedback = "expired"
               /\ \/ survey'.suggestion = survey.suggestion
                  \/ sweep[p].overdue /\ survey'.suggestion = "skipped"
               /\ UNCHANGED <<survey.channel, survey.started, survey.window, survey.thanked, survey.fresh>>
      BY <1>1, <1>4, <1>6, <3>2, <2>1, TickView, TextsStay, VotesStay
    <3> QED
      BY <2>11, <3>1, <3>2
  <2>6. Telling'
    <3>1. CASE UNCHANGED survey
      BY <1>1, <1>4, <1>6, <3>1, <2>1, TickView, TextsStay, VotesStay
    <3>2. CASE /\ survey.feedback = "paused" /\ survey'.feedback = "expired"
               /\ \/ survey'.suggestion = survey.suggestion
                  \/ sweep[p].overdue /\ survey'.suggestion = "skipped"
               /\ UNCHANGED <<survey.channel, survey.started, survey.window, survey.thanked, survey.fresh>>
      BY <1>1, <1>4, <1>6, <3>2, <2>1, TickView, TextsStay, VotesStay
    <3> QED
      BY <2>11, <3>1, <3>2
  <2> QED
    BY <2>2, <2>3, <2>4, <2>5, <2>6 DEF SurveyRest
<1>13. ASSUME NEW p \in Sweepers, Asked!ExpireReply(p)
      PROVE  SurveyRest'
  <2>1. /\ sweep[p].at = "window"
        /\ sweep'[p].at = "silence"
        /\ \/ UNCHANGED survey
           \/ /\ survey.suggestion = "awaiting_reply" /\ survey'.suggestion = "expired"
              /\ UNCHANGED <<survey.feedback, survey.channel, survey.started, survey.window,
                             survey.thanked, survey.fresh>>
        /\ UNCHANGED <<said, told, thanks, text, vote, response, web, surveyFaults>>
    BY <1>13, <1>2 DEF Asked!ExpireReply, Asked!Statement
  <2>2. YesBefore'
    BY <1>1, <1>5, <2>1, TickView, TextsStay, VotesStay
  <2>3. Blank' /\ ThanksMarked'
    BY <1>1, <1>5, <2>1, TickView, TextsStay, VotesStay
  <2>4. Before'
    BY <1>1, <1>4, <1>6, <2>1, TickView, TextsStay, VotesStay
  <2>5. Standing'
    BY <1>1, <1>4, <1>6, <2>1, TickView, TextsStay, VotesStay
  <2>6. Telling'
    BY <1>1, <1>4, <1>6, <2>1, TickView, TextsStay, VotesStay
  <2> QED
    BY <2>2, <2>3, <2>4, <2>5, <2>6 DEF SurveyRest
<1>14. ASSUME NEW p \in Sweepers, Asked!SkipSilent(p)
      PROVE  SurveyRest'
  <2>1. /\ sweep[p].at = "silence"
        /\ sweep'[p].at = "silent"
        /\ \/ UNCHANGED survey
           \/ /\ survey.suggestion = "scheduled" /\ survey.feedback = "awaiting_consent"
              /\ survey'.suggestion = "skipped"
              /\ UNCHANGED <<survey.feedback, survey.channel, survey.started, survey.window,
                             survey.thanked, survey.fresh>>
        /\ UNCHANGED <<said, told, thanks, text, vote, response, web, surveyFaults>>
    BY <1>14, <1>2 DEF Asked!SkipSilent
  <2>2. YesBefore'
    BY <1>1, <1>5, <2>1, TickView, TextsStay, VotesStay
  <2>3. Blank' /\ ThanksMarked'
    BY <1>1, <1>5, <2>1, TickView, TextsStay, VotesStay
  <2>4. Before'
    BY <1>1, <1>4, <1>6, <2>1, TickView, TextsStay, VotesStay
  <2>5. Standing'
    BY <1>1, <1>4, <1>6, <2>1, TickView, TextsStay, VotesStay
  <2>6. Telling'
    BY <1>1, <1>4, <1>6, <2>1, TickView, TextsStay, VotesStay
  <2> QED
    BY <2>2, <2>3, <2>4, <2>5, <2>6 DEF SurveyRest
<1>15. ASSUME NEW p \in Sweepers, Asked!ExpireSilent(p)
      PROVE  SurveyRest'
  <2>1. /\ sweep[p].at = "silent"
        /\ sweep'[p].at = "askSilent"
        /\ \/ UNCHANGED survey
           \/ /\ survey.feedback = "awaiting_consent" /\ survey'.feedback = "expired"
              /\ UNCHANGED <<survey.suggestion, survey.channel, survey.started, survey.window,
                             survey.thanked, survey.fresh>>
        /\ UNCHANGED <<said, told, thanks, text, vote, response, web, surveyFaults>>
    BY <1>15, <1>2 DEF Asked!ExpireSilent, Asked!Statement
  <2>2. YesBefore'
    BY <1>1, <1>5, <2>1, TickView, TextsStay, VotesStay
  <2>3. Blank' /\ ThanksMarked'
    BY <1>1, <1>5, <2>1, TickView, TextsStay, VotesStay
  <2>4. Before'
    BY <1>1, <1>4, <1>6, <2>1, TickView, TextsStay, VotesStay
  <2>5. Standing'
    BY <1>1, <1>4, <1>6, <2>1, TickView, TextsStay, VotesStay
  <2>6. Telling'
    BY <1>1, <1>4, <1>6, <2>1, TickView, TextsStay, VotesStay
  <2> QED
    BY <2>2, <2>3, <2>4, <2>5, <2>6 DEF SurveyRest
<1>16. ASSUME NEW p \in Sweepers, Asked!ExpireAskSilent(p)
      PROVE  SurveyRest'
  <2>1. /\ sweep[p].at = "askSilent"
        /\ sweep'[p].at = "ttl"
        /\ \/ UNCHANGED survey
           \/ /\ survey.suggestion = "awaiting_consent" /\ survey'.suggestion = "expired"
              /\ UNCHANGED <<survey.feedback, survey.channel, survey.started, survey.window,
                             survey.thanked, survey.fresh>>
        /\ UNCHANGED <<said, told, thanks, text, vote, response, web, surveyFaults>>
    BY <1>16, <1>2 DEF Asked!ExpireAskSilent, Asked!Statement
  <2>2. YesBefore'
    BY <1>1, <1>5, <2>1, TickView, TextsStay, VotesStay
  <2>3. Blank' /\ ThanksMarked'
    BY <1>1, <1>5, <2>1, TickView, TextsStay, VotesStay
  <2>4. Before'
    BY <1>1, <1>4, <1>6, <2>1, TickView, TextsStay, VotesStay
  <2>5. Standing'
    BY <1>1, <1>4, <1>6, <2>1, TickView, TextsStay, VotesStay
  <2>6. Telling'
    BY <1>1, <1>4, <1>6, <2>1, TickView, TextsStay, VotesStay
  <2> QED
    BY <2>2, <2>3, <2>4, <2>5, <2>6 DEF SurveyRest
<1>17. ASSUME NEW p \in Sweepers, Asked!ExpireStuck(p)
      PROVE  SurveyRest'
  <2>1. /\ sweep[p].at = "ttl"
        /\ sweep'[p].at = "advance"
        /\ \/ UNCHANGED survey
           \/ /\ survey.feedback = "in_progress" /\ survey'.feedback = "expired"
              /\ UNCHANGED <<survey.suggestion, survey.channel, survey.started, survey.window,
                             survey.thanked, survey.fresh>>
        /\ UNCHANGED <<said, told, thanks, text, vote, response, web, surveyFaults>>
    BY <1>17, <1>2 DEF Asked!ExpireStuck, Asked!Statement
  <2>2. YesBefore'
    BY <1>1, <1>5, <2>1, TickView, TextsStay, VotesStay
  <2>3. Blank' /\ ThanksMarked'
    BY <1>1, <1>5, <2>1, TickView, TextsStay, VotesStay
  <2>4. Before'
    BY <1>1, <1>4, <1>6, <2>1, TickView, TextsStay, VotesStay
  <2>5. Standing'
    BY <1>1, <1>4, <1>6, <2>1, TickView, TextsStay, VotesStay
  <2>6. Telling'
    BY <1>1, <1>4, <1>6, <2>1, TickView, TextsStay, VotesStay
  <2> QED
    BY <2>2, <2>3, <2>4, <2>5, <2>6 DEF SurveyRest
<1>18. ASSUME NEW p \in Sweepers, Asked!Advance(p)
      PROVE  SurveyRest'
  <2>1. /\ sweep[p].at = "advance"
        /\ sweep'[p].at \in {"pause", "watch", "poll"}
        /\ survey.feedback = "in_progress"
        /\ UNCHANGED <<survey, said, told, thanks, text, vote, response, web, surveyFaults>>
    BY <1>18, <1>2 DEF Asked!Advance
  <2>2. YesBefore'
    BY <1>1, <1>5, <2>1, TickView, TextsStay, VotesStay
  <2>3. Blank' /\ ThanksMarked'
    BY <1>1, <1>5, <2>1, TickView, TextsStay, VotesStay
  <2>4. Before'
    BY <1>1, <1>4, <1>6, <2>1, TickView, TextsStay, VotesStay
  <2>5. Standing'
    BY <1>1, <1>4, <1>6, <2>1, TickView, TextsStay, VotesStay
  <2>6. Telling'
    BY <1>1, <1>4, <1>6, <2>1, TickView, TextsStay, VotesStay
  <2> QED
    BY <2>2, <2>3, <2>4, <2>5, <2>6 DEF SurveyRest
<1>19. ASSUME NEW p \in Sweepers, Asked!NoneToAdvance(p)
      PROVE  SurveyRest'
  <2>1. /\ sweep[p].at = "advance"
        /\ sweep'[p].at = "due"
        /\ UNCHANGED <<survey, said, told, thanks, text, vote, response, web, surveyFaults>>
    BY <1>19, <1>2 DEF Asked!NoneToAdvance
  <2>2. YesBefore'
    BY <1>1, <1>5, <2>1, TickView, TextsStay, VotesStay
  <2>3. Blank' /\ ThanksMarked'
    BY <1>1, <1>5, <2>1, TickView, TextsStay, VotesStay
  <2>4. Before'
    BY <1>1, <1>4, <1>6, <2>1, TickView, TextsStay, VotesStay
  <2>5. Standing'
    BY <1>1, <1>4, <1>6, <2>1, TickView, TextsStay, VotesStay
  <2>6. Telling'
    BY <1>1, <1>4, <1>6, <2>1, TickView, TextsStay, VotesStay
  <2> QED
    BY <2>2, <2>3, <2>4, <2>5, <2>6 DEF SurveyRest
<1>20. ASSUME NEW p \in Sweepers, Asked!Pause(p)
      PROVE  SurveyRest'
  <2>7. sweep'[p].at = "due"
    <3>1. CASE Asked!GoOn(p, "due")
      BY <3>1, <1>2
    <3>2. CASE sweep' = Asked!Move([sweep EXCEPT ![p] = [Asked!NoTick EXCEPT !.at = "due"]])
      BY <3>2, <1>2, MovedTo DEF SweepPoint
    <3> QED
      BY <1>20, <3>1, <3>2 DEF Asked!Pause
  <2>1. /\ sweep[p].at = "pause"
        /\ \/ UNCHANGED survey
           \/ /\ survey.feedback = "in_progress" /\ survey'.feedback = "paused"
              /\ UNCHANGED <<survey.suggestion, survey.channel, survey.started, survey.window,
                             survey.thanked, survey.fresh>>
        /\ UNCHANGED <<said, told, thanks, text, vote, response, web, surveyFaults>>
    BY <1>20, <1>2 DEF Asked!Pause, Asked!Survey
  <2>2. YesBefore'
    BY <1>1, <1>5, <2>1, <2>7, TickView, TextsStay, VotesStay
  <2>3. Blank' /\ ThanksMarked'
    BY <1>1, <1>5, <2>1, <2>7, TickView, TextsStay, VotesStay
  <2>4. Before'
    BY <1>1, <1>4, <1>6, <2>1, <2>7, TickView, TextsStay, VotesStay
  <2>5. Standing'
    BY <1>1, <1>4, <1>6, <2>1, <2>7, TickView, TextsStay, VotesStay
  <2>6. Telling'
    BY <1>1, <1>4, <1>6, <2>1, <2>7, TickView, TextsStay, VotesStay
  <2> QED
    BY <2>2, <2>3, <2>4, <2>5, <2>6 DEF SurveyRest
<1>21. ASSUME NEW p \in Sweepers, Asked!Watch(p)
      PROVE  SurveyRest'
  <2>7. sweep'[p].at = "due"
    BY <1>21, <1>2, MovedTo DEF Asked!Watch, SweepPoint
  <2>1. /\ sweep[p].at = "watch"
        /\ UNCHANGED <<survey.feedback, survey.suggestion, survey.channel, survey.started,
                       survey.window, survey.thanked, survey.fresh>>
        /\ UNCHANGED <<said, told, thanks, text, vote, response, web, surveyFaults>>
    BY <1>21, <1>2 DEF Asked!Watch
  <2>2. YesBefore'
    BY <1>1, <1>5, <2>1, <2>7, TickView, TextsStay, VotesStay
  <2>3. Blank' /\ ThanksMarked'
    BY <1>1, <1>5, <2>1, <2>7, TickView, TextsStay, VotesStay
  <2>4. Before'
    BY <1>1, <1>4, <1>6, <2>1, <2>7, TickView, TextsStay, VotesStay
  <2>5. Standing'
    BY <1>1, <1>4, <1>6, <2>1, <2>7, TickView, TextsStay, VotesStay
  <2>6. Telling'
    BY <1>1, <1>4, <1>6, <2>1, <2>7, TickView, TextsStay, VotesStay
  <2> QED
    BY <2>2, <2>3, <2>4, <2>5, <2>6 DEF SurveyRest
<1>22. ASSUME NEW p \in Sweepers, Asked!SendPoll(p)
      PROVE  SurveyRest'
  <2>1. /\ sweep[p].at = "poll"
        /\ UNCHANGED <<survey, said, thanks, text, vote, response, web>>
    BY <1>22, <1>2 DEF Asked!SendPoll, SweepState
  <2>11. /\ \/ sweep'[p].at = "record" /\ PollOut /\ UNCHANGED surveyFaults
            \/ sweep'[p].at = "defer" /\ UNCHANGED <<told, surveyFaults>>
            \/ sweep'[p].at = "defer" /\ PollOut /\ surveyFaults' = surveyFaults + 1
    <3>1. CASE Asked!Keep(p, "record") /\ Asked!Send("poll") /\ UNCHANGED surveyFaults
      <4>1. sweep'[p].at = "record"
        BY <3>1, <1>2, NewTick DEF SweepState, SweepPoint
      <4> QED
        BY <3>1, <4>1, SendsOut
    <3>2. CASE Asked!GoOn(p, "defer") /\ UNCHANGED <<told, surveyFaults>>
      <4>1. sweep'[p].at = "defer"
        BY <3>2, <1>2, NewTick DEF SweepState, SweepPoint
      <4> QED
        BY <3>2, <4>1
    <3>3. CASE Asked!GoOn(p, "defer") /\ Asked!Send("poll") /\ surveyFaults' = surveyFaults + 1
      <4>1. sweep'[p].at = "defer"
        BY <3>3, <1>2, NewTick DEF SweepState, SweepPoint
      <4> QED
        BY <3>3, <4>1, SendsOut
    <3> QED
      BY <1>22, <3>1, <3>2, <3>3 DEF Asked!SendPoll
  <2>2. YesBefore'
    <3>1. CASE sweep'[p].at = "record" /\ PollOut /\ UNCHANGED surveyFaults
      <4>1. /\ "ask" \in told' <=> "ask" \in told
            /\ "stored" \in told' <=> "stored" \in told
        BY <3>1 DEF PollOut
      <4>2. "polls" \in said.agreed \/ "ask" \in said.agreed
        BY <1>1, <1>5, <2>1, TickView
      <4> QED
        BY <1>1, <1>5, <3>1, <4>1, <4>2, <2>1, TickView, TextsStay, VotesStay
    <3>2. CASE sweep'[p].at = "defer" /\ UNCHANGED <<told, surveyFaults>>
      BY <1>1, <1>5, <3>2, <2>1, TickView, TextsStay, VotesStay
         DEF PollOut
    <3>3. CASE sweep'[p].at = "defer" /\ PollOut /\ surveyFaults' = surveyFaults + 1
      <4>1. /\ "ask" \in told' <=> "ask" \in told
            /\ "stored" \in told' <=> "stored" \in told
        BY <3>3 DEF PollOut
      <4>2. "polls" \in said.agreed \/ "ask" \in said.agreed
        BY <1>1, <1>5, <2>1, TickView
      <4> QED
        BY <1>1, <1>5, <3>3, <4>1, <4>2, <2>1, TickView, TextsStay, VotesStay
    <3> QED
      BY <2>11, <3>1, <3>2, <3>3
  <2>3. Blank' /\ ThanksMarked'
    BY <1>1, <1>5, <2>1, <2>11, TickView, TextsStay, VotesStay
       DEF PollOut
  <2>4. Before'
    <3>1. CASE sweep'[p].at = "record" /\ PollOut /\ UNCHANGED surveyFaults
      BY <1>1, <1>4, <1>6, <3>1, <2>1, TickView, TextsStay, VotesStay
         DEF PollOut
    <3>2. CASE sweep'[p].at = "defer" /\ UNCHANGED <<told, surveyFaults>>
      BY <1>1, <1>4, <1>6, <3>2, <2>1, TickView, TextsStay, VotesStay
         DEF PollOut
    <3>3. CASE sweep'[p].at = "defer" /\ PollOut /\ surveyFaults' = surveyFaults + 1
      BY <1>1, <1>4, <1>6, <3>3, <2>1, TickView, TextsStay, VotesStay
         DEF PollOut
    <3> QED
      BY <2>11, <3>1, <3>2, <3>3
  <2>5. Standing'
    <3>1. CASE sweep'[p].at = "record" /\ PollOut /\ UNCHANGED surveyFaults
      BY <1>1, <1>4, <1>6, <3>1, <2>1, TickView, TextsStay, VotesStay
         DEF PollOut
    <3>2. CASE sweep'[p].at = "defer" /\ UNCHANGED <<told, surveyFaults>>
      BY <1>1, <1>4, <1>6, <3>2, <2>1, TickView, TextsStay, VotesStay
         DEF PollOut
    <3>3. CASE sweep'[p].at = "defer" /\ PollOut /\ surveyFaults' = surveyFaults + 1
      BY <1>1, <1>4, <1>6, <3>3, <2>1, TickView, TextsStay, VotesStay
         DEF PollOut
    <3> QED
      BY <2>11, <3>1, <3>2, <3>3
  <2>6. Telling'
    <3>1. CASE sweep'[p].at = "record" /\ PollOut /\ UNCHANGED surveyFaults
      BY <1>1, <1>4, <1>6, <3>1, <2>1, TickView, TextsStay, VotesStay
         DEF PollOut
    <3>2. CASE sweep'[p].at = "defer" /\ UNCHANGED <<told, surveyFaults>>
      BY <1>1, <1>4, <1>6, <3>2, <2>1, TickView, TextsStay, VotesStay
         DEF PollOut
    <3>3. CASE sweep'[p].at = "defer" /\ PollOut /\ surveyFaults' = surveyFaults + 1
      BY <1>1, <1>4, <1>6, <3>3, <2>1, TickView, TextsStay, VotesStay
         DEF PollOut
    <3> QED
      BY <2>11, <3>1, <3>2, <3>3
  <2> QED
    BY <2>2, <2>3, <2>4, <2>5, <2>6 DEF SurveyRest
<1>23. ASSUME NEW p \in Sweepers, Asked!RecordPoll(p)
      PROVE  SurveyRest'
  <2>7. sweep'[p].at = "due"
    <3>1. CASE Asked!GoOn(p, "due")
      BY <3>1, <1>2
    <3>2. CASE sweep' = Asked!Move([sweep EXCEPT ![p] = [Asked!NoTick EXCEPT !.at = "due"]])
      BY <3>2, <1>2, MovedTo DEF SweepPoint
    <3> QED
      BY <1>23, <3>1, <3>2 DEF Asked!RecordPoll
  <2>1. /\ sweep[p].at = "record"
        /\ UNCHANGED <<survey.feedback, survey.suggestion, survey.channel, survey.started,
                       survey.window, survey.thanked, survey.fresh>>
        /\ UNCHANGED <<said, told, thanks, text, vote, web, surveyFaults>>
    BY <1>23, <1>2 DEF Asked!RecordPoll, Asked!Survey
  <2>2. YesBefore'
    BY <1>1, <1>5, <2>1, <2>7, TickView, TextsStay, VotesStay
  <2>3. Blank' /\ ThanksMarked'
    BY <1>1, <1>5, <2>1, <2>7, TickView, TextsStay, VotesStay
  <2>4. Before'
    BY <1>1, <1>4, <1>6, <2>1, <2>7, TickView, TextsStay, VotesStay
  <2>5. Standing'
    BY <1>1, <1>4, <1>6, <2>1, <2>7, TickView, TextsStay, VotesStay
  <2>6. Telling'
    BY <1>1, <1>4, <1>6, <2>1, <2>7, TickView, TextsStay, VotesStay
  <2> QED
    BY <2>2, <2>3, <2>4, <2>5, <2>6 DEF SurveyRest
<1>24. ASSUME NEW p \in Sweepers, Asked!DeferPoll(p)
      PROVE  SurveyRest'
  <2>7. sweep'[p].at = "due"
    BY <1>24, <1>2, MovedTo DEF Asked!DeferPoll, SweepPoint
  <2>1. /\ sweep[p].at = "defer"
        /\ UNCHANGED <<survey.feedback, survey.suggestion, survey.channel, survey.started,
                       survey.window, survey.thanked, survey.fresh>>
        /\ UNCHANGED <<said, told, thanks, text, vote, response, web, surveyFaults>>
    BY <1>24, <1>2 DEF Asked!DeferPoll
  <2>2. YesBefore'
    BY <1>1, <1>5, <2>1, <2>7, TickView, TextsStay, VotesStay
  <2>3. Blank' /\ ThanksMarked'
    BY <1>1, <1>5, <2>1, <2>7, TickView, TextsStay, VotesStay
  <2>4. Before'
    BY <1>1, <1>4, <1>6, <2>1, <2>7, TickView, TextsStay, VotesStay
  <2>5. Standing'
    BY <1>1, <1>4, <1>6, <2>1, <2>7, TickView, TextsStay, VotesStay
  <2>6. Telling'
    BY <1>1, <1>4, <1>6, <2>1, <2>7, TickView, TextsStay, VotesStay
  <2> QED
    BY <2>2, <2>3, <2>4, <2>5, <2>6 DEF SurveyRest
<1>25. ASSUME NEW p \in Sweepers, Asked!StartNext(p)
      PROVE  SurveyRest'
  <2>1. /\ sweep[p].at = "due"
        /\ \/ survey.feedback = "scheduled" /\ (sweep'[p].at = "open" \/ sweep'[p].at = "skip")
           \/ /\ survey.suggestion = "scheduled" /\ survey.channel = "whatsapp"
              /\ survey.feedback \notin Asked!Live /\ ~Handles("cancel")
              /\ sweep'[p].at = "openAsk" \/ sweep'[p].at = "skip"
           \/ sweep'[p].at = "idle"
        /\ UNCHANGED <<survey, said, told, thanks, text, vote, response, web, surveyFaults>>
    BY <1>25, <1>2 DEF Asked!StartNext, Asked!FeedbackDue, Asked!SuggestionDue, Asked!Refusing, Handles
  <2>2. YesBefore'
    BY <1>1, <1>5, <2>1, TickView, TextsStay, VotesStay
  <2>3. Blank' /\ ThanksMarked'
    BY <1>1, <1>5, <2>1, TickView, TextsStay, VotesStay
  <2>4. Before'
    BY <1>1, <1>4, <1>6, <2>1, TickView, TextsStay, VotesStay
  <2>5. Standing'
    BY <1>1, <1>4, <1>6, <2>1, TickView, TextsStay, VotesStay
  <2>6. Telling'
    BY <1>1, <1>4, <1>6, <2>1, TickView, TextsStay, VotesStay
  <2> QED
    BY <2>2, <2>3, <2>4, <2>5, <2>6 DEF SurveyRest
<1>26. ASSUME NEW p \in Sweepers, Asked!MarkSkipped(p)
      PROVE  SurveyRest'
  <2>7. sweep'[p].at = "idle"
    BY <1>26, <1>2, MovedTo DEF Asked!MarkSkipped, SweepPoint
  <2>1. /\ sweep[p].at = "skip"
        /\ survey'.feedback = "skipped" /\ survey'.suggestion = "skipped"
        /\ UNCHANGED <<survey.channel, survey.started, survey.window, survey.thanked, survey.fresh>>
        /\ UNCHANGED <<said, told, thanks, text, vote, response, web, surveyFaults>>
    BY <1>26, <1>2 DEF Asked!MarkSkipped
  <2>2. YesBefore'
    BY <1>1, <1>5, <2>1, <2>7, TickView, TextsStay, VotesStay
  <2>3. Blank' /\ ThanksMarked'
    BY <1>1, <1>5, <2>1, <2>7, TickView, TextsStay, VotesStay
  <2>4. Before'
    BY <1>1, <1>4, <1>6, <2>1, <2>7, TickView, TextsStay, VotesStay
  <2>5. Standing'
    BY <1>1, <1>4, <1>6, <2>1, <2>7, TickView, TextsStay, VotesStay
  <2>6. Telling'
    BY <1>1, <1>4, <1>6, <2>1, <2>7, TickView, TextsStay, VotesStay
  <2> QED
    BY <2>2, <2>3, <2>4, <2>5, <2>6 DEF SurveyRest
<1>27. ASSUME NEW p \in Sweepers, Asked!OpenFeedback(p)
      PROVE  SurveyRest'
  <2>1. /\ sweep[p].at = "open"
        /\ UNCHANGED <<survey, said, thanks, text, vote, response, web>>
    BY <1>27, <1>2 DEF Asked!OpenFeedback
  <2>11. /\ \/ sweep'[p].at = "opened" /\ ConsentOut /\ UNCHANGED surveyFaults
            \/ sweep'[p].at = "mail" /\ UNCHANGED <<told, surveyFaults>>
            \/ sweep'[p].at = "mail" /\ ConsentOut /\ surveyFaults' = surveyFaults + 1
    <3>1. CASE Asked!GoOn(p, "opened") /\ Asked!Send("consent") /\ UNCHANGED surveyFaults
      <4>1. sweep'[p].at = "opened"
        BY <3>1, <1>2, NewTick DEF SweepState, SweepPoint
      <4> QED
        BY <3>1, <4>1, SendsOut
    <3>2. CASE Asked!GoOn(p, "mail") /\ UNCHANGED <<told, surveyFaults>>
      <4>1. sweep'[p].at = "mail"
        BY <3>2, <1>2, NewTick DEF SweepState, SweepPoint
      <4> QED
        BY <3>2, <4>1
    <3>3. CASE Asked!GoOn(p, "mail") /\ Asked!Send("consent") /\ surveyFaults' = surveyFaults + 1
      <4>1. sweep'[p].at = "mail"
        BY <3>3, <1>2, NewTick DEF SweepState, SweepPoint
      <4> QED
        BY <3>3, <4>1, SendsOut
    <3> QED
      BY <1>27, <3>1, <3>2, <3>3 DEF Asked!OpenFeedback
  <2>2. YesBefore'
    <3>1. CASE sweep'[p].at = "opened" /\ ConsentOut /\ UNCHANGED surveyFaults
      <4>1. /\ "poll" \in told' <=> "poll" \in told
            /\ "ask" \in told' <=> "ask" \in told
            /\ "stored" \in told' <=> "stored" \in told
        BY <3>1 DEF ConsentOut
      <4> QED
        BY <1>1, <1>5, <3>1, <4>1, <2>1, TickView, TextsStay, VotesStay
    <3>2. CASE sweep'[p].at = "mail" /\ UNCHANGED <<told, surveyFaults>>
      BY <1>1, <1>5, <3>2, <2>1, TickView, TextsStay, VotesStay
         DEF ConsentOut
    <3>3. CASE sweep'[p].at = "mail" /\ ConsentOut /\ surveyFaults' = surveyFaults + 1
      <4>1. /\ "poll" \in told' <=> "poll" \in told
            /\ "ask" \in told' <=> "ask" \in told
            /\ "stored" \in told' <=> "stored" \in told
        BY <3>3 DEF ConsentOut
      <4> QED
        BY <1>1, <1>5, <3>3, <4>1, <2>1, TickView, TextsStay, VotesStay
    <3> QED
      BY <2>11, <3>1, <3>2, <3>3
  <2>3. Blank' /\ ThanksMarked'
    BY <1>1, <1>5, <2>1, <2>11, TickView, TextsStay, VotesStay
       DEF ConsentOut
  <2>4. Before'
    <3>1. CASE sweep'[p].at = "opened" /\ ConsentOut /\ UNCHANGED surveyFaults
      BY <1>1, <1>4, <1>6, <3>1, <2>1, TickView, TextsStay, VotesStay
         DEF ConsentOut
    <3>2. CASE sweep'[p].at = "mail" /\ UNCHANGED <<told, surveyFaults>>
      BY <1>1, <1>4, <1>6, <3>2, <2>1, TickView, TextsStay, VotesStay
         DEF ConsentOut
    <3>3. CASE sweep'[p].at = "mail" /\ ConsentOut /\ surveyFaults' = surveyFaults + 1
      BY <1>1, <1>4, <1>6, <3>3, <2>1, TickView, TextsStay, VotesStay
         DEF ConsentOut
    <3> QED
      BY <2>11, <3>1, <3>2, <3>3
  <2>5. Standing'
    <3>1. CASE sweep'[p].at = "opened" /\ ConsentOut /\ UNCHANGED surveyFaults
      BY <1>1, <1>4, <1>6, <3>1, <2>1, TickView, TextsStay, VotesStay
         DEF ConsentOut
    <3>2. CASE sweep'[p].at = "mail" /\ UNCHANGED <<told, surveyFaults>>
      BY <1>1, <1>4, <1>6, <3>2, <2>1, TickView, TextsStay, VotesStay
         DEF ConsentOut
    <3>3. CASE sweep'[p].at = "mail" /\ ConsentOut /\ surveyFaults' = surveyFaults + 1
      BY <1>1, <1>4, <1>6, <3>3, <2>1, TickView, TextsStay, VotesStay
         DEF ConsentOut
    <3> QED
      BY <2>11, <3>1, <3>2, <3>3
  <2>6. Telling'
    <3>1. CASE sweep'[p].at = "opened" /\ ConsentOut /\ UNCHANGED surveyFaults
      BY <1>1, <1>4, <1>6, <3>1, <2>1, TickView, TextsStay, VotesStay
         DEF ConsentOut
    <3>2. CASE sweep'[p].at = "mail" /\ UNCHANGED <<told, surveyFaults>>
      BY <1>1, <1>4, <1>6, <3>2, <2>1, TickView, TextsStay, VotesStay
         DEF ConsentOut
    <3>3. CASE sweep'[p].at = "mail" /\ ConsentOut /\ surveyFaults' = surveyFaults + 1
      BY <1>1, <1>4, <1>6, <3>3, <2>1, TickView, TextsStay, VotesStay
         DEF ConsentOut
    <3> QED
      BY <2>11, <3>1, <3>2, <3>3
  <2> QED
    BY <2>2, <2>3, <2>4, <2>5, <2>6 DEF SurveyRest
<1>28. ASSUME NEW p \in Sweepers, Asked!SaveOpened(p)
      PROVE  SurveyRest'
  <2>7. sweep'[p].at = "idle"
    BY <1>28, <1>2, MovedTo DEF Asked!SaveOpened, SweepPoint
  <2>1. /\ sweep[p].at = "opened"
        /\ survey'.feedback = "awaiting_consent" /\ survey'.channel = "whatsapp"
        /\ survey'.started
        /\ UNCHANGED <<survey.suggestion, survey.window, survey.thanked, survey.fresh>>
        /\ UNCHANGED <<said, told, thanks, text, vote, response, web, surveyFaults>>
    BY <1>28, <1>2 DEF Asked!SaveOpened
  <2>2. YesBefore'
    BY <1>1, <1>5, <2>1, <2>7, TickView, TextsStay, VotesStay
  <2>3. Blank' /\ ThanksMarked'
    BY <1>1, <1>5, <2>1, <2>7, TickView, TextsStay, VotesStay
  <2>4. Before'
    BY <1>1, <1>4, <1>6, <2>1, <2>7, TickView, TextsStay, VotesStay
  <2>5. Standing'
    BY <1>1, <1>4, <1>6, <2>1, <2>7, TickView, TextsStay, VotesStay
  <2>6. Telling'
    BY <1>1, <1>4, <1>6, <2>1, <2>7, TickView, TextsStay, VotesStay
  <2> QED
    BY <2>2, <2>3, <2>4, <2>5, <2>6 DEF SurveyRest
<1>29. ASSUME NEW p \in Sweepers, Asked!Mail(p)
      PROVE  SurveyRest'
  <2>1. /\ sweep[p].at = "mail"
        /\ UNCHANGED <<survey, said, thanks, text, vote, response, web, surveyFaults>>
    BY <1>29, <1>2 DEF Asked!Mail
  <2>11. /\ \/ sweep'[p].at = "mailed" /\ MailGoes
            \/ sweep'[p].at = "idle" /\ UNCHANGED told
    <3>1. CASE Asked!GoOn(p, "mailed") /\ told' = told \cup {"mail"}
      <4>1. MailGoes
        BY <3>1, Zenon DEF MailGoes
      <4>2. sweep'[p].at = "mailed"
        BY <3>1, <1>2, NewTick DEF SweepPoint
      <4> QED
        BY <4>1, <4>2
    <3>2. CASE Asked!Return(p) /\ UNCHANGED told
      BY <3>2, <1>2, NewTick DEF SweepPoint
    <3> QED
      BY <1>29, <3>1, <3>2 DEF Asked!Mail
  <2>2. YesBefore'
    <3>1. CASE sweep'[p].at = "mailed" /\ MailGoes
      <4>1. /\ "poll" \in told' <=> "poll" \in told
            /\ "ask" \in told' <=> "ask" \in told
            /\ "stored" \in told' <=> "stored" \in told
        BY <3>1 DEF MailGoes
      <4> QED
        BY <1>1, <1>5, <3>1, <4>1, <2>1, TickView, TextsStay, VotesStay
    <3>2. CASE sweep'[p].at = "idle" /\ UNCHANGED told
      BY <1>1, <1>5, <3>2, <2>1, TickView, TextsStay, VotesStay
         DEF MailGoes
    <3> QED
      BY <2>11, <3>1, <3>2
  <2>3. Blank' /\ ThanksMarked'
    BY <1>1, <1>5, <2>1, <2>11, TickView, TextsStay, VotesStay
       DEF MailGoes
  <2>4. Before'
    BY <1>1, <1>4, <1>6, <2>1, <2>11, TickView, TextsStay, VotesStay
       DEF MailGoes
  <2>5. Standing'
    BY <1>1, <1>4, <1>6, <2>1, <2>11, TickView, TextsStay, VotesStay
       DEF MailGoes
  <2>6. Telling'
    <3>1. CASE sweep'[p].at = "mailed" /\ MailGoes
      BY <1>1, <1>4, <1>6, <3>1, <2>1, TickView, TextsStay, VotesStay
         DEF MailGoes
    <3>2. CASE sweep'[p].at = "idle" /\ UNCHANGED told
      BY <1>1, <1>4, <1>6, <3>2, <2>1, TickView, TextsStay, VotesStay
         DEF MailGoes
    <3> QED
      BY <2>11, <3>1, <3>2
  <2> QED
    BY <2>2, <2>3, <2>4, <2>5, <2>6 DEF SurveyRest
<1>30. ASSUME NEW p \in Sweepers, Asked!SaveMailed(p)
      PROVE  SurveyRest'
  <2>1. /\ sweep[p].at = "mailed"
        /\ sweep'[p].at = "idle"
        /\ survey'.feedback = "awaiting_web" /\ survey'.suggestion = "awaiting_web"
        /\ survey'.channel = "email"
        /\ UNCHANGED <<survey.started, survey.window, survey.thanked, survey.fresh>>
        /\ UNCHANGED <<said, told, thanks, text, vote, response, web, surveyFaults>>
    BY <1>30, <1>2 DEF Asked!SaveMailed
  <2>2. YesBefore'
    BY <1>1, <1>5, <2>1, TickView, TextsStay, VotesStay
  <2>3. Blank' /\ ThanksMarked'
    BY <1>1, <1>5, <2>1, TickView, TextsStay, VotesStay
  <2>4. Before'
    BY <1>1, <1>4, <1>6, <2>1, TickView, TextsStay, VotesStay
  <2>5. Standing'
    BY <1>1, <1>4, <1>6, <2>1, TickView, TextsStay, VotesStay
  <2>6. Telling'
    BY <1>1, <1>4, <1>6, <2>1, TickView, TextsStay, VotesStay
  <2> QED
    BY <2>2, <2>3, <2>4, <2>5, <2>6 DEF SurveyRest
<1>31. ASSUME NEW p \in Sweepers, Asked!OpenSuggestion(p)
      PROVE  SurveyRest'
  <2>1. /\ sweep[p].at = "openAsk"
        /\ UNCHANGED <<survey, said, thanks, text, vote, response, web>>
    BY <1>31, <1>2 DEF Asked!OpenSuggestion, SweepState
  <2>11. /\ \/ sweep'[p].at = "openedAsk" /\ ConsentOut /\ UNCHANGED surveyFaults
            \/ sweep'[p].at = "idle" /\ UNCHANGED <<told, surveyFaults>>
            \/ sweep'[p].at = "idle" /\ ConsentOut /\ surveyFaults' = surveyFaults + 1
    <3>1. CASE Asked!GoOn(p, "openedAsk") /\ Asked!Send("consent") /\ UNCHANGED surveyFaults
      <4>1. sweep'[p].at = "openedAsk"
        BY <3>1, <1>2, NewTick DEF SweepState, SweepPoint
      <4> QED
        BY <3>1, <4>1, SendsOut
    <3>2. CASE Asked!Return(p) /\ UNCHANGED <<told, surveyFaults>>
      <4>1. sweep'[p].at = "idle"
        BY <3>2, <1>2, NewTick DEF SweepState, SweepPoint
      <4> QED
        BY <3>2, <4>1
    <3>3. CASE Asked!Return(p) /\ Asked!Send("consent") /\ surveyFaults' = surveyFaults + 1
      <4>1. sweep'[p].at = "idle"
        BY <3>3, <1>2, NewTick DEF SweepState, SweepPoint
      <4> QED
        BY <3>3, <4>1, SendsOut
    <3> QED
      BY <1>31, <3>1, <3>2, <3>3 DEF Asked!OpenSuggestion
  <2>2. YesBefore'
    <3>1. CASE sweep'[p].at = "openedAsk" /\ ConsentOut /\ UNCHANGED surveyFaults
      <4>1. /\ "poll" \in told' <=> "poll" \in told
            /\ "ask" \in told' <=> "ask" \in told
            /\ "stored" \in told' <=> "stored" \in told
        BY <3>1 DEF ConsentOut
      <4> QED
        BY <1>1, <1>5, <3>1, <4>1, <2>1, TickView, TextsStay, VotesStay
    <3>2. CASE sweep'[p].at = "idle" /\ UNCHANGED <<told, surveyFaults>>
      BY <1>1, <1>5, <3>2, <2>1, TickView, TextsStay, VotesStay
         DEF ConsentOut
    <3>3. CASE sweep'[p].at = "idle" /\ ConsentOut /\ surveyFaults' = surveyFaults + 1
      <4>1. /\ "poll" \in told' <=> "poll" \in told
            /\ "ask" \in told' <=> "ask" \in told
            /\ "stored" \in told' <=> "stored" \in told
        BY <3>3 DEF ConsentOut
      <4> QED
        BY <1>1, <1>5, <3>3, <4>1, <2>1, TickView, TextsStay, VotesStay
    <3> QED
      BY <2>11, <3>1, <3>2, <3>3
  <2>3. Blank' /\ ThanksMarked'
    BY <1>1, <1>5, <2>1, <2>11, TickView, TextsStay, VotesStay
       DEF ConsentOut
  <2>4. Before'
    <3>1. CASE sweep'[p].at = "openedAsk" /\ ConsentOut /\ UNCHANGED surveyFaults
      BY <1>1, <1>4, <1>6, <3>1, <2>1, TickView, TextsStay, VotesStay
         DEF ConsentOut
    <3>2. CASE sweep'[p].at = "idle" /\ UNCHANGED <<told, surveyFaults>>
      BY <1>1, <1>4, <1>6, <3>2, <2>1, TickView, TextsStay, VotesStay
         DEF ConsentOut
    <3>3. CASE sweep'[p].at = "idle" /\ ConsentOut /\ surveyFaults' = surveyFaults + 1
      BY <1>1, <1>4, <1>6, <3>3, <2>1, TickView, TextsStay, VotesStay
         DEF ConsentOut
    <3> QED
      BY <2>11, <3>1, <3>2, <3>3
  <2>5. Standing'
    <3>1. CASE sweep'[p].at = "openedAsk" /\ ConsentOut /\ UNCHANGED surveyFaults
      BY <1>1, <1>4, <1>6, <3>1, <2>1, TickView, TextsStay, VotesStay
         DEF ConsentOut
    <3>2. CASE sweep'[p].at = "idle" /\ UNCHANGED <<told, surveyFaults>>
      BY <1>1, <1>4, <1>6, <3>2, <2>1, TickView, TextsStay, VotesStay
         DEF ConsentOut
    <3>3. CASE sweep'[p].at = "idle" /\ ConsentOut /\ surveyFaults' = surveyFaults + 1
      BY <1>1, <1>4, <1>6, <3>3, <2>1, TickView, TextsStay, VotesStay
         DEF ConsentOut
    <3> QED
      BY <2>11, <3>1, <3>2, <3>3
  <2>6. Telling'
    <3>1. CASE sweep'[p].at = "openedAsk" /\ ConsentOut /\ UNCHANGED surveyFaults
      BY <1>1, <1>4, <1>6, <3>1, <2>1, TickView, TextsStay, VotesStay
         DEF ConsentOut
    <3>2. CASE sweep'[p].at = "idle" /\ UNCHANGED <<told, surveyFaults>>
      BY <1>1, <1>4, <1>6, <3>2, <2>1, TickView, TextsStay, VotesStay
         DEF ConsentOut
    <3>3. CASE sweep'[p].at = "idle" /\ ConsentOut /\ surveyFaults' = surveyFaults + 1
      BY <1>1, <1>4, <1>6, <3>3, <2>1, TickView, TextsStay, VotesStay
         DEF ConsentOut
    <3> QED
      BY <2>11, <3>1, <3>2, <3>3
  <2> QED
    BY <2>2, <2>3, <2>4, <2>5, <2>6 DEF SurveyRest
<1>32. ASSUME NEW p \in Sweepers, Asked!SaveOpenedAsk(p)
      PROVE  SurveyRest'
  <2>1. /\ sweep[p].at = "openedAsk"
        /\ sweep'[p].at = "idle"
        /\ survey'.suggestion = "awaiting_consent" /\ survey'.window
        /\ survey'.fresh
        /\ UNCHANGED <<survey.feedback, survey.channel, survey.started, survey.thanked>>
        /\ UNCHANGED <<said, told, thanks, text, vote, response, web, surveyFaults>>
    BY <1>32, <1>2 DEF Asked!SaveOpenedAsk
  <2>2. YesBefore'
    BY <1>1, <1>5, <2>1, TickView, TextsStay, VotesStay
  <2>3. Blank' /\ ThanksMarked'
    BY <1>1, <1>5, <2>1, TickView, TextsStay, VotesStay
  <2>4. Before'
    BY <1>1, <1>4, <1>6, <2>1, TickView, TextsStay, VotesStay
  <2>5. Standing'
    BY <1>1, <1>4, <1>6, <2>1, TickView, TextsStay, VotesStay
  <2>6. Telling'
    BY <1>1, <1>4, <1>6, <2>1, TickView, TextsStay, VotesStay
  <2> QED
    BY <2>2, <2>3, <2>4, <2>5, <2>6 DEF SurveyRest
<1>33. ASSUME NEW p \in Sweepers, Asked!TickDies(p)
      PROVE  SurveyRest'
  <2>1. /\ sweep'[p].at = "idle"
        /\ surveyFaults' = surveyFaults + 1
        /\ UNCHANGED <<survey, said, told, thanks, text, vote, response, web>>
    BY <1>33, <1>2 DEF Asked!TickDies
  <2>2. YesBefore'
    BY <1>1, <1>5, <2>1, TickView, TextsStay, VotesStay
  <2>3. Blank' /\ ThanksMarked'
    BY <1>1, <1>5, <2>1, TickView, TextsStay, VotesStay
  <2>4. Before'
    BY <1>1, <1>4, <1>6, <2>1, TickView, TextsStay, VotesStay
  <2>5. Standing'
    BY <1>1, <1>4, <1>6, <2>1, TickView, TextsStay, VotesStay
  <2>6. Telling'
    BY <1>1, <1>4, <1>6, <2>1, TickView, TextsStay, VotesStay
  <2> QED
    BY <2>2, <2>3, <2>4, <2>5, <2>6 DEF SurveyRest
<1>34. ASSUME NEW h \in Texts,
             NEW what \in {"yes", "no", "other"}, Asked!ConsentReply(h, what)
      PROVE  SurveyRest'
  <2>1. /\ text[h].at = "idle"
        /\ survey.feedback = "awaiting_consent"
        /\ \/ what = "yes" /\ TextGoes(h, "claim")
           \/ what = "no" /\ TextGoes(h, "refuse")
        /\ Heard(what)
        /\ UNCHANGED <<survey, told, thanks, sweep, vote, response, web, surveyFaults>>
    BY <1>34, <1>2 DEF Asked!ConsentReply, Asked!Hear, Asked!Agrees, Asked!SaysYes, TextGoes,
         TextState, SaidState
  <2>20. TextGoes(h, "claim") => AllGo("idle", "claim") /\ AsksGo("idle", "claim")
    BY <2>1, TextView
  <2>21. TextGoes(h, "refuse") => AllGo("idle", "refuse") /\ AsksGo("idle", "refuse")
    BY <2>1, TextView
  <2>2. YesBefore'
    BY <1>1, <1>5, <2>1, <2>20, <2>21, TicksStay, VotesStay
       DEF AllGo, Goes, AsksGo, Agreeing, Reviving, Requested, Asking, Storing
  <2>3. Blank' /\ ThanksMarked'
    BY <1>1, <1>5, <2>1, <2>20, <2>21, TicksStay, VotesStay
       DEF AllGo, Goes, AsksGo, Agreeing, Reviving, Requested, Asking, Storing
  <2>4. Before'
    BY <1>1, <1>4, <1>6, <2>1, <2>20, <2>21, TicksStay, VotesStay
       DEF AllGo, Goes, AsksGo, Agreeing, Reviving, Requested, Asking, Storing
  <2>5. Standing'
    BY <1>1, <1>4, <1>6, <2>1, <2>20, <2>21, TicksStay, VotesStay
       DEF AllGo, Goes, AsksGo, Agreeing, Reviving, Requested, Asking, Storing
  <2>6. Telling'
    BY <1>1, <1>4, <1>6, <2>1, <2>20, <2>21, TicksStay, VotesStay
       DEF AllGo, Goes, AsksGo, Agreeing, Reviving, Requested, Asking, Storing
  <2> QED
    BY <2>2, <2>3, <2>4, <2>5, <2>6 DEF SurveyRest
<1>35. ASSUME NEW h \in Texts,
             NEW what \in {"yes", "no", "other"}, Asked!LateYes(h, what)
      PROVE  SurveyRest'
  <2>1. /\ text[h].at = "idle"
        /\ TextGoes(h, "revive")
        /\ survey.feedback = "expired" /\ survey.channel = "whatsapp" /\ survey.started
        /\ HeardYes
        /\ UNCHANGED <<survey, told, thanks, sweep, vote, response, web, surveyFaults>>
    BY <1>35, <1>2 DEF Asked!LateYes, Asked!Hear, Asked!Agrees, Asked!MayRevive, TextGoes,
         TextState, SaidState
  <2>20. TextGoes(h, "revive") => AllGo("idle", "revive") /\ AsksGo("idle", "revive")
    BY <2>1, TextView
  <2>2. YesBefore'
    BY <1>1, <1>5, <2>1, <2>20, TicksStay, VotesStay
       DEF AllGo, Goes, AsksGo, Agreeing, Reviving, Requested, Asking, Storing
  <2>3. Blank' /\ ThanksMarked'
    BY <1>1, <1>5, <2>1, <2>20, TicksStay, VotesStay
       DEF AllGo, Goes, AsksGo, Agreeing, Reviving, Requested, Asking, Storing
  <2>4. Before'
    BY <1>1, <1>4, <1>6, <2>1, <2>20, TicksStay, VotesStay
       DEF AllGo, Goes, AsksGo, Agreeing, Reviving, Requested, Asking, Storing
  <2>5. Standing'
    BY <1>1, <1>4, <1>6, <2>1, <2>20, TicksStay, VotesStay
       DEF AllGo, Goes, AsksGo, Agreeing, Reviving, Requested, Asking, Storing
  <2>6. Telling'
    BY <1>1, <1>4, <1>6, <2>1, <2>20, TicksStay, VotesStay
       DEF AllGo, Goes, AsksGo, Agreeing, Reviving, Requested, Asking, Storing
  <2> QED
    BY <2>2, <2>3, <2>4, <2>5, <2>6 DEF SurveyRest
<1>36. ASSUME NEW h \in Texts,
             NEW what \in {"yes", "no", "other"}, Asked!AskReply(h, what)
      PROVE  SurveyRest'
  <2>1. /\ text[h].at = "idle"
        /\ Asked!Asked
        /\ \/ what = "yes" /\ TextGoes(h, "claimAsk")
           \/ what = "no" /\ TextGoes(h, "refuseAsk")
        /\ Heard(what)
        /\ UNCHANGED <<survey, told, thanks, sweep, vote, response, web, surveyFaults>>
    BY <1>36, <1>2 DEF Asked!AskReply, Asked!Hear, Asked!Agrees, Asked!SaysYes, TextGoes,
         TextState, SaidState
  <2>20. TextGoes(h, "claimAsk") => AllGo("idle", "claimAsk") /\ AsksGo("idle", "claimAsk")
    BY <2>1, TextView
  <2>21. TextGoes(h, "refuseAsk") => AllGo("idle", "refuseAsk") /\ AsksGo("idle", "refuseAsk")
    BY <2>1, TextView
  <2>2. YesBefore'
    BY <1>1, <1>5, <2>1, <2>20, <2>21, TicksStay, VotesStay
       DEF AllGo, Goes, AsksGo, Agreeing, Reviving, Requested, Asking, Storing
  <2>3. Blank' /\ ThanksMarked'
    BY <1>1, <1>5, <2>1, <2>20, <2>21, TicksStay, VotesStay
       DEF AllGo, Goes, AsksGo, Agreeing, Reviving, Requested, Asking, Storing
  <2>4. Before'
    BY <1>1, <1>4, <1>6, <2>1, <2>20, <2>21, TicksStay, VotesStay
       DEF AllGo, Goes, AsksGo, Agreeing, Reviving, Requested, Asking, Storing
  <2>5. Standing'
    BY <1>1, <1>4, <1>6, <2>1, <2>20, <2>21, TicksStay, VotesStay
       DEF AllGo, Goes, AsksGo, Agreeing, Reviving, Requested, Asking, Storing
  <2>6. Telling'
    BY <1>1, <1>4, <1>6, <2>1, <2>20, <2>21, TicksStay, VotesStay
       DEF AllGo, Goes, AsksGo, Agreeing, Reviving, Requested, Asking, Storing
  <2> QED
    BY <2>2, <2>3, <2>4, <2>5, <2>6 DEF SurveyRest
<1>37. ASSUME NEW h \in Texts,
             NEW what \in {"yes", "no", "other"}, Asked!Suggestion(h, what)
      PROVE  SurveyRest'
  <2>1. /\ text[h].at = "idle"
        /\ TextGoes(h, "capture")
        /\ survey.feedback # "awaiting_consent" /\ survey.window /\ ~survey.fresh
        /\ survey.suggestion \in {"awaiting_reply", "completed"}
        /\ UNCHANGED <<survey, said, told, thanks, sweep, vote, response, web, surveyFaults>>
    BY <1>37, <1>2 DEF Asked!Suggestion, Asked!Hear, TextGoes, TextState
  <2>20. TextGoes(h, "capture") => AllGo("idle", "capture") /\ AsksGo("idle", "capture")
    BY <2>1, TextView
  <2>2. YesBefore'
    BY <1>1, <1>5, <2>1, <2>20, TicksStay, VotesStay
       DEF AllGo, Goes, AsksGo, Agreeing, Reviving, Requested, Asking, Storing
  <2>3. Blank' /\ ThanksMarked'
    BY <1>1, <1>5, <2>1, <2>20, TicksStay, VotesStay
       DEF AllGo, Goes, AsksGo, Agreeing, Reviving, Requested, Asking, Storing
  <2>4. Before'
    BY <1>1, <1>4, <1>6, <2>1, <2>20, TicksStay, VotesStay
       DEF AllGo, Goes, AsksGo, Agreeing, Reviving, Requested, Asking, Storing
  <2>5. Standing'
    BY <1>1, <1>4, <1>6, <2>1, <2>20, TicksStay, VotesStay
       DEF AllGo, Goes, AsksGo, Agreeing, Reviving, Requested, Asking, Storing
  <2>6. Telling'
    BY <1>1, <1>4, <1>6, <2>1, <2>20, TicksStay, VotesStay
       DEF AllGo, Goes, AsksGo, Agreeing, Reviving, Requested, Asking, Storing
  <2> QED
    BY <2>2, <2>3, <2>4, <2>5, <2>6 DEF SurveyRest
<1>38. ASSUME NEW h \in Texts, Asked!Claim(h)
      PROVE  SurveyRest'
  <2>7. SweepsStay
    BY <1>38, <1>2, Moved DEF Asked!Claim, Asked!Begun, Asked!Guarded, SweepsStay
  <2>1. /\ text[h].at = "claim"
        /\ \/ TextGoes(h, "idle") /\ UNCHANGED survey /\ ~(survey.feedback = "awaiting_consent")
           \/ TextGoes(h, "idle") /\ survey.feedback = "awaiting_consent"
        /\ UNCHANGED <<said, told, thanks, vote, response, web, surveyFaults>>
    BY <1>38, <1>2 DEF Asked!Claim, Asked!Begun, Asked!Guarded, TextGoes, TextState
  <2>9. survey.feedback = "awaiting_consent" =>
           /\ survey'.feedback = "in_progress"
           /\ UNCHANGED <<survey.suggestion, survey.channel, survey.started, survey.window,
                          survey.thanked, survey.fresh>>
    BY <1>38, <1>2 DEF Asked!Claim, Asked!Begun, Asked!Guarded, Asked!Survey
  <2>20. TextGoes(h, "idle") => AllGo("claim", "idle") /\ AsksGo("claim", "idle")
    BY <2>1, TextView
  <2>2. YesBefore'
    BY <1>1, <1>5, <2>1, <2>7, <2>9, <2>20, TicksStay, VotesStay
       DEF AllGo, Goes, AsksGo, Agreeing, Reviving, Requested, Asking, Storing
  <2>3. Blank' /\ ThanksMarked'
    BY <1>1, <1>5, <2>1, <2>7, <2>9, <2>20, TicksStay, VotesStay
       DEF AllGo, Goes, AsksGo, Agreeing, Reviving, Requested, Asking, Storing
  <2>4. Before'
    BY <1>1, <1>4, <1>6, <2>1, <2>7, <2>9, <2>20, TicksStay, VotesStay
       DEF AllGo, Goes, AsksGo, Agreeing, Reviving, Requested, Asking, Storing
  <2>5. Standing'
    BY <1>1, <1>4, <1>6, <2>1, <2>7, <2>9, <2>20, TicksStay, VotesStay
       DEF AllGo, Goes, AsksGo, Agreeing, Reviving, Requested, Asking, Storing
  <2>6. Telling'
    BY <1>1, <1>4, <1>6, <2>1, <2>7, <2>9, <2>20, TicksStay, VotesStay
       DEF AllGo, Goes, AsksGo, Agreeing, Reviving, Requested, Asking, Storing
  <2> QED
    BY <2>2, <2>3, <2>4, <2>5, <2>6 DEF SurveyRest
<1>39. ASSUME NEW h \in Texts, Asked!Refuse(h)
      PROVE  SurveyRest'
  <2>7. SweepsStay
    BY <1>39, <1>2, Moved DEF Asked!Refuse, Asked!Guarded, SweepsStay
  <2>1. /\ text[h].at = "refuse"
        /\ \/ /\ TextGoes(h, "idle") /\ UNCHANGED survey /\ ~(survey.feedback = "awaiting_consent")
              /\ UNCHANGED said
           \/ TextGoes(h, "cancel") /\ survey.feedback = "awaiting_consent"
        /\ UNCHANGED <<told, thanks, vote, response, web, surveyFaults>>
    BY <1>39, <1>2 DEF Asked!Refuse, Asked!Guarded, TextGoes, TextState
  <2>9. survey.feedback = "awaiting_consent" =>
           /\ survey'.feedback = "declined"
           /\ UNCHANGED <<survey.suggestion, survey.channel, survey.started, survey.window,
                          survey.thanked, survey.fresh>>
           /\ Refusing("polls")
    BY <1>39, <1>2 DEF Asked!Refuse, Asked!Guarded, Asked!Survey, SaidState
  <2>20. TextGoes(h, "idle") => AllGo("refuse", "idle") /\ AsksGo("refuse", "idle")
    BY <2>1, TextView
  <2>21. TextGoes(h, "cancel") => AllGo("refuse", "cancel") /\ AsksGo("refuse", "cancel")
    BY <2>1, TextView
  <2>2. YesBefore'
    BY <1>1, <1>5, <2>1, <2>7, <2>9, <2>20, <2>21, TicksStay, VotesStay
       DEF AllGo, Goes, AsksGo, Agreeing, Reviving, Requested, Asking, Storing
  <2>3. Blank' /\ ThanksMarked'
    BY <1>1, <1>5, <2>1, <2>7, <2>9, <2>20, <2>21, TicksStay, VotesStay
       DEF AllGo, Goes, AsksGo, Agreeing, Reviving, Requested, Asking, Storing
  <2>4. Before'
    BY <1>1, <1>4, <1>6, <2>1, <2>7, <2>9, <2>20, <2>21, TicksStay, VotesStay
       DEF AllGo, Goes, AsksGo, Agreeing, Reviving, Requested, Asking, Storing
  <2>5. Standing'
    BY <1>1, <1>4, <1>6, <2>1, <2>7, <2>9, <2>20, <2>21, TicksStay, VotesStay
       DEF AllGo, Goes, AsksGo, Agreeing, Reviving, Requested, Asking, Storing
  <2>6. Telling'
    BY <1>1, <1>4, <1>6, <2>1, <2>7, <2>9, <2>20, <2>21, TicksStay, VotesStay
       DEF AllGo, Goes, AsksGo, Agreeing, Reviving, Requested, Asking, Storing
  <2> QED
    BY <2>2, <2>3, <2>4, <2>5, <2>6 DEF SurveyRest
<1>40. ASSUME NEW h \in Texts, Asked!CancelSuggestion(h)
      PROVE  SurveyRest'
  <2>1. /\ text[h].at = "cancel"
        /\ \/ TextGoes(h, "idle") /\ UNCHANGED survey /\ ~(survey.suggestion = "scheduled")
           \/ TextGoes(h, "idle") /\ survey.suggestion = "scheduled"
        /\ UNCHANGED <<said, told, thanks, sweep, vote, response, web, surveyFaults>>
    BY <1>40, <1>2 DEF Asked!CancelSuggestion, Asked!Guarded, TextGoes, TextState
  <2>9. survey.suggestion = "scheduled" =>
           /\ survey'.suggestion = "skipped"
           /\ UNCHANGED <<survey.feedback, survey.channel, survey.started, survey.window,
                          survey.thanked, survey.fresh>>
    BY <1>40, <1>2 DEF Asked!CancelSuggestion, Asked!Guarded, Asked!Survey
  <2>20. TextGoes(h, "idle") => AllGo("cancel", "idle") /\ AsksGo("cancel", "idle")
    BY <2>1, TextView
  <2>2. YesBefore'
    BY <1>1, <1>5, <2>1, <2>9, <2>20, TicksStay, VotesStay
       DEF AllGo, Goes, AsksGo, Agreeing, Reviving, Requested, Asking, Storing
  <2>3. Blank' /\ ThanksMarked'
    BY <1>1, <1>5, <2>1, <2>9, <2>20, TicksStay, VotesStay
       DEF AllGo, Goes, AsksGo, Agreeing, Reviving, Requested, Asking, Storing
  <2>4. Before'
    BY <1>1, <1>4, <1>6, <2>1, <2>9, <2>20, TicksStay, VotesStay
       DEF AllGo, Goes, AsksGo, Agreeing, Reviving, Requested, Asking, Storing
  <2>5. Standing'
    BY <1>1, <1>4, <1>6, <2>1, <2>9, <2>20, TicksStay, VotesStay
       DEF AllGo, Goes, AsksGo, Agreeing, Reviving, Requested, Asking, Storing
  <2>6. Telling'
    BY <1>1, <1>4, <1>6, <2>1, <2>9, <2>20, TicksStay, VotesStay
       DEF AllGo, Goes, AsksGo, Agreeing, Reviving, Requested, Asking, Storing
  <2> QED
    BY <2>2, <2>3, <2>4, <2>5, <2>6 DEF SurveyRest
<1>41. ASSUME NEW h \in Texts, Asked!Revive(h)
      PROVE  SurveyRest'
  <2>7. SweepsStay
    BY <1>41, <1>2, Moved DEF Asked!Revive, Asked!Begun, Asked!Guarded, SweepsStay
  <2>1. /\ text[h].at = "revive"
        /\ \/ TextGoes(h, "idle") /\ UNCHANGED survey /\ ~(survey.feedback = "expired")
           \/ TextGoes(h, "restore") /\ survey.feedback = "expired"
        /\ UNCHANGED <<said, told, thanks, vote, response, web, surveyFaults>>
    BY <1>41, <1>2 DEF Asked!Revive, Asked!Begun, Asked!Guarded, TextGoes, TextState
  <2>9. survey.feedback = "expired" =>
           /\ survey'.feedback = "in_progress"
           /\ UNCHANGED <<survey.suggestion, survey.channel, survey.started, survey.window,
                          survey.thanked, survey.fresh>>
    BY <1>41, <1>2 DEF Asked!Revive, Asked!Begun, Asked!Guarded, Asked!Survey
  <2>20. TextGoes(h, "idle") => AllGo("revive", "idle") /\ AsksGo("revive", "idle")
    BY <2>1, TextView
  <2>21. TextGoes(h, "restore") => AllGo("revive", "restore") /\ AsksGo("revive", "restore")
    BY <2>1, TextView
  <2>2. YesBefore'
    BY <1>1, <1>5, <2>1, <2>7, <2>9, <2>20, <2>21, TicksStay, VotesStay
       DEF AllGo, Goes, AsksGo, Agreeing, Reviving, Requested, Asking, Storing
  <2>3. Blank' /\ ThanksMarked'
    BY <1>1, <1>5, <2>1, <2>7, <2>9, <2>20, <2>21, TicksStay, VotesStay
       DEF AllGo, Goes, AsksGo, Agreeing, Reviving, Requested, Asking, Storing
  <2>4. Before'
    BY <1>1, <1>4, <1>6, <2>1, <2>7, <2>9, <2>20, <2>21, TicksStay, VotesStay
       DEF AllGo, Goes, AsksGo, Agreeing, Reviving, Requested, Asking, Storing
  <2>5. Standing'
    BY <1>1, <1>4, <1>6, <2>1, <2>7, <2>9, <2>20, <2>21, TicksStay, VotesStay
       DEF AllGo, Goes, AsksGo, Agreeing, Reviving, Requested, Asking, Storing
  <2>6. Telling'
    BY <1>1, <1>4, <1>6, <2>1, <2>7, <2>9, <2>20, <2>21, TicksStay, VotesStay
       DEF AllGo, Goes, AsksGo, Agreeing, Reviving, Requested, Asking, Storing
  <2> QED
    BY <2>2, <2>3, <2>4, <2>5, <2>6 DEF SurveyRest
<1>42. ASSUME NEW h \in Texts, Asked!RestoreSuggestion(h)
      PROVE  SurveyRest'
  <2>1. /\ text[h].at = "restore"
        /\ \/ TextGoes(h, "idle") /\ UNCHANGED survey /\ ~(survey.suggestion = "skipped")
           \/ TextGoes(h, "idle") /\ survey.suggestion = "skipped"
        /\ UNCHANGED <<said, told, thanks, sweep, vote, response, web, surveyFaults>>
    BY <1>42, <1>2 DEF Asked!RestoreSuggestion, Asked!Guarded, TextGoes, TextState
  <2>9. survey.suggestion = "skipped" =>
           /\ survey'.suggestion = "scheduled"
           /\ UNCHANGED <<survey.feedback, survey.channel, survey.started, survey.window,
                          survey.thanked, survey.fresh>>
    BY <1>42, <1>2 DEF Asked!RestoreSuggestion, Asked!Guarded, Asked!Survey
  <2>20. TextGoes(h, "idle") => AllGo("restore", "idle") /\ AsksGo("restore", "idle")
    BY <2>1, TextView
  <2>2. YesBefore'
    BY <1>1, <1>5, <2>1, <2>9, <2>20, TicksStay, VotesStay
       DEF AllGo, Goes, AsksGo, Agreeing, Reviving, Requested, Asking, Storing
  <2>3. Blank' /\ ThanksMarked'
    BY <1>1, <1>5, <2>1, <2>9, <2>20, TicksStay, VotesStay
       DEF AllGo, Goes, AsksGo, Agreeing, Reviving, Requested, Asking, Storing
  <2>4. Before'
    BY <1>1, <1>4, <1>6, <2>1, <2>9, <2>20, TicksStay, VotesStay
       DEF AllGo, Goes, AsksGo, Agreeing, Reviving, Requested, Asking, Storing
  <2>5. Standing'
    BY <1>1, <1>4, <1>6, <2>1, <2>9, <2>20, TicksStay, VotesStay
       DEF AllGo, Goes, AsksGo, Agreeing, Reviving, Requested, Asking, Storing
  <2>6. Telling'
    BY <1>1, <1>4, <1>6, <2>1, <2>9, <2>20, TicksStay, VotesStay
       DEF AllGo, Goes, AsksGo, Agreeing, Reviving, Requested, Asking, Storing
  <2> QED
    BY <2>2, <2>3, <2>4, <2>5, <2>6 DEF SurveyRest
<1>43. ASSUME NEW h \in Texts, Asked!ClaimAsk(h)
      PROVE  SurveyRest'
  <2>1. /\ text[h].at = "claimAsk"
        /\ \/ TextGoes(h, "idle") /\ UNCHANGED survey /\ ~(survey.suggestion = "awaiting_consent")
           \/ TextGoes(h, "ask") /\ survey.suggestion = "awaiting_consent"
        /\ UNCHANGED <<said, told, thanks, sweep, vote, response, web, surveyFaults>>
    BY <1>43, <1>2 DEF Asked!ClaimAsk, Asked!Guarded, TextGoes, TextState
  <2>9. survey.suggestion = "awaiting_consent" =>
           /\ survey'.suggestion = "awaiting_reply" /\ survey'.window /\ survey'.fresh
           /\ UNCHANGED <<survey.feedback, survey.channel, survey.started, survey.thanked>>
    BY <1>43, <1>2 DEF Asked!ClaimAsk, Asked!Guarded, Asked!Survey
  <2>20. TextGoes(h, "idle") => AllGo("claimAsk", "idle") /\ AsksGo("claimAsk", "idle")
    BY <2>1, TextView
  <2>21. TextGoes(h, "ask") => AllGo("claimAsk", "ask") /\ AsksGo("claimAsk", "ask")
    BY <2>1, TextView
  <2>2. YesBefore'
    BY <1>1, <1>5, <2>1, <2>9, <2>20, <2>21, TicksStay, VotesStay
       DEF AllGo, Goes, AsksGo, Agreeing, Reviving, Requested, Asking, Storing
  <2>3. Blank' /\ ThanksMarked'
    BY <1>1, <1>5, <2>1, <2>9, <2>20, <2>21, TicksStay, VotesStay
       DEF AllGo, Goes, AsksGo, Agreeing, Reviving, Requested, Asking, Storing
  <2>4. Before'
    BY <1>1, <1>4, <1>6, <2>1, <2>9, <2>20, <2>21, TicksStay, VotesStay
       DEF AllGo, Goes, AsksGo, Agreeing, Reviving, Requested, Asking, Storing
  <2>5. Standing'
    BY <1>1, <1>4, <1>6, <2>1, <2>9, <2>20, <2>21, TicksStay, VotesStay
       DEF AllGo, Goes, AsksGo, Agreeing, Reviving, Requested, Asking, Storing
  <2>6. Telling'
    BY <1>1, <1>4, <1>6, <2>1, <2>9, <2>20, <2>21, TicksStay, VotesStay
       DEF AllGo, Goes, AsksGo, Agreeing, Reviving, Requested, Asking, Storing
  <2> QED
    BY <2>2, <2>3, <2>4, <2>5, <2>6 DEF SurveyRest
<1>44. ASSUME NEW h \in Texts, Asked!Ask(h)
      PROVE  SurveyRest'
  <2>1. /\ text[h].at = "ask"
        /\ \/ Outgoing("ask") /\ TextGoes(h, "idle")
           \/ UNCHANGED told /\ TextGoes(h, "unask")
        /\ UNCHANGED <<survey, said, thanks, sweep, vote, response, web, surveyFaults>>
    BY <1>44, <1>2, SendsOut DEF Asked!Ask, TextGoes, TextState
  <2>20. TextGoes(h, "idle") => AllGo("ask", "idle") /\ AsksGo("ask", "idle")
    BY <2>1, TextView
  <2>21. TextGoes(h, "unask") => AllGo("ask", "unask") /\ AsksGo("ask", "unask")
    BY <2>1, TextView
  <2>2. YesBefore'
    BY <1>1, <1>5, <2>1, <2>20, <2>21, TicksStay, VotesStay
       DEF AllGo, Goes, AsksGo, Agreeing, Reviving, Requested, Asking, Storing, Outgoing
  <2>3. Blank' /\ ThanksMarked'
    BY <1>1, <1>5, <2>1, <2>20, <2>21, TicksStay, VotesStay
       DEF AllGo, Goes, AsksGo, Agreeing, Reviving, Requested, Asking, Storing, Outgoing
  <2>4. Before'
    BY <1>1, <1>4, <1>6, <2>1, <2>20, <2>21, TicksStay, VotesStay
       DEF AllGo, Goes, AsksGo, Agreeing, Reviving, Requested, Asking, Storing, Outgoing
  <2>5. Standing'
    BY <1>1, <1>4, <1>6, <2>1, <2>20, <2>21, TicksStay, VotesStay
       DEF AllGo, Goes, AsksGo, Agreeing, Reviving, Requested, Asking, Storing, Outgoing
  <2>6. Telling'
    BY <1>1, <1>4, <1>6, <2>1, <2>20, <2>21, TicksStay, VotesStay
       DEF AllGo, Goes, AsksGo, Agreeing, Reviving, Requested, Asking, Storing, Outgoing
  <2> QED
    BY <2>2, <2>3, <2>4, <2>5, <2>6 DEF SurveyRest
<1>45. ASSUME NEW h \in Texts, Asked!Unask(h)
      PROVE  SurveyRest'
  <2>1. /\ text[h].at = "unask"
        /\ \/ TextGoes(h, "idle") /\ UNCHANGED survey /\ ~(survey.suggestion = "awaiting_reply")
           \/ TextGoes(h, "idle") /\ survey.suggestion = "awaiting_reply"
        /\ UNCHANGED <<said, told, thanks, sweep, vote, response, web, surveyFaults>>
    BY <1>45, <1>2 DEF Asked!Unask, Asked!Guarded, TextGoes, TextState
  <2>9. survey.suggestion = "awaiting_reply" =>
           /\ survey'.suggestion = "scheduled" /\ ~survey'.window
           /\ UNCHANGED <<survey.feedback, survey.channel, survey.started, survey.thanked, survey.fresh>>
    BY <1>45, <1>2 DEF Asked!Unask, Asked!Guarded, Asked!Survey
  <2>20. TextGoes(h, "idle") => AllGo("unask", "idle") /\ AsksGo("unask", "idle")
    BY <2>1, TextView
  <2>2. YesBefore'
    BY <1>1, <1>5, <2>1, <2>9, <2>20, TicksStay, VotesStay
       DEF AllGo, Goes, AsksGo, Agreeing, Reviving, Requested, Asking, Storing
  <2>3. Blank' /\ ThanksMarked'
    BY <1>1, <1>5, <2>1, <2>9, <2>20, TicksStay, VotesStay
       DEF AllGo, Goes, AsksGo, Agreeing, Reviving, Requested, Asking, Storing
  <2>4. Before'
    BY <1>1, <1>4, <1>6, <2>1, <2>9, <2>20, TicksStay, VotesStay
       DEF AllGo, Goes, AsksGo, Agreeing, Reviving, Requested, Asking, Storing
  <2>5. Standing'
    BY <1>1, <1>4, <1>6, <2>1, <2>9, <2>20, TicksStay, VotesStay
       DEF AllGo, Goes, AsksGo, Agreeing, Reviving, Requested, Asking, Storing
  <2>6. Telling'
    BY <1>1, <1>4, <1>6, <2>1, <2>9, <2>20, TicksStay, VotesStay
       DEF AllGo, Goes, AsksGo, Agreeing, Reviving, Requested, Asking, Storing
  <2> QED
    BY <2>2, <2>3, <2>4, <2>5, <2>6 DEF SurveyRest
<1>46. ASSUME NEW h \in Texts, Asked!RefuseAsk(h)
      PROVE  SurveyRest'
  <2>1. /\ text[h].at = "refuseAsk"
        /\ \/ /\ TextGoes(h, "idle") /\ UNCHANGED survey /\ ~(survey.suggestion = "awaiting_consent")
              /\ UNCHANGED said
           \/ TextGoes(h, "idle") /\ survey.suggestion = "awaiting_consent"
        /\ UNCHANGED <<told, thanks, sweep, vote, response, web, surveyFaults>>
    BY <1>46, <1>2 DEF Asked!RefuseAsk, Asked!Guarded, TextGoes, TextState
  <2>9. survey.suggestion = "awaiting_consent" =>
           /\ survey'.suggestion = "declined" /\ ~survey'.window
           /\ UNCHANGED <<survey.feedback, survey.channel, survey.started, survey.thanked, survey.fresh>>
           /\ Refusing("ask")
    BY <1>46, <1>2 DEF Asked!RefuseAsk, Asked!Guarded, Asked!Survey, SaidState
  <2>20. TextGoes(h, "idle") => AllGo("refuseAsk", "idle") /\ AsksGo("refuseAsk", "idle")
    BY <2>1, TextView
  <2>2. YesBefore'
    BY <1>1, <1>5, <2>1, <2>9, <2>20, TicksStay, VotesStay
       DEF AllGo, Goes, AsksGo, Agreeing, Reviving, Requested, Asking, Storing
  <2>3. Blank' /\ ThanksMarked'
    BY <1>1, <1>5, <2>1, <2>9, <2>20, TicksStay, VotesStay
       DEF AllGo, Goes, AsksGo, Agreeing, Reviving, Requested, Asking, Storing
  <2>4. Before'
    BY <1>1, <1>4, <1>6, <2>1, <2>9, <2>20, TicksStay, VotesStay
       DEF AllGo, Goes, AsksGo, Agreeing, Reviving, Requested, Asking, Storing
  <2>5. Standing'
    BY <1>1, <1>4, <1>6, <2>1, <2>9, <2>20, TicksStay, VotesStay
       DEF AllGo, Goes, AsksGo, Agreeing, Reviving, Requested, Asking, Storing
  <2>6. Telling'
    BY <1>1, <1>4, <1>6, <2>1, <2>9, <2>20, TicksStay, VotesStay
       DEF AllGo, Goes, AsksGo, Agreeing, Reviving, Requested, Asking, Storing
  <2> QED
    BY <2>2, <2>3, <2>4, <2>5, <2>6 DEF SurveyRest
<1>47. ASSUME NEW h \in Texts, Asked!Capture(h)
      PROVE  SurveyRest'
  <2>1. /\ text[h].at = "capture"
        /\ \/ Outgoing("stored") /\ TextGoes(h, "thank")
           \/ UNCHANGED told /\ TextGoes(h, "idle")
        /\ UNCHANGED <<survey, said, thanks, sweep, vote, response, web, surveyFaults>>
    BY <1>47, <1>2, SendsOut DEF Asked!Capture, TextGoes, TextState
  <2>20. TextGoes(h, "thank") => AllGo("capture", "thank") /\ AsksGo("capture", "thank")
    BY <2>1, TextView
  <2>21. TextGoes(h, "idle") => AllGo("capture", "idle") /\ AsksGo("capture", "idle")
    BY <2>1, TextView
  <2>2. YesBefore'
    BY <1>1, <1>5, <2>1, <2>20, <2>21, TicksStay, VotesStay
       DEF AllGo, Goes, AsksGo, Agreeing, Reviving, Requested, Asking, Storing, Outgoing
  <2>3. Blank' /\ ThanksMarked'
    BY <1>1, <1>5, <2>1, <2>20, <2>21, TicksStay, VotesStay
       DEF AllGo, Goes, AsksGo, Agreeing, Reviving, Requested, Asking, Storing, Outgoing
  <2>4. Before'
    BY <1>1, <1>4, <1>6, <2>1, <2>20, <2>21, TicksStay, VotesStay
       DEF AllGo, Goes, AsksGo, Agreeing, Reviving, Requested, Asking, Storing, Outgoing
  <2>5. Standing'
    BY <1>1, <1>4, <1>6, <2>1, <2>20, <2>21, TicksStay, VotesStay
       DEF AllGo, Goes, AsksGo, Agreeing, Reviving, Requested, Asking, Storing, Outgoing
  <2>6. Telling'
    BY <1>1, <1>4, <1>6, <2>1, <2>20, <2>21, TicksStay, VotesStay
       DEF AllGo, Goes, AsksGo, Agreeing, Reviving, Requested, Asking, Storing, Outgoing
  <2> QED
    BY <2>2, <2>3, <2>4, <2>5, <2>6 DEF SurveyRest
<1>48. ASSUME NEW h \in Texts, Asked!Thank(h)
      PROVE  SurveyRest'
  <2>1. /\ text[h].at = "thank"
        /\ \/ TextGoes(h, "idle") /\ UNCHANGED survey /\ survey.thanked /\ UNCHANGED thanks
           \/ TextGoes(h, "idle") /\ ~survey.thanked
        /\ UNCHANGED <<said, told, sweep, vote, response, web, surveyFaults>>
    BY <1>48, <1>2 DEF Asked!Thank, Asked!Guarded, TextGoes, TextState
  <2>9. ~survey.thanked =>
           /\ survey'.suggestion = "completed" /\ survey'.thanked
           /\ UNCHANGED <<survey.feedback, survey.channel, survey.started, survey.window>>
           /\ thanks' = thanks + 1
    BY <1>48, <1>2 DEF Asked!Thank, Asked!Guarded, Asked!Survey
  <2>20. TextGoes(h, "idle") => AllGo("thank", "idle") /\ AsksGo("thank", "idle")
    BY <2>1, TextView
  <2>2. YesBefore'
    BY <1>1, <1>5, <2>1, <2>9, <2>20, TicksStay, VotesStay
       DEF AllGo, Goes, AsksGo, Agreeing, Reviving, Requested, Asking, Storing
  <2>3. Blank' /\ ThanksMarked'
    BY <1>1, <1>5, <2>1, <2>9, <2>20, TicksStay, VotesStay
       DEF AllGo, Goes, AsksGo, Agreeing, Reviving, Requested, Asking, Storing
  <2>4. Before'
    BY <1>1, <1>4, <1>6, <2>1, <2>9, <2>20, TicksStay, VotesStay
       DEF AllGo, Goes, AsksGo, Agreeing, Reviving, Requested, Asking, Storing
  <2>5. Standing'
    BY <1>1, <1>4, <1>6, <2>1, <2>9, <2>20, TicksStay, VotesStay
       DEF AllGo, Goes, AsksGo, Agreeing, Reviving, Requested, Asking, Storing
  <2>6. Telling'
    BY <1>1, <1>4, <1>6, <2>1, <2>9, <2>20, TicksStay, VotesStay
       DEF AllGo, Goes, AsksGo, Agreeing, Reviving, Requested, Asking, Storing
  <2> QED
    BY <2>2, <2>3, <2>4, <2>5, <2>6 DEF SurveyRest
<1>49. CASE Asked!Enrol
  <2>1. /\ survey.feedback = "none" /\ survey'.channel = "none"
        /\ \E x \in {"scheduled", "skipped"} : survey'.feedback = x /\ survey'.suggestion = x
        /\ ~survey'.started /\ ~survey'.window /\ ~survey'.thanked
        /\ UNCHANGED <<said, told, thanks, sweep, text, vote, response, web, surveyFaults>>
    BY <1>49, <1>2 DEF Asked!Enrol, Asked!Survey
  <2>2. YesBefore'
    BY <1>1, <1>5, <2>1, TicksStay, TextsStay, VotesStay
  <2>3. Blank' /\ ThanksMarked'
    BY <1>1, <1>5, <2>1, TicksStay, TextsStay, VotesStay
  <2>4. Before'
    BY <1>1, <1>5, <1>4, <1>6, <2>1, TicksStay, TextsStay, VotesStay
  <2>5. Standing'
    BY <1>1, <1>5, <1>4, <1>6, <2>1, TicksStay, TextsStay, VotesStay
  <2>6. Telling'
    BY <1>1, <1>5, <1>4, <1>6, <2>1, TicksStay, TextsStay, VotesStay
  <2> QED
    BY <2>2, <2>3, <2>4, <2>5, <2>6 DEF SurveyRest
<1>50. CASE Asked!OpenOnWeb
  <2>1. /\ survey.feedback = "none" /\ survey'.channel \in {"web", "email"}
        /\ survey'.feedback = "awaiting_web" /\ survey'.suggestion = "awaiting_web"
        /\ ~survey'.started /\ ~survey'.window /\ ~survey'.thanked
        /\ UNCHANGED <<said, told, thanks, sweep, text, vote, response, web, surveyFaults>>
    BY <1>50, <1>2 DEF Asked!OpenOnWeb, Asked!Survey
  <2>2. YesBefore'
    BY <1>1, <1>5, <2>1, TicksStay, TextsStay, VotesStay
  <2>3. Blank' /\ ThanksMarked'
    BY <1>1, <1>5, <2>1, TicksStay, TextsStay, VotesStay
  <2>4. Before'
    BY <1>1, <1>5, <1>4, <1>6, <2>1, TicksStay, TextsStay, VotesStay
  <2>5. Standing'
    BY <1>1, <1>5, <1>4, <1>6, <2>1, TicksStay, TextsStay, VotesStay
  <2>6. Telling'
    BY <1>1, <1>5, <1>4, <1>6, <2>1, TicksStay, TextsStay, VotesStay
  <2> QED
    BY <2>2, <2>3, <2>4, <2>5, <2>6 DEF SurveyRest
<1>51. CASE Asked!Refund
  <2>1. /\ UNCHANGED <<survey, said, told, thanks, sweep, text, vote, response, web, surveyFaults>>
    BY <1>51, <1>2 DEF Asked!Refund
  <2>2. YesBefore'
    BY <1>1, <1>5, <2>1, TicksStay, TextsStay, VotesStay
  <2>3. Blank' /\ ThanksMarked'
    BY <1>1, <1>5, <2>1, TicksStay, TextsStay, VotesStay
  <2>4. Before'
    BY <1>1, <1>5, <1>4, <1>6, <2>1, TicksStay, TextsStay, VotesStay
  <2>5. Standing'
    BY <1>1, <1>5, <1>4, <1>6, <2>1, TicksStay, TextsStay, VotesStay
  <2>6. Telling'
    BY <1>1, <1>5, <1>4, <1>6, <2>1, TicksStay, TextsStay, VotesStay
  <2> QED
    BY <2>2, <2>3, <2>4, <2>5, <2>6 DEF SurveyRest
<1>52. CASE Asked!TenSecondsPass
  <2>1. /\ UNCHANGED <<survey.feedback, survey.suggestion, survey.channel, survey.started,
                       survey.window, survey.thanked>>
        /\ UNCHANGED <<said, told, thanks, sweep, text, vote, response, web, surveyFaults>>
        /\ ~Asking
    BY <1>52, <1>2 DEF Asked!TenSecondsPass, Asked!NoText, Asking, Handles
  <2>2. YesBefore'
    BY <1>1, <1>5, <2>1, TicksStay, TextsStay, VotesStay
  <2>3. Blank' /\ ThanksMarked'
    BY <1>1, <1>5, <2>1, TicksStay, TextsStay, VotesStay
  <2>4. Before'
    BY <1>1, <1>5, <1>4, <1>6, <2>1, TicksStay, TextsStay, VotesStay
  <2>5. Standing'
    BY <1>1, <1>5, <1>4, <1>6, <2>1, TicksStay, TextsStay, VotesStay
  <2>6. Telling'
    BY <1>1, <1>5, <1>4, <1>6, <2>1, TicksStay, TextsStay, VotesStay
  <2> QED
    BY <2>2, <2>3, <2>4, <2>5, <2>6 DEF SurveyRest
<1>53. CASE Asked!Submit
  <2>1. /\ survey.feedback # "none"
        /\ UNCHANGED <<survey, said, told, thanks, sweep, text, vote, response, surveyFaults>>
    BY <1>53, <1>2 DEF Asked!Submit
  <2>2. YesBefore'
    BY <1>1, <1>5, <2>1, TicksStay, TextsStay, VotesStay
  <2>3. Blank' /\ ThanksMarked'
    BY <1>1, <1>5, <2>1, TicksStay, TextsStay, VotesStay
  <2>4. Before'
    BY <1>1, <1>5, <1>4, <1>6, <2>1, TicksStay, TextsStay, VotesStay
  <2>5. Standing'
    BY <1>1, <1>5, <1>4, <1>6, <2>1, TicksStay, TextsStay, VotesStay
  <2>6. Telling'
    BY <1>1, <1>5, <1>4, <1>6, <2>1, TicksStay, TextsStay, VotesStay
  <2> QED
    BY <2>2, <2>3, <2>4, <2>5, <2>6 DEF SurveyRest
<1>54. CASE Asked!StoreAnswers
  <2>7. SweepsStay
    BY <1>54, <1>2, Moved DEF Asked!StoreAnswers, SweepsStay
  <2>1. /\ web.at = "store"
        /\ \/ UNCHANGED survey
           \/ /\ survey'.feedback = "completed" /\ survey'.suggestion = "completed"
              /\ ~survey'.window /\ survey'.thanked
              /\ UNCHANGED <<survey.channel, survey.started, survey.fresh>>
        /\ UNCHANGED <<said, told, thanks, text, vote, surveyFaults>>
    BY <1>54, <1>2 DEF Asked!StoreAnswers, Asked!Survey
  <2>2. YesBefore'
    BY <1>1, <1>5, <2>1, <2>7, TicksStay, TextsStay, VotesStay
  <2>3. Blank' /\ ThanksMarked'
    BY <1>1, <1>5, <2>1, <2>7, TicksStay, TextsStay, VotesStay
  <2>4. Before'
    BY <1>1, <1>5, <1>4, <1>6, <2>1, <2>7, TicksStay, TextsStay, VotesStay
  <2>5. Standing'
    BY <1>1, <1>5, <1>4, <1>6, <2>1, <2>7, TicksStay, TextsStay, VotesStay
  <2>6. Telling'
    BY <1>1, <1>5, <1>4, <1>6, <2>1, <2>7, TicksStay, TextsStay, VotesStay
  <2> QED
    BY <2>2, <2>3, <2>4, <2>5, <2>6 DEF SurveyRest
<1>55. ASSUME NEW v \in Votes, NEW q \in Asked!Polls, Asked!Cast(v, q)
      PROVE  SurveyRest'
  <2>1. /\ vote[v].at = "idle"
        /\ response[q] # "none"
        /\ VotesGo
        /\ UNCHANGED <<survey, said, told, thanks, sweep, text, response, web, surveyFaults>>
    BY <1>55, <1>2 DEF Asked!Cast, VotesGo, VotedEarlier, VoteState
  <2>2. YesBefore'
    BY <1>1, <1>5, <2>1, TextsStay, TicksStay
       DEF VotesGo
  <2>3. Blank' /\ ThanksMarked'
    BY <1>1, <1>5, <2>1, TextsStay, TicksStay
       DEF VotesGo
  <2>4. Before'
    BY <1>1, <1>4, <1>6, <2>1, TextsStay, TicksStay
       DEF VotesGo
  <2>5. Standing'
    BY <1>1, <1>4, <1>6, <2>1, TextsStay, TicksStay
       DEF VotesGo
  <2>6. Telling'
    BY <1>1, <1>4, <1>6, <2>1, TextsStay, TicksStay
       DEF VotesGo
  <2> QED
    BY <2>2, <2>3, <2>4, <2>5, <2>6 DEF SurveyRest
<1>56. ASSUME NEW v \in Votes, Asked!RecordVote(v)
      PROVE  SurveyRest'
  <2>1. /\ vote[v].at = "record"
        /\ VotesGo
        /\ UNCHANGED <<survey, said, told, thanks, sweep, text, web, surveyFaults>>
    BY <1>56, <1>2 DEF Asked!RecordVote, VotesGo, VotedEarlier, VoteState
  <2>2. YesBefore'
    BY <1>1, <1>5, <2>1, TextsStay, TicksStay
       DEF VotesGo
  <2>3. Blank' /\ ThanksMarked'
    BY <1>1, <1>5, <2>1, TextsStay, TicksStay
       DEF VotesGo
  <2>4. Before'
    BY <1>1, <1>4, <1>6, <2>1, TextsStay, TicksStay
       DEF VotesGo
  <2>5. Standing'
    BY <1>1, <1>4, <1>6, <2>1, TextsStay, TicksStay
       DEF VotesGo
  <2>6. Telling'
    BY <1>1, <1>4, <1>6, <2>1, TextsStay, TicksStay
       DEF VotesGo
  <2> QED
    BY <2>2, <2>3, <2>4, <2>5, <2>6 DEF SurveyRest
<1>57. ASSUME NEW v \in Votes, Asked!CountVotes(v)
      PROVE  SurveyRest'
  <2>1. /\ vote[v].at = "count"
        /\ VotesGo
        /\ UNCHANGED <<survey, said, told, thanks, sweep, text, response, web, surveyFaults>>
    BY <1>57, <1>2 DEF Asked!CountVotes, VotesGo, VotedEarlier, VoteState
  <2>2. YesBefore'
    BY <1>1, <1>5, <2>1, TextsStay, TicksStay
       DEF VotesGo
  <2>3. Blank' /\ ThanksMarked'
    BY <1>1, <1>5, <2>1, TextsStay, TicksStay
       DEF VotesGo
  <2>4. Before'
    BY <1>1, <1>4, <1>6, <2>1, TextsStay, TicksStay
       DEF VotesGo
  <2>5. Standing'
    BY <1>1, <1>4, <1>6, <2>1, TextsStay, TicksStay
       DEF VotesGo
  <2>6. Telling'
    BY <1>1, <1>4, <1>6, <2>1, TextsStay, TicksStay
       DEF VotesGo
  <2> QED
    BY <2>2, <2>3, <2>4, <2>5, <2>6 DEF SurveyRest
<1>58. ASSUME NEW v \in Votes, Asked!ApplyVote(v)
      PROVE  SurveyRest'
  <2>7. SweepsStay
    BY <1>58, <1>2, Moved DEF Asked!ApplyVote, Asked!Begun, SweepsStay
  <2>10. VotesGo
    BY <1>58, <1>2 DEF Asked!ApplyVote, VotesGo, VotedEarlier, VoteState
  <2>1. /\ vote[v].at # "idle"
        /\ \/ survey'.feedback = "completed"
           \/ VotedEarlier /\ survey'.feedback = "in_progress"
        /\ UNCHANGED <<survey.suggestion, survey.channel, survey.started, survey.window,
                       survey.thanked, survey.fresh>>
        /\ UNCHANGED <<said, told, thanks, text, response, web, surveyFaults>>
    BY <1>58, <1>2 DEF Asked!ApplyVote, Asked!Begun, Asked!Survey, VotedEarlier
  <2>2. YesBefore'
    BY <1>1, <1>5, <2>1, <2>7, <2>10, TextsStay, TicksStay
       DEF VotesGo
  <2>3. Blank' /\ ThanksMarked'
    BY <1>1, <1>5, <2>1, <2>7, <2>10, TextsStay, TicksStay
       DEF VotesGo
  <2>4. Before'
    BY <1>1, <1>4, <1>6, <2>1, <2>7, <2>10, TextsStay, TicksStay
       DEF VotesGo
  <2>5. Standing'
    BY <1>1, <1>4, <1>6, <2>1, <2>7, <2>10, TextsStay, TicksStay
       DEF VotesGo
  <2>6. Telling'
    BY <1>1, <1>4, <1>6, <2>1, <2>7, <2>10, TextsStay, TicksStay
       DEF VotesGo
  <2> QED
    BY <2>2, <2>3, <2>4, <2>5, <2>6 DEF SurveyRest
<1> QED
  BY <1>1, <1>11, <1>12, <1>13, <1>14, <1>15, <1>16, <1>17, <1>18, <1>19, <1>20, <1>21, <1>22,
       <1>23, <1>24, <1>25, <1>26, <1>27, <1>28, <1>29, <1>30, <1>31, <1>32, <1>33, <1>34, <1>35,
            <1>36, <1>37, <1>38, <1>39, <1>40, <1>41, <1>42, <1>43, <1>44, <1>45, <1>46, <1>47,
                 <1>48, <1>49, <1>50, <1>51, <1>52, <1>53, <1>54, <1>55, <1>56, <1>57, <1>58
     DEF Asked!Next, Asked!Sweep, Asked!Session, Asked!Start, Asked!Reply

\* A tick stays one when a field of it changes.
LEMMA TickFields ==
  ASSUME NEW s \in SweepState
  PROVE  /\ \A x \in SweepPoint : /\ [s EXCEPT !.at = x] \in SweepState
                                  /\ [s EXCEPT !.at = x].at = x
                                  /\ [s EXCEPT !.at = x].question = s.question
                                  /\ [s EXCEPT !.at = x].streak = s.streak
         /\ \A x \in 0..Questions : /\ [s EXCEPT !.question = x] \in SweepState
                                    /\ [s EXCEPT !.question = x].at = s.at
                                    /\ [s EXCEPT !.question = x].question = x
                                    /\ [s EXCEPT !.question = x].streak = s.streak
         /\ \A x \in 0..2 : /\ [s EXCEPT !.streak = x] \in SweepState
                            /\ [s EXCEPT !.streak = x].at = s.at
                            /\ [s EXCEPT !.streak = x].question = s.question
                            /\ [s EXCEPT !.streak = x].streak = x
         /\ \A x \in BOOLEAN : /\ [s EXCEPT !.overdue = x] \in SweepState
                               /\ [s EXCEPT !.overdue = x].at = s.at
BY DEF SweepState

\* Ticks that are right stay right when the others learn that the session moved.
LEMMA SweepSet ==
  ASSUME NEW t \in [Sweepers -> SweepState], sweep' = t \/ sweep' = Asked!Move(t),
         \A q \in Sweepers :
            /\ t[q].at \in {"poll", "record", "watch"} => t[q].streak <= 1
            /\ t[q].at \in {"poll", "record"} => t[q].question < Questions
  PROVE  SweepFine'
BY Moved DEF SweepFine

\* One process's tick goes on.
LEMMA TickFine ==
  ASSUME SweepFine, NEW p \in Sweepers, NEW s \in SweepState,
         s.at \in {"poll", "record", "watch"} => s.streak <= 1,
         s.at \in {"poll", "record"} => s.question < Questions,
         NEW t, t = [sweep EXCEPT ![p] = s], sweep' = t \/ sweep' = Asked!Move(t)
  PROVE  SweepFine'
<1>1. /\ t \in [Sweepers -> SweepState]
      /\ \A q \in Sweepers :
            /\ t[q].at \in {"poll", "record", "watch"} => t[q].streak <= 1
            /\ t[q].at \in {"poll", "record"} => t[q].question < Questions
  BY DEF SweepFine
<1> QED
  BY <1>1, SweepSet

\* An idle tick.
LEMMA NoTickFine == Asked!NoTick \in SweepState /\ Asked!NoTick.at = "idle"
BY SurveyAssumption DEF Asked!NoTick, SweepState, SweepPoint

\* A tick that goes on without a poll in hand.
LEMMA StartFine ==
  ASSUME SweepFine, NEW p \in Sweepers
  PROVE  /\ \A x \in SweepPoint \ {"poll", "record", "watch"} :
               LET t == [sweep EXCEPT ![p] = [Asked!NoTick EXCEPT !.at = x]]
               IN  /\ sweep' = t => SweepFine'
                   /\ sweep' = Asked!Move(t) => SweepFine'
         /\ LET t == [sweep EXCEPT ![p] = Asked!NoTick]
            IN  /\ sweep' = t => SweepFine'
                /\ sweep' = Asked!Move(t) => SweepFine'
<1>3. ASSUME NEW s \in SweepState, s.at \notin {"poll", "record", "watch"}
      PROVE  LET t == [sweep EXCEPT ![p] = s]
             IN  /\ sweep' = t => SweepFine'
                 /\ sweep' = Asked!Move(t) => SweepFine'
  BY <1>3, TickFine
<1>4. ASSUME NEW x \in SweepPoint \ {"poll", "record", "watch"}
      PROVE  LET t == [sweep EXCEPT ![p] = [Asked!NoTick EXCEPT !.at = x]]
             IN  /\ sweep' = t => SweepFine'
                 /\ sweep' = Asked!Move(t) => SweepFine'
  <2>1. [Asked!NoTick EXCEPT !.at = x] \in SweepState /\ [Asked!NoTick EXCEPT !.at = x].at = x
    BY NewTick
  <2> QED
    BY <2>1, <1>3
<1> QED
  BY <1>3, <1>4, NoTickFine

\* A new survey is one.
LEMMA NewSurvey ==
  ASSUME NEW x \in Asked!FeedbackStatus, NEW y \in Asked!SuggestionStatus,
         NEW z \in {"none", "whatsapp", "email", "web"}
  PROVE  /\ [Asked!NoSurvey EXCEPT !.feedback = x, !.suggestion = y] \in Asked!Survey
         /\ [Asked!NoSurvey EXCEPT !.feedback = x, !.suggestion = y].feedback = x
         /\ [Asked!NoSurvey EXCEPT !.feedback = x, !.suggestion = y, !.channel = z]
               \in Asked!Survey
         /\ [Asked!NoSurvey EXCEPT !.feedback = x, !.suggestion = y, !.channel = z].feedback = x
<1>1. Asked!NoSurvey \in Asked!Survey
  BY SurveyAssumption DEF Asked!NoSurvey, Asked!Survey
<1>2. ASSUME NEW s \in Asked!Survey
      PROVE  [s EXCEPT !.feedback = x] \in Asked!Survey /\ [s EXCEPT !.feedback = x].feedback = x
  BY SurveyFields DEF Asked!Survey
<1>3. ASSUME NEW s \in Asked!Survey, s.feedback = x
      PROVE  /\ [s EXCEPT !.suggestion = y] \in Asked!Survey
             /\ [s EXCEPT !.suggestion = y].feedback = x
             /\ [s EXCEPT !.channel = z] \in Asked!Survey
             /\ [s EXCEPT !.channel = z].feedback = x
  BY <1>3, SurveyFields DEF Asked!Survey
<1> DEFINE a == [Asked!NoSurvey EXCEPT !.feedback = x]
           b == [a EXCEPT !.suggestion = y]
           c == [b EXCEPT !.channel = z]
<1>4. a \in Asked!Survey /\ a.feedback = x
  BY <1>1, <1>2
<1>5. b \in Asked!Survey /\ b.feedback = x
  <2> HIDE DEF a
  <2> QED
    BY <1>3, <1>4
<1>6. c \in Asked!Survey /\ c.feedback = x
  <2> HIDE DEF b
  <2> QED
    BY <1>3, <1>5
<1> QED
  BY <1>5, <1>6

\* A reply or a vote moves the session under the ticks.
LEMMA MovedFine == SweepFine /\ sweep' = Asked!Move(sweep) => SweepFine'
BY Moved DEF SweepFine

\* Every step keeps the types and the bounds on silent polls.
LEMMA SurveyTypesKept == SurveyTypes /\ Asked!Next => SurveyTypes'
<1>1. SUFFICES ASSUME SurveyTypes, Asked!Next
      PROVE  SurveyTypes'
  OBVIOUS
<1>2. /\ SurveyFine /\ SweepFine /\ VoteFine
      /\ survey \in Asked!Survey /\ sweep \in [Sweepers -> SweepState]
      /\ vote \in [Votes -> VoteState]
      /\ response \in [Asked!Polls -> {"none", "sent", "answered"}]
      /\ eligible \in BOOLEAN
      /\ text \in [Texts -> TextState] /\ web \in WebState /\ said \in SaidState
      /\ surveyFaults \in 0..MaxFaults /\ told \subseteq Said /\ thanks \in Nat
  BY <1>1 DEF SurveyTypes, SurveyFine, SweepFine, VoteFine
<1>4. Questions \in Nat /\ MaxFaults \in Nat
  BY SurveyAssumption, GroupAssumption
<1>5. 0 \in 0..2 /\ 0 \in 0..Questions
  BY <1>4
<1>6. /\ survey.feedback = "in_progress" => survey.streak <= 1
      /\ \A p \in Sweepers : sweep[p].streak \in 0..2
      /\ \A p \in Sweepers :
            /\ sweep[p].at \in {"poll", "record", "watch"} => sweep[p].streak <= 1
            /\ sweep[p].at \in {"poll", "record"} => sweep[p].question < Questions
      /\ survey.suggestion \in Asked!SuggestionStatus \cup {"none"}
  BY <1>2 DEF SurveyFine, SweepFine, SweepState, Asked!Survey
<1>7. \A p \in Sweepers : sweep[p].question \in 0..Questions
  BY <1>2 DEF SweepState
<1>8. /\ \A p \in Sweepers : sweep[p] \in SweepState
      /\ survey.question \in 0..Questions /\ survey.streak \in 0..2
  BY <1>2 DEF Asked!Survey
<1> USE DEF Asked!At, Asked!GoOn, Asked!Keep, Asked!Return, Asked!handlers, Asked!Exists, Asked!history
<1>11. ASSUME NEW p \in Sweepers, Asked!ReadPaused(p)
      PROVE  SurveyTypes'
  <2>1. UNCHANGED <<survey, response, eligible, text, vote, web, surveyFaults, said, told, thanks>>
    BY <1>11 DEF Asked!ReadPaused
  <2>2. SweepFine'
    <3>1. PICK x \in {"unpause", "window"}, y \in BOOLEAN :
            sweep' = [sweep EXCEPT ![p] = [Asked!NoTick EXCEPT !.at = x, !.overdue = y]]
      BY <1>11 DEF Asked!ReadPaused
    <3> DEFINE a == [Asked!NoTick EXCEPT !.at = x]
               b == [a EXCEPT !.overdue = y]
    <3>2. a \in SweepState /\ a.at = x
      BY NewTick DEF SweepPoint
    <3>3. b \in SweepState /\ b.at = x
      BY <3>2, TickFields
    <3>4. sweep' = [sweep EXCEPT ![p] = b]
      BY <3>1
    <3> HIDE DEF b
    <3> QED
      BY <1>2, <3>3, <3>4, TickFine
  <2> QED
    BY <1>2, <2>1, <2>2 DEF SurveyTypes, SurveyFine, SweepFine, VoteFine
<1>12. ASSUME NEW p \in Sweepers, Asked!ExpirePaused(p)
      PROVE  SurveyTypes'
  <2>1. UNCHANGED <<response, eligible, text, vote, web, surveyFaults, said, told, thanks>>
    BY <1>12 DEF Asked!ExpirePaused, Asked!Statement
  <2>2. SurveyFine'
    <3> DEFINE a == [survey EXCEPT !.feedback = "expired"]
               b == [a EXCEPT !.next = FALSE]
               c == [b EXCEPT !.suggestion = IF sweep[p].overdue THEN "skipped" ELSE @]
    <3>1. a \in Asked!Survey
      BY <1>2, SurveyFields DEF Asked!FeedbackStatus
    <3>2. b \in Asked!Survey
      BY <3>1, SurveyFields
    <3>20. (IF sweep[p].overdue THEN "skipped" ELSE b.suggestion)
            \in Asked!SuggestionStatus \cup {"none"}
      BY <3>2 DEF Asked!Survey, Asked!SuggestionStatus
    <3>3. c \in Asked!Survey
      BY <3>2, SurveyFields, <3>20 DEF Asked!SuggestionStatus
    <3>9. survey' = c \/ survey' = survey
      BY <1>12 DEF Asked!ExpirePaused, Asked!Statement
    <3>10. survey' \in Asked!Survey
      BY <1>2, <3>9, <3>3
    <3>11. survey'.feedback = "in_progress" => survey'.streak <= 1
      BY <1>12, <1>2, <1>6 DEF Asked!ExpirePaused, Asked!Statement, Asked!Survey
    <3> QED
      BY <3>10, <3>11 DEF SurveyFine
  <2>3. SweepFine'
    BY <1>12, <1>2, <1>8, StartFine DEF Asked!ExpirePaused, Asked!Statement, SweepPoint
  <2> QED
    BY <1>2, <2>1, <2>2, <2>3 DEF SurveyTypes, SurveyFine, SweepFine, VoteFine
<1>13. ASSUME NEW p \in Sweepers, Asked!ExpireReply(p)
      PROVE  SurveyTypes'
  <2>1. UNCHANGED <<response, eligible, text, vote, web, surveyFaults, said, told, thanks>>
    BY <1>13 DEF Asked!ExpireReply, Asked!Statement
  <2>2. SurveyFine'
    <3> DEFINE a == [survey EXCEPT !.suggestion = "expired"]
    <3>1. a \in Asked!Survey
      BY <1>2, SurveyFields DEF Asked!SuggestionStatus
    <3>9. survey' = a \/ survey' = survey
      BY <1>13 DEF Asked!ExpireReply, Asked!Statement
    <3>10. survey' \in Asked!Survey
      BY <1>2, <3>9, <3>1
    <3>11. survey'.feedback = "in_progress" => survey'.streak <= 1
      BY <1>13, <1>2, <1>6 DEF Asked!ExpireReply, Asked!Statement, Asked!Survey
    <3> QED
      BY <3>10, <3>11 DEF SurveyFine
  <2>3. SweepFine'
    BY <1>13, <1>2, <1>8, StartFine DEF Asked!ExpireReply, Asked!Statement, SweepPoint
  <2> QED
    BY <1>2, <2>1, <2>2, <2>3 DEF SurveyTypes, SurveyFine, SweepFine, VoteFine
<1>14. ASSUME NEW p \in Sweepers, Asked!SkipSilent(p)
      PROVE  SurveyTypes'
  <2>1. UNCHANGED <<response, eligible, text, vote, web, surveyFaults, said, told, thanks>>
    BY <1>14 DEF Asked!SkipSilent
  <2>2. SurveyFine'
    <3> DEFINE a == [survey EXCEPT !.suggestion = "skipped"]
    <3>1. a \in Asked!Survey
      BY <1>2, SurveyFields DEF Asked!SuggestionStatus
    <3>9. survey' = a \/ survey' = survey
      BY <1>14 DEF Asked!SkipSilent
    <3>10. survey' \in Asked!Survey
      BY <1>2, <3>9, <3>1
    <3>11. survey'.feedback = "in_progress" => survey'.streak <= 1
      BY <1>14, <1>2, <1>6 DEF Asked!SkipSilent, Asked!Survey
    <3> QED
      BY <3>10, <3>11 DEF SurveyFine
  <2>3. SweepFine'
    <3>1. PICK y \in BOOLEAN :
            sweep' = [sweep EXCEPT ![p] = [Asked!NoTick EXCEPT !.at = "silent", !.overdue = y]]
      BY <1>14 DEF Asked!SkipSilent
    <3> DEFINE a == [Asked!NoTick EXCEPT !.at = "silent"]
               b == [a EXCEPT !.overdue = y]
    <3>2. a \in SweepState /\ a.at = "silent"
      BY NewTick DEF SweepPoint
    <3>3. b \in SweepState /\ b.at = "silent"
      BY <3>2, TickFields
    <3>4. sweep' = [sweep EXCEPT ![p] = b]
      BY <3>1
    <3> HIDE DEF b
    <3> QED
      BY <1>2, <3>3, <3>4, TickFine
  <2> QED
    BY <1>2, <2>1, <2>2, <2>3 DEF SurveyTypes, SurveyFine, SweepFine, VoteFine
<1>15. ASSUME NEW p \in Sweepers, Asked!ExpireSilent(p)
      PROVE  SurveyTypes'
  <2>1. UNCHANGED <<response, eligible, text, vote, web, surveyFaults, said, told, thanks>>
    BY <1>15 DEF Asked!ExpireSilent, Asked!Statement
  <2>2. SurveyFine'
    <3> DEFINE a == [survey EXCEPT !.feedback = "expired"]
               b == [a EXCEPT !.next = FALSE]
    <3>1. a \in Asked!Survey
      BY <1>2, SurveyFields DEF Asked!FeedbackStatus
    <3>2. b \in Asked!Survey
      BY <3>1, SurveyFields
    <3>9. survey' = b \/ survey' = survey
      BY <1>15 DEF Asked!ExpireSilent, Asked!Statement
    <3>10. survey' \in Asked!Survey
      BY <1>2, <3>9, <3>2
    <3>11. survey'.feedback = "in_progress" => survey'.streak <= 1
      BY <1>15, <1>2, <1>6 DEF Asked!ExpireSilent, Asked!Statement, Asked!Survey
    <3> QED
      BY <3>10, <3>11 DEF SurveyFine
  <2>3. SweepFine'
    BY <1>15, <1>2, <1>8, StartFine DEF Asked!ExpireSilent, Asked!Statement, SweepPoint
  <2> QED
    BY <1>2, <2>1, <2>2, <2>3 DEF SurveyTypes, SurveyFine, SweepFine, VoteFine
<1>16. ASSUME NEW p \in Sweepers, Asked!ExpireAskSilent(p)
      PROVE  SurveyTypes'
  <2>1. UNCHANGED <<response, eligible, text, vote, web, surveyFaults, said, told, thanks>>
    BY <1>16 DEF Asked!ExpireAskSilent, Asked!Statement
  <2>2. SurveyFine'
    <3> DEFINE a == [survey EXCEPT !.suggestion = "expired"]
    <3>1. a \in Asked!Survey
      BY <1>2, SurveyFields DEF Asked!SuggestionStatus
    <3>9. survey' = a \/ survey' = survey
      BY <1>16 DEF Asked!ExpireAskSilent, Asked!Statement
    <3>10. survey' \in Asked!Survey
      BY <1>2, <3>9, <3>1
    <3>11. survey'.feedback = "in_progress" => survey'.streak <= 1
      BY <1>16, <1>2, <1>6 DEF Asked!ExpireAskSilent, Asked!Statement, Asked!Survey
    <3> QED
      BY <3>10, <3>11 DEF SurveyFine
  <2>3. SweepFine'
    BY <1>16, <1>2, <1>8, StartFine DEF Asked!ExpireAskSilent, Asked!Statement, SweepPoint
  <2> QED
    BY <1>2, <2>1, <2>2, <2>3 DEF SurveyTypes, SurveyFine, SweepFine, VoteFine
<1>17. ASSUME NEW p \in Sweepers, Asked!ExpireStuck(p)
      PROVE  SurveyTypes'
  <2>1. UNCHANGED <<response, eligible, text, vote, web, surveyFaults, said, told, thanks>>
    BY <1>17 DEF Asked!ExpireStuck, Asked!Statement
  <2>2. SurveyFine'
    <3> DEFINE a == [survey EXCEPT !.feedback = "expired"]
               b == [a EXCEPT !.next = FALSE]
    <3>1. a \in Asked!Survey
      BY <1>2, SurveyFields DEF Asked!FeedbackStatus
    <3>2. b \in Asked!Survey
      BY <3>1, SurveyFields
    <3>9. survey' = b \/ survey' = survey
      BY <1>17 DEF Asked!ExpireStuck, Asked!Statement
    <3>10. survey' \in Asked!Survey
      BY <1>2, <3>9, <3>2
    <3>11. survey'.feedback = "in_progress" => survey'.streak <= 1
      BY <1>17, <1>2, <1>6 DEF Asked!ExpireStuck, Asked!Statement, Asked!Survey
    <3> QED
      BY <3>10, <3>11 DEF SurveyFine
  <2>3. SweepFine'
    BY <1>17, <1>2, <1>8, StartFine DEF Asked!ExpireStuck, Asked!Statement, SweepPoint
  <2> QED
    BY <1>2, <2>1, <2>2, <2>3 DEF SurveyTypes, SurveyFine, SweepFine, VoteFine
<1>18. ASSUME NEW p \in Sweepers, Asked!Advance(p)
      PROVE  SurveyTypes'
  <2>1. UNCHANGED <<survey, response, eligible, text, vote, web, surveyFaults, said, told, thanks>>
    BY <1>18 DEF Asked!Advance
  <2>2. SweepFine'
    <3> DEFINE streak == IF Asked!Silent THEN survey.streak + 1 ELSE survey.streak
               point == IF Asked!Pauses(streak) THEN "pause"
                        ELSE IF survey.question >= Questions THEN "watch" ELSE "poll"
               a == [Asked!NoTick EXCEPT !.at = point]
               b == [a EXCEPT !.question = survey.question]
               c == [b EXCEPT !.streak = streak]
    <3>1. streak \in 0..2
      BY <1>18, <1>6, <1>8 DEF Asked!Advance
    <3>2. /\ point \in {"pause", "watch", "poll"}
          /\ point # "pause" => streak <= 1
          /\ point = "poll" => survey.question < Questions
      BY <1>18, <1>4, <1>6, <1>8, <3>1 DEF Asked!Advance, Asked!Pauses
    <3>3. sweep' = [sweep EXCEPT ![p] = c]
      BY <1>18 DEF Asked!Advance
    <3> HIDE DEF streak, point
    <3>4. a \in SweepState /\ a.at = point
      BY <3>2, NewTick DEF SweepPoint
    <3>5. b \in SweepState /\ b.at = point /\ b.question = survey.question
      BY <3>4, <1>8, TickFields
    <3>6. c \in SweepState /\ c.at = point /\ c.question = survey.question /\ c.streak = streak
      BY <3>1, <3>5, TickFields
    <3> HIDE DEF c
    <3> QED
      BY <1>2, <3>2, <3>3, <3>6, TickFine
  <2> QED
    BY <1>2, <2>1, <2>2 DEF SurveyTypes, SurveyFine, SweepFine, VoteFine
<1>19. ASSUME NEW p \in Sweepers, Asked!NoneToAdvance(p)
      PROVE  SurveyTypes'
  <2>1. UNCHANGED <<survey, response, eligible, text, vote, web, surveyFaults, said, told, thanks>>
    BY <1>19 DEF Asked!NoneToAdvance
  <2>2. SweepFine'
    BY <1>19, <1>2, <1>8, StartFine DEF Asked!NoneToAdvance, SweepPoint
  <2> QED
    BY <1>2, <2>1, <2>2 DEF SurveyTypes, SurveyFine, SweepFine, VoteFine
<1>20. ASSUME NEW p \in Sweepers, Asked!Pause(p)
      PROVE  SurveyTypes'
  <2>1. UNCHANGED <<response, eligible, text, vote, web, surveyFaults, said, told, thanks>>
    BY <1>20 DEF Asked!Pause
  <2>2. SurveyFine'
    <3> DEFINE a == [survey EXCEPT !.feedback = "paused"]
               b == [a EXCEPT !.streak = sweep[p].streak]
               c == [b EXCEPT !.next = FALSE]
    <3>1. a \in Asked!Survey
      BY <1>2, SurveyFields DEF Asked!FeedbackStatus
    <3>2. b \in Asked!Survey
      BY <3>1, SurveyFields, <1>4, <1>6
    <3>3. c \in Asked!Survey
      BY <3>2, SurveyFields
    <3>9. survey' = c \/ survey' = survey
      BY <1>20 DEF Asked!Pause
    <3>10. survey' \in Asked!Survey
      BY <1>2, <3>9, <3>3
    <3>11. survey'.feedback = "in_progress" => survey'.streak <= 1
      BY <1>20, <1>2, <1>6 DEF Asked!Pause, Asked!Survey
    <3> QED
      BY <3>10, <3>11 DEF SurveyFine
  <2>3. SweepFine'
    BY <1>20, <1>2, StartFine DEF Asked!Pause, SweepPoint
  <2> QED
    BY <1>2, <2>1, <2>2, <2>3 DEF SurveyTypes, SurveyFine, SweepFine, VoteFine
<1>21. ASSUME NEW p \in Sweepers, Asked!Watch(p)
      PROVE  SurveyTypes'
  <2>1. UNCHANGED <<response, eligible, text, vote, web, surveyFaults, said, told, thanks>>
    BY <1>21 DEF Asked!Watch
  <2>2. SurveyFine'
    <3> DEFINE a == [survey EXCEPT !.streak = sweep[p].streak]
               b == [a EXCEPT !.next = TRUE]
    <3>1. a \in Asked!Survey
      BY <1>2, SurveyFields, <1>4, <1>6
    <3>2. b \in Asked!Survey
      BY <3>1, SurveyFields
    <3>9. survey' = b \/ survey' = survey
      BY <1>21 DEF Asked!Watch
    <3>10. survey' \in Asked!Survey
      BY <1>2, <3>9, <3>2
    <3>11. survey'.feedback = "in_progress" => survey'.streak <= 1
      BY <1>21, <1>2, <1>6 DEF Asked!Watch, Asked!Survey
    <3> QED
      BY <3>10, <3>11 DEF SurveyFine
  <2>3. SweepFine'
    BY <1>21, <1>2, StartFine DEF Asked!Watch, SweepPoint
  <2> QED
    BY <1>2, <2>1, <2>2, <2>3 DEF SurveyTypes, SurveyFine, SweepFine, VoteFine
<1>22. ASSUME NEW p \in Sweepers, Asked!SendPoll(p)
      PROVE  SurveyTypes'
  <2>1. UNCHANGED <<survey, response, eligible, text, vote, web, said, thanks>>
    BY <1>22 DEF Asked!SendPoll
  <2>2. SweepFine'
    <3>1. CASE Asked!Keep(p, "record")
      <4> DEFINE a == [sweep[p] EXCEPT !.at = "record"]
      <4>1. sweep[p] \in SweepState
        BY <1>8
      <4>2. /\ a \in SweepState /\ a.at = "record"
            /\ a.question = sweep[p].question /\ a.streak = sweep[p].streak
        <5>1. "record" \in SweepPoint
          BY DEF SweepPoint
        <5> QED
          BY <4>1, <5>1, TickFields
      <4>3. sweep[p].streak <= 1 /\ sweep[p].question < Questions
        BY <1>22, <1>6 DEF Asked!SendPoll
      <4>4. sweep' = [sweep EXCEPT ![p] = a]
        BY <3>1
      <4> HIDE DEF a
      <4> QED
        BY <1>2, <4>2, <4>3, <4>4, TickFine
    <3>2. CASE Asked!GoOn(p, "defer")
      BY <3>2, <1>2, StartFine DEF SweepPoint
    <3> QED
      BY <1>22, <3>1, <3>2 DEF Asked!SendPoll
  <2>3. (surveyFaults \in 0..MaxFaults)'
    BY <1>22, <1>2, <1>4 DEF Asked!SendPoll
  <2>4. (told \subseteq Said)'
    BY <1>22, <1>2 DEF Asked!SendPoll, Asked!Send, Said
  <2> QED
    BY <1>2, <2>1, <2>2, <2>3, <2>4 DEF SurveyTypes, SurveyFine, SweepFine, VoteFine
<1>23. ASSUME NEW p \in Sweepers, Asked!RecordPoll(p)
      PROVE  SurveyTypes'
  <2>1. UNCHANGED <<eligible, text, vote, web, surveyFaults, said, told, thanks>>
    BY <1>23 DEF Asked!RecordPoll
  <2>2. SweepFine'
    BY <1>23, <1>2, StartFine DEF Asked!RecordPoll, SweepPoint
  <2>3. (response \in [Asked!Polls -> {"none", "sent", "answered"}])'
    BY <1>23, <1>2 DEF Asked!RecordPoll
  <2>4. SurveyFine'
    <3> DEFINE a == [survey EXCEPT !.question = sweep[p].question + 1]
               b == [a EXCEPT !.streak = sweep[p].streak]
               c == [b EXCEPT !.next = TRUE]
    <3>20. sweep[p].question + 1 \in 0..Questions /\ sweep[p].streak \in 0..2
      BY <1>23, <1>2, <1>4, <1>6, <1>7 DEF Asked!RecordPoll
    <3>1. a \in Asked!Survey
      BY <1>2, SurveyFields, <1>4, <3>20
    <3>2. b \in Asked!Survey
      BY <3>1, SurveyFields, <1>4, <3>20
    <3>3. c \in Asked!Survey
      BY <3>2, SurveyFields
    <3>9. survey' = c \/ survey' = survey
      BY <1>23 DEF Asked!RecordPoll
    <3>10. survey' \in Asked!Survey
      BY <1>2, <3>9, <3>3
    <3>11. survey'.feedback = "in_progress" => survey'.streak <= 1
      BY <1>23, <1>2, <1>6 DEF Asked!RecordPoll, Asked!Survey
    <3> QED
      BY <3>10, <3>11 DEF SurveyFine
  <2> QED
    BY <1>2, <2>1, <2>2, <2>3, <2>4 DEF SurveyTypes, SurveyFine, SweepFine, VoteFine
<1>24. ASSUME NEW p \in Sweepers, Asked!DeferPoll(p)
      PROVE  SurveyTypes'
  <2>1. UNCHANGED <<response, eligible, text, vote, web, surveyFaults, said, told, thanks>>
    BY <1>24 DEF Asked!DeferPoll
  <2>2. SurveyFine'
    <3> DEFINE a == [survey EXCEPT !.next = TRUE]
    <3>1. a \in Asked!Survey
      BY <1>2, SurveyFields
    <3>9. survey' = a \/ survey' = survey
      BY <1>24 DEF Asked!DeferPoll
    <3>10. survey' \in Asked!Survey
      BY <1>2, <3>9, <3>1
    <3>11. survey'.feedback = "in_progress" => survey'.streak <= 1
      BY <1>24, <1>2, <1>6 DEF Asked!DeferPoll, Asked!Survey
    <3> QED
      BY <3>10, <3>11 DEF SurveyFine
  <2>3. SweepFine'
    BY <1>24, <1>2, StartFine DEF Asked!DeferPoll, SweepPoint
  <2> QED
    BY <1>2, <2>1, <2>2, <2>3 DEF SurveyTypes, SurveyFine, SweepFine, VoteFine
<1>25. ASSUME NEW p \in Sweepers, Asked!StartNext(p)
      PROVE  SurveyTypes'
  <2>1. UNCHANGED <<survey, response, eligible, text, vote, web, surveyFaults, said, told, thanks>>
    BY <1>25 DEF Asked!StartNext, Asked!FeedbackDue, Asked!SuggestionDue, Asked!Refusing
  <2>2. SweepFine'
    BY <1>25, <1>2, <1>8, StartFine DEF Asked!StartNext, Asked!FeedbackDue, Asked!SuggestionDue,
         Asked!Refusing, SweepPoint
  <2> QED
    BY <1>2, <2>1, <2>2 DEF SurveyTypes, SurveyFine, SweepFine, VoteFine
<1>26. ASSUME NEW p \in Sweepers, Asked!MarkSkipped(p)
      PROVE  SurveyTypes'
  <2>1. UNCHANGED <<response, eligible, text, vote, web, surveyFaults, said, told, thanks>>
    BY <1>26 DEF Asked!MarkSkipped
  <2>2. SurveyFine'
    <3> DEFINE a == [survey EXCEPT !.feedback = "skipped"]
               b == [a EXCEPT !.suggestion = "skipped"]
               c == [b EXCEPT !.next = FALSE]
    <3>1. a \in Asked!Survey
      BY <1>2, SurveyFields DEF Asked!FeedbackStatus
    <3>2. b \in Asked!Survey
      BY <3>1, SurveyFields DEF Asked!SuggestionStatus
    <3>3. c \in Asked!Survey
      BY <3>2, SurveyFields
    <3>9. survey' = c \/ survey' = survey
      BY <1>26 DEF Asked!MarkSkipped
    <3>10. survey' \in Asked!Survey
      BY <1>2, <3>9, <3>3
    <3>11. survey'.feedback = "in_progress" => survey'.streak <= 1
      BY <1>26, <1>2, <1>6 DEF Asked!MarkSkipped, Asked!Survey
    <3> QED
      BY <3>10, <3>11 DEF SurveyFine
  <2>3. SweepFine'
    BY <1>26, <1>2, StartFine DEF Asked!MarkSkipped, SweepPoint
  <2> QED
    BY <1>2, <2>1, <2>2, <2>3 DEF SurveyTypes, SurveyFine, SweepFine, VoteFine
<1>27. ASSUME NEW p \in Sweepers, Asked!OpenFeedback(p)
      PROVE  SurveyTypes'
  <2>1. UNCHANGED <<survey, response, eligible, text, vote, web, said, thanks>>
    BY <1>27 DEF Asked!OpenFeedback
  <2>2. SweepFine'
    BY <1>27, <1>2, <1>8, StartFine DEF Asked!OpenFeedback, SweepPoint
  <2>3. (surveyFaults \in 0..MaxFaults)'
    BY <1>27, <1>2, <1>4 DEF Asked!OpenFeedback
  <2>4. (told \subseteq Said)'
    BY <1>27, <1>2 DEF Asked!OpenFeedback, Asked!Send, Said
  <2> QED
    BY <1>2, <2>1, <2>2, <2>3, <2>4 DEF SurveyTypes, SurveyFine, SweepFine, VoteFine
<1>28. ASSUME NEW p \in Sweepers, Asked!SaveOpened(p)
      PROVE  SurveyTypes'
  <2>1. UNCHANGED <<response, eligible, text, vote, web, surveyFaults, said, told, thanks>>
    BY <1>28 DEF Asked!SaveOpened
  <2>2. SurveyFine'
    <3> DEFINE a == [survey EXCEPT !.channel = "whatsapp"]
               b == [a EXCEPT !.feedback = "awaiting_consent"]
               c == [b EXCEPT !.started = TRUE]
               d == [c EXCEPT !.streak = 0]
               e == [d EXCEPT !.next = TRUE]
    <3>1. a \in Asked!Survey
      BY <1>2, SurveyFields
    <3>2. b \in Asked!Survey
      BY <3>1, SurveyFields DEF Asked!FeedbackStatus
    <3>3. c \in Asked!Survey
      BY <3>2, SurveyFields
    <3>4. d \in Asked!Survey
      BY <3>3, SurveyFields, <1>5
    <3>5. e \in Asked!Survey
      BY <3>4, SurveyFields
    <3>9. survey' = e \/ survey' = survey
      BY <1>28 DEF Asked!SaveOpened
    <3>10. survey' \in Asked!Survey
      BY <1>2, <3>9, <3>5
    <3>11. survey'.feedback = "in_progress" => survey'.streak <= 1
      BY <1>28, <1>2, <1>6 DEF Asked!SaveOpened, Asked!Survey
    <3> QED
      BY <3>10, <3>11 DEF SurveyFine
  <2>3. SweepFine'
    BY <1>28, <1>2, StartFine DEF Asked!SaveOpened, SweepPoint
  <2> QED
    BY <1>2, <2>1, <2>2, <2>3 DEF SurveyTypes, SurveyFine, SweepFine, VoteFine
<1>29. ASSUME NEW p \in Sweepers, Asked!Mail(p)
      PROVE  SurveyTypes'
  <2>1. UNCHANGED <<survey, response, eligible, text, vote, web, surveyFaults, said, thanks>>
    BY <1>29 DEF Asked!Mail
  <2>2. SweepFine'
    BY <1>29, <1>2, <1>8, StartFine DEF Asked!Mail, SweepPoint
  <2>3. (told \subseteq Said)'
    BY <1>29, <1>2 DEF Asked!Mail, Asked!Send, Said
  <2> QED
    BY <1>2, <2>1, <2>2, <2>3 DEF SurveyTypes, SurveyFine, SweepFine, VoteFine
<1>30. ASSUME NEW p \in Sweepers, Asked!SaveMailed(p)
      PROVE  SurveyTypes'
  <2>1. UNCHANGED <<response, eligible, text, vote, web, surveyFaults, said, told, thanks>>
    BY <1>30 DEF Asked!SaveMailed
  <2>2. SurveyFine'
    <3> DEFINE a == [survey EXCEPT !.channel = "email"]
               b == [a EXCEPT !.feedback = "awaiting_web"]
               c == [b EXCEPT !.suggestion = "awaiting_web"]
    <3>1. a \in Asked!Survey
      BY <1>2, SurveyFields
    <3>2. b \in Asked!Survey
      BY <3>1, SurveyFields DEF Asked!FeedbackStatus
    <3>3. c \in Asked!Survey
      BY <3>2, SurveyFields DEF Asked!SuggestionStatus
    <3>9. survey' = c \/ survey' = survey
      BY <1>30 DEF Asked!SaveMailed
    <3>10. survey' \in Asked!Survey
      BY <1>2, <3>9, <3>3
    <3>11. survey'.feedback = "in_progress" => survey'.streak <= 1
      BY <1>30, <1>2, <1>6 DEF Asked!SaveMailed, Asked!Survey
    <3> QED
      BY <3>10, <3>11 DEF SurveyFine
  <2>3. SweepFine'
    BY <1>30, <1>2, <1>8, StartFine DEF Asked!SaveMailed, SweepPoint
  <2> QED
    BY <1>2, <2>1, <2>2, <2>3 DEF SurveyTypes, SurveyFine, SweepFine, VoteFine
<1>31. ASSUME NEW p \in Sweepers, Asked!OpenSuggestion(p)
      PROVE  SurveyTypes'
  <2>1. UNCHANGED <<survey, response, eligible, text, vote, web, said, thanks>>
    BY <1>31 DEF Asked!OpenSuggestion
  <2>2. SweepFine'
    BY <1>31, <1>2, <1>8, StartFine DEF Asked!OpenSuggestion, SweepPoint
  <2>3. (surveyFaults \in 0..MaxFaults)'
    BY <1>31, <1>2, <1>4 DEF Asked!OpenSuggestion
  <2>4. (told \subseteq Said)'
    BY <1>31, <1>2 DEF Asked!OpenSuggestion, Asked!Send, Said
  <2> QED
    BY <1>2, <2>1, <2>2, <2>3, <2>4 DEF SurveyTypes, SurveyFine, SweepFine, VoteFine
<1>32. ASSUME NEW p \in Sweepers, Asked!SaveOpenedAsk(p)
      PROVE  SurveyTypes'
  <2>1. UNCHANGED <<response, eligible, text, vote, web, surveyFaults, said, told, thanks>>
    BY <1>32 DEF Asked!SaveOpenedAsk
  <2>2. SurveyFine'
    <3> DEFINE a == [survey EXCEPT !.suggestion = "awaiting_consent"]
               b == [a EXCEPT !.window = TRUE]
               c == [b EXCEPT !.fresh = TRUE]
    <3>1. a \in Asked!Survey
      BY <1>2, SurveyFields DEF Asked!SuggestionStatus
    <3>2. b \in Asked!Survey
      BY <3>1, SurveyFields
    <3>3. c \in Asked!Survey
      BY <3>2, SurveyFields
    <3>9. survey' = c \/ survey' = survey
      BY <1>32 DEF Asked!SaveOpenedAsk
    <3>10. survey' \in Asked!Survey
      BY <1>2, <3>9, <3>3
    <3>11. survey'.feedback = "in_progress" => survey'.streak <= 1
      BY <1>32, <1>2, <1>6 DEF Asked!SaveOpenedAsk, Asked!Survey
    <3> QED
      BY <3>10, <3>11 DEF SurveyFine
  <2>3. SweepFine'
    BY <1>32, <1>2, <1>8, StartFine DEF Asked!SaveOpenedAsk, SweepPoint
  <2> QED
    BY <1>2, <2>1, <2>2, <2>3 DEF SurveyTypes, SurveyFine, SweepFine, VoteFine
<1>33. ASSUME NEW p \in Sweepers, Asked!TickDies(p)
      PROVE  SurveyTypes'
  <2>1. UNCHANGED <<survey, response, eligible, text, vote, web, said, told, thanks>>
    BY <1>33 DEF Asked!TickDies
  <2>2. SweepFine'
    BY <1>33, <1>2, <1>8, StartFine DEF Asked!TickDies, SweepPoint
  <2>3. (surveyFaults \in 0..MaxFaults)'
    BY <1>33, <1>2, <1>4 DEF Asked!TickDies
  <2> QED
    BY <1>2, <2>1, <2>2, <2>3 DEF SurveyTypes, SurveyFine, SweepFine, VoteFine
<1>34. ASSUME NEW h \in Texts,
             NEW what \in {"yes", "no", "other"}, Asked!ConsentReply(h, what)
      PROVE  SurveyTypes'
  <2>1. UNCHANGED <<survey, response, eligible, sweep, vote, web, surveyFaults, told, thanks>>
    BY <1>34 DEF Asked!ConsentReply, Asked!Hear, Asked!Agrees, Asked!SaysYes
  <2>2. (text \in [Texts -> TextState])'
    BY <1>34, <1>2 DEF Asked!ConsentReply, Asked!Hear, Asked!Agrees, Asked!SaysYes, TextState,
         TextPoint, Asked!NoText
  <2>3. (said \in SaidState)'
    BY <1>34, <1>2 DEF Asked!ConsentReply, Asked!Hear, Asked!Agrees, Asked!SaysYes, SaidState,
         Asks, Asked!Question, Asked!Asked
  <2> QED
    BY <1>2, <2>1, <2>2, <2>3 DEF SurveyTypes, SurveyFine, SweepFine, VoteFine
<1>35. ASSUME NEW h \in Texts,
             NEW what \in {"yes", "no", "other"}, Asked!LateYes(h, what)
      PROVE  SurveyTypes'
  <2>1. UNCHANGED <<survey, response, eligible, sweep, vote, web, surveyFaults, told, thanks>>
    BY <1>35 DEF Asked!LateYes, Asked!Hear, Asked!Agrees, Asked!MayRevive
  <2>2. (text \in [Texts -> TextState])'
    BY <1>35, <1>2 DEF Asked!LateYes, Asked!Hear, Asked!Agrees, Asked!MayRevive, TextState,
         TextPoint, Asked!NoText
  <2>3. (said \in SaidState)'
    BY <1>35, <1>2 DEF Asked!LateYes, Asked!Hear, Asked!Agrees, Asked!MayRevive, SaidState, Asks,
         Asked!Question, Asked!Asked
  <2> QED
    BY <1>2, <2>1, <2>2, <2>3 DEF SurveyTypes, SurveyFine, SweepFine, VoteFine
<1>36. ASSUME NEW h \in Texts,
             NEW what \in {"yes", "no", "other"}, Asked!AskReply(h, what)
      PROVE  SurveyTypes'
  <2>1. UNCHANGED <<survey, response, eligible, sweep, vote, web, surveyFaults, told, thanks>>
    BY <1>36 DEF Asked!AskReply, Asked!Hear, Asked!Agrees, Asked!SaysYes
  <2>2. (text \in [Texts -> TextState])'
    BY <1>36, <1>2 DEF Asked!AskReply, Asked!Hear, Asked!Agrees, Asked!SaysYes, TextState,
         TextPoint, Asked!NoText
  <2>3. (said \in SaidState)'
    BY <1>36, <1>2 DEF Asked!AskReply, Asked!Hear, Asked!Agrees, Asked!SaysYes, SaidState, Asks,
         Asked!Question, Asked!Asked
  <2> QED
    BY <1>2, <2>1, <2>2, <2>3 DEF SurveyTypes, SurveyFine, SweepFine, VoteFine
<1>37. ASSUME NEW h \in Texts,
             NEW what \in {"yes", "no", "other"}, Asked!Suggestion(h, what)
      PROVE  SurveyTypes'
  <2>1. UNCHANGED <<survey, response, eligible, sweep, vote, web, surveyFaults, said, told, thanks>>
    BY <1>37 DEF Asked!Suggestion, Asked!Hear
  <2>2. (text \in [Texts -> TextState])'
    BY <1>37, <1>2 DEF Asked!Suggestion, Asked!Hear, TextState, TextPoint, Asked!NoText
  <2> QED
    BY <1>2, <2>1, <2>2 DEF SurveyTypes, SurveyFine, SweepFine, VoteFine
<1>38. ASSUME NEW h \in Texts, Asked!Claim(h)
      PROVE  SurveyTypes'
  <2>1. UNCHANGED <<response, eligible, vote, web, surveyFaults, said, told, thanks>>
    BY <1>38 DEF Asked!Claim, Asked!Begun, Asked!Guarded
  <2>2. SurveyFine'
    <3> DEFINE a == [survey EXCEPT !.feedback = "in_progress"]
               b == [a EXCEPT !.streak = 0]
               c == [b EXCEPT !.next = TRUE]
    <3>1. a \in Asked!Survey
      BY <1>2, SurveyFields DEF Asked!FeedbackStatus
    <3>2. b \in Asked!Survey
      BY <3>1, SurveyFields, <1>5
    <3>3. c \in Asked!Survey
      BY <3>2, SurveyFields
    <3>9. survey' = c \/ survey' = survey
      BY <1>38 DEF Asked!Claim, Asked!Begun, Asked!Guarded
    <3>10. survey' \in Asked!Survey
      BY <1>2, <3>9, <3>3
    <3>12. c.streak = 0
      BY <3>1, <3>2, <3>3 DEF Asked!Survey
    <3>11. survey'.feedback = "in_progress" => survey'.streak <= 1
      <4> HIDE DEF c
      <4> QED
        BY <3>9, <3>12, <1>6
    <3> QED
      BY <3>10, <3>11 DEF SurveyFine
  <2>3. (text \in [Texts -> TextState])'
    BY <1>38, <1>2 DEF Asked!Claim, Asked!Begun, Asked!Guarded, TextState, TextPoint, Asked!NoText
  <2>4. SweepFine'
    BY <1>38, <1>2, MovedFine DEF Asked!Claim, Asked!Begun, Asked!Guarded
  <2> QED
    BY <1>2, <2>1, <2>2, <2>3, <2>4 DEF SurveyTypes, SurveyFine, SweepFine, VoteFine
<1>39. ASSUME NEW h \in Texts, Asked!Refuse(h)
      PROVE  SurveyTypes'
  <2>1. UNCHANGED <<response, eligible, vote, web, surveyFaults, told, thanks>>
    BY <1>39 DEF Asked!Refuse, Asked!Guarded
  <2>2. SurveyFine'
    <3> DEFINE a == [survey EXCEPT !.feedback = "declined"]
               b == [a EXCEPT !.next = FALSE]
    <3>1. a \in Asked!Survey
      BY <1>2, SurveyFields DEF Asked!FeedbackStatus
    <3>2. b \in Asked!Survey
      BY <3>1, SurveyFields
    <3>9. survey' = b \/ survey' = survey
      BY <1>39 DEF Asked!Refuse, Asked!Guarded
    <3>10. survey' \in Asked!Survey
      BY <1>2, <3>9, <3>2
    <3>11. survey'.feedback = "in_progress" => survey'.streak <= 1
      BY <1>39, <1>2, <1>6 DEF Asked!Refuse, Asked!Guarded, Asked!Survey
    <3> QED
      BY <3>10, <3>11 DEF SurveyFine
  <2>3. (text \in [Texts -> TextState])'
    BY <1>39, <1>2 DEF Asked!Refuse, Asked!Guarded, TextState, TextPoint, Asked!NoText
  <2>4. SweepFine'
    BY <1>39, <1>2, MovedFine DEF Asked!Refuse, Asked!Guarded
  <2>5. (said \in SaidState)'
    BY <1>39, <1>2 DEF Asked!Refuse, Asked!Guarded, SaidState, Asks, Asked!Question, Asked!Asked
  <2> QED
    BY <1>2, <2>1, <2>2, <2>3, <2>4, <2>5 DEF SurveyTypes, SurveyFine, SweepFine, VoteFine
<1>40. ASSUME NEW h \in Texts, Asked!CancelSuggestion(h)
      PROVE  SurveyTypes'
  <2>1. UNCHANGED <<response, eligible, sweep, vote, web, surveyFaults, said, told, thanks>>
    BY <1>40 DEF Asked!CancelSuggestion, Asked!Guarded
  <2>2. SurveyFine'
    <3> DEFINE a == [survey EXCEPT !.suggestion = "skipped"]
    <3>1. a \in Asked!Survey
      BY <1>2, SurveyFields DEF Asked!SuggestionStatus
    <3>9. survey' = a \/ survey' = survey
      BY <1>40 DEF Asked!CancelSuggestion, Asked!Guarded
    <3>10. survey' \in Asked!Survey
      BY <1>2, <3>9, <3>1
    <3>11. survey'.feedback = "in_progress" => survey'.streak <= 1
      BY <1>40, <1>2, <1>6 DEF Asked!CancelSuggestion, Asked!Guarded, Asked!Survey
    <3> QED
      BY <3>10, <3>11 DEF SurveyFine
  <2>3. (text \in [Texts -> TextState])'
    BY <1>40, <1>2 DEF Asked!CancelSuggestion, Asked!Guarded, TextState, TextPoint, Asked!NoText
  <2> QED
    BY <1>2, <2>1, <2>2, <2>3 DEF SurveyTypes, SurveyFine, SweepFine, VoteFine
<1>41. ASSUME NEW h \in Texts, Asked!Revive(h)
      PROVE  SurveyTypes'
  <2>1. UNCHANGED <<response, eligible, vote, web, surveyFaults, said, told, thanks>>
    BY <1>41 DEF Asked!Revive, Asked!Begun, Asked!Guarded
  <2>2. SurveyFine'
    <3> DEFINE a == [survey EXCEPT !.feedback = "in_progress"]
               b == [a EXCEPT !.streak = 0]
               c == [b EXCEPT !.next = TRUE]
    <3>1. a \in Asked!Survey
      BY <1>2, SurveyFields DEF Asked!FeedbackStatus
    <3>2. b \in Asked!Survey
      BY <3>1, SurveyFields, <1>5
    <3>3. c \in Asked!Survey
      BY <3>2, SurveyFields
    <3>9. survey' = c \/ survey' = survey
      BY <1>41 DEF Asked!Revive, Asked!Begun, Asked!Guarded
    <3>10. survey' \in Asked!Survey
      BY <1>2, <3>9, <3>3
    <3>12. c.streak = 0
      BY <3>1, <3>2, <3>3 DEF Asked!Survey
    <3>11. survey'.feedback = "in_progress" => survey'.streak <= 1
      <4> HIDE DEF c
      <4> QED
        BY <3>9, <3>12, <1>6
    <3> QED
      BY <3>10, <3>11 DEF SurveyFine
  <2>3. (text \in [Texts -> TextState])'
    BY <1>41, <1>2 DEF Asked!Revive, Asked!Begun, Asked!Guarded, TextState, TextPoint, Asked!NoText
  <2>4. SweepFine'
    BY <1>41, <1>2, MovedFine DEF Asked!Revive, Asked!Begun, Asked!Guarded
  <2> QED
    BY <1>2, <2>1, <2>2, <2>3, <2>4 DEF SurveyTypes, SurveyFine, SweepFine, VoteFine
<1>42. ASSUME NEW h \in Texts, Asked!RestoreSuggestion(h)
      PROVE  SurveyTypes'
  <2>1. UNCHANGED <<response, eligible, sweep, vote, web, surveyFaults, said, told, thanks>>
    BY <1>42 DEF Asked!RestoreSuggestion, Asked!Guarded
  <2>2. SurveyFine'
    <3> DEFINE a == [survey EXCEPT !.suggestion = "scheduled"]
    <3>1. a \in Asked!Survey
      BY <1>2, SurveyFields DEF Asked!SuggestionStatus
    <3>9. survey' = a \/ survey' = survey
      BY <1>42 DEF Asked!RestoreSuggestion, Asked!Guarded
    <3>10. survey' \in Asked!Survey
      BY <1>2, <3>9, <3>1
    <3>11. survey'.feedback = "in_progress" => survey'.streak <= 1
      BY <1>42, <1>2, <1>6 DEF Asked!RestoreSuggestion, Asked!Guarded, Asked!Survey
    <3> QED
      BY <3>10, <3>11 DEF SurveyFine
  <2>3. (text \in [Texts -> TextState])'
    BY <1>42, <1>2 DEF Asked!RestoreSuggestion, Asked!Guarded, TextState, TextPoint, Asked!NoText
  <2> QED
    BY <1>2, <2>1, <2>2, <2>3 DEF SurveyTypes, SurveyFine, SweepFine, VoteFine
<1>43. ASSUME NEW h \in Texts, Asked!ClaimAsk(h)
      PROVE  SurveyTypes'
  <2>1. UNCHANGED <<response, eligible, sweep, vote, web, surveyFaults, said, told, thanks>>
    BY <1>43 DEF Asked!ClaimAsk, Asked!Guarded
  <2>2. SurveyFine'
    <3> DEFINE a == [survey EXCEPT !.suggestion = "awaiting_reply"]
               b == [a EXCEPT !.window = TRUE]
               c == [b EXCEPT !.fresh = TRUE]
    <3>1. a \in Asked!Survey
      BY <1>2, SurveyFields DEF Asked!SuggestionStatus
    <3>2. b \in Asked!Survey
      BY <3>1, SurveyFields
    <3>3. c \in Asked!Survey
      BY <3>2, SurveyFields
    <3>9. survey' = c \/ survey' = survey
      BY <1>43 DEF Asked!ClaimAsk, Asked!Guarded
    <3>10. survey' \in Asked!Survey
      BY <1>2, <3>9, <3>3
    <3>11. survey'.feedback = "in_progress" => survey'.streak <= 1
      BY <1>43, <1>2, <1>6 DEF Asked!ClaimAsk, Asked!Guarded, Asked!Survey
    <3> QED
      BY <3>10, <3>11 DEF SurveyFine
  <2>3. (text \in [Texts -> TextState])'
    BY <1>43, <1>2 DEF Asked!ClaimAsk, Asked!Guarded, TextState, TextPoint, Asked!NoText
  <2> QED
    BY <1>2, <2>1, <2>2, <2>3 DEF SurveyTypes, SurveyFine, SweepFine, VoteFine
<1>44. ASSUME NEW h \in Texts, Asked!Ask(h)
      PROVE  SurveyTypes'
  <2>1. UNCHANGED <<survey, response, eligible, sweep, vote, web, surveyFaults, said, thanks>>
    BY <1>44 DEF Asked!Ask
  <2>2. (text \in [Texts -> TextState])'
    BY <1>44, <1>2 DEF Asked!Ask, TextState, TextPoint, Asked!NoText
  <2>3. (told \subseteq Said)'
    BY <1>44, <1>2 DEF Asked!Ask, Asked!Send, Said
  <2> QED
    BY <1>2, <2>1, <2>2, <2>3 DEF SurveyTypes, SurveyFine, SweepFine, VoteFine
<1>45. ASSUME NEW h \in Texts, Asked!Unask(h)
      PROVE  SurveyTypes'
  <2>1. UNCHANGED <<response, eligible, sweep, vote, web, surveyFaults, said, told, thanks>>
    BY <1>45 DEF Asked!Unask, Asked!Guarded
  <2>2. SurveyFine'
    <3> DEFINE a == [survey EXCEPT !.suggestion = "scheduled"]
               b == [a EXCEPT !.window = FALSE]
    <3>1. a \in Asked!Survey
      BY <1>2, SurveyFields DEF Asked!SuggestionStatus
    <3>2. b \in Asked!Survey
      BY <3>1, SurveyFields
    <3>9. survey' = b \/ survey' = survey
      BY <1>45 DEF Asked!Unask, Asked!Guarded
    <3>10. survey' \in Asked!Survey
      BY <1>2, <3>9, <3>2
    <3>11. survey'.feedback = "in_progress" => survey'.streak <= 1
      BY <1>45, <1>2, <1>6 DEF Asked!Unask, Asked!Guarded, Asked!Survey
    <3> QED
      BY <3>10, <3>11 DEF SurveyFine
  <2>3. (text \in [Texts -> TextState])'
    BY <1>45, <1>2 DEF Asked!Unask, Asked!Guarded, TextState, TextPoint, Asked!NoText
  <2> QED
    BY <1>2, <2>1, <2>2, <2>3 DEF SurveyTypes, SurveyFine, SweepFine, VoteFine
<1>46. ASSUME NEW h \in Texts, Asked!RefuseAsk(h)
      PROVE  SurveyTypes'
  <2>1. UNCHANGED <<response, eligible, sweep, vote, web, surveyFaults, told, thanks>>
    BY <1>46 DEF Asked!RefuseAsk, Asked!Guarded
  <2>2. SurveyFine'
    <3> DEFINE a == [survey EXCEPT !.suggestion = "declined"]
               b == [a EXCEPT !.window = FALSE]
    <3>1. a \in Asked!Survey
      BY <1>2, SurveyFields DEF Asked!SuggestionStatus
    <3>2. b \in Asked!Survey
      BY <3>1, SurveyFields
    <3>9. survey' = b \/ survey' = survey
      BY <1>46 DEF Asked!RefuseAsk, Asked!Guarded
    <3>10. survey' \in Asked!Survey
      BY <1>2, <3>9, <3>2
    <3>11. survey'.feedback = "in_progress" => survey'.streak <= 1
      BY <1>46, <1>2, <1>6 DEF Asked!RefuseAsk, Asked!Guarded, Asked!Survey
    <3> QED
      BY <3>10, <3>11 DEF SurveyFine
  <2>3. (text \in [Texts -> TextState])'
    BY <1>46, <1>2 DEF Asked!RefuseAsk, Asked!Guarded, TextState, TextPoint, Asked!NoText
  <2>4. (said \in SaidState)'
    BY <1>46, <1>2 DEF Asked!RefuseAsk, Asked!Guarded, SaidState, Asks, Asked!Question, Asked!Asked
  <2> QED
    BY <1>2, <2>1, <2>2, <2>3, <2>4 DEF SurveyTypes, SurveyFine, SweepFine, VoteFine
<1>47. ASSUME NEW h \in Texts, Asked!Capture(h)
      PROVE  SurveyTypes'
  <2>1. UNCHANGED <<survey, response, eligible, sweep, vote, web, surveyFaults, said, thanks>>
    BY <1>47 DEF Asked!Capture
  <2>2. (text \in [Texts -> TextState])'
    BY <1>47, <1>2 DEF Asked!Capture, TextState, TextPoint, Asked!NoText
  <2>3. (told \subseteq Said)'
    BY <1>47, <1>2 DEF Asked!Capture, Asked!Send, Said
  <2> QED
    BY <1>2, <2>1, <2>2, <2>3 DEF SurveyTypes, SurveyFine, SweepFine, VoteFine
<1>48. ASSUME NEW h \in Texts, Asked!Thank(h)
      PROVE  SurveyTypes'
  <2>1. UNCHANGED <<response, eligible, sweep, vote, web, surveyFaults, said, told>>
    BY <1>48 DEF Asked!Thank, Asked!Guarded
  <2>2. SurveyFine'
    <3> DEFINE a == [survey EXCEPT !.thanked = TRUE]
               b == [a EXCEPT !.suggestion = "completed"]
    <3>1. a \in Asked!Survey
      BY <1>2, SurveyFields
    <3>2. b \in Asked!Survey
      BY <3>1, SurveyFields DEF Asked!SuggestionStatus
    <3>9. survey' = b \/ survey' = survey
      BY <1>48 DEF Asked!Thank, Asked!Guarded
    <3>10. survey' \in Asked!Survey
      BY <1>2, <3>9, <3>2
    <3>11. survey'.feedback = "in_progress" => survey'.streak <= 1
      BY <1>48, <1>2, <1>6 DEF Asked!Thank, Asked!Guarded, Asked!Survey
    <3> QED
      BY <3>10, <3>11 DEF SurveyFine
  <2>3. (text \in [Texts -> TextState])'
    BY <1>48, <1>2 DEF Asked!Thank, Asked!Guarded, TextState, TextPoint, Asked!NoText
  <2>4. (thanks \in Nat)'
    BY <1>48, <1>2 DEF Asked!Thank, Asked!Guarded
  <2> QED
    BY <1>2, <2>1, <2>2, <2>3, <2>4 DEF SurveyTypes, SurveyFine, SweepFine, VoteFine
<1>49. CASE Asked!Enrol
  <2>1. UNCHANGED <<response, eligible, sweep, text, vote, web, surveyFaults, said, told, thanks>>
    BY <1>49 DEF Asked!Enrol
  <2>2. SurveyFine'
    <3>1. PICK x \in {"scheduled", "skipped"} :
            survey' = [Asked!NoSurvey EXCEPT !.feedback = x, !.suggestion = x]
      BY <1>49 DEF Asked!Enrol
    <3>2. x \in Asked!FeedbackStatus /\ x \in Asked!SuggestionStatus
      BY DEF Asked!FeedbackStatus, Asked!SuggestionStatus
    <3>3. survey' \in Asked!Survey /\ survey'.feedback = x
      BY <3>1, <3>2, NewSurvey
    <3> QED
      BY <3>3 DEF SurveyFine
  <2> QED
    BY <1>2, <2>1, <2>2 DEF SurveyTypes, SurveyFine, SweepFine, VoteFine
<1>50. CASE Asked!OpenOnWeb
  <2>1. UNCHANGED <<response, eligible, sweep, text, vote, web, surveyFaults, said, told, thanks>>
    BY <1>50 DEF Asked!OpenOnWeb
  <2>2. SurveyFine'
    <3>1. PICK z \in {"web", "email"} :
            survey' = [Asked!NoSurvey EXCEPT !.feedback = "awaiting_web",
                                             !.suggestion = "awaiting_web", !.channel = z]
      BY <1>50 DEF Asked!OpenOnWeb
    <3>2. "awaiting_web" \in Asked!FeedbackStatus /\ "awaiting_web" \in Asked!SuggestionStatus
      BY DEF Asked!FeedbackStatus, Asked!SuggestionStatus
    <3>4. z \in {"none", "whatsapp", "email", "web"}
      OBVIOUS
    <3> DEFINE s == [Asked!NoSurvey EXCEPT !.feedback = "awaiting_web",
                                           !.suggestion = "awaiting_web", !.channel = z]
    <3>5. s \in Asked!Survey /\ s.feedback = "awaiting_web"
      BY <3>2, <3>4, NewSurvey
    <3>3. survey' \in Asked!Survey /\ survey'.feedback = "awaiting_web"
      <4> HIDE DEF s
      <4> QED
        BY <3>1, <3>5 DEF s
    <3> QED
      BY <3>3 DEF SurveyFine
  <2> QED
    BY <1>2, <2>1, <2>2 DEF SurveyTypes, SurveyFine, SweepFine, VoteFine
<1>51. CASE Asked!Refund
  <2>1. UNCHANGED <<survey, response, sweep, text, vote, web, surveyFaults, said, told, thanks>>
    BY <1>51 DEF Asked!Refund
  <2>2. (eligible \in BOOLEAN)'
    BY <1>51, <1>2 DEF Asked!Refund
  <2> QED
    BY <1>2, <2>1, <2>2 DEF SurveyTypes, SurveyFine, SweepFine, VoteFine
<1>52. CASE Asked!TenSecondsPass
  <2>1. UNCHANGED <<response, eligible, sweep, text, vote, web, surveyFaults, said, told, thanks>>
    BY <1>52 DEF Asked!TenSecondsPass
  <2>2. SurveyFine'
    <3> DEFINE a == [survey EXCEPT !.fresh = FALSE]
    <3>1. a \in Asked!Survey
      BY <1>2, SurveyFields
    <3>9. survey' = a \/ survey' = survey
      BY <1>52 DEF Asked!TenSecondsPass
    <3>10. survey' \in Asked!Survey
      BY <1>2, <3>9, <3>1
    <3>11. survey'.feedback = "in_progress" => survey'.streak <= 1
      BY <1>52, <1>2, <1>6 DEF Asked!TenSecondsPass, Asked!Survey
    <3> QED
      BY <3>10, <3>11 DEF SurveyFine
  <2> QED
    BY <1>2, <2>1, <2>2 DEF SurveyTypes, SurveyFine, SweepFine, VoteFine
<1>53. CASE Asked!Submit
  <2>1. UNCHANGED <<survey, response, eligible, sweep, text, vote, surveyFaults, said, told, thanks>>
    BY <1>53 DEF Asked!Submit
  <2>2. (web \in WebState)'
    <3>1. survey.window \in BOOLEAN
      BY <1>2 DEF Asked!Survey
    <3> QED
      BY <1>53, <1>2, <3>1 DEF Asked!Submit, WebState
  <2> QED
    BY <1>2, <2>1, <2>2 DEF SurveyTypes, SurveyFine, SweepFine, VoteFine
<1>54. CASE Asked!StoreAnswers
  <2>1. UNCHANGED <<eligible, text, vote, surveyFaults, said, told, thanks>>
    BY <1>54 DEF Asked!StoreAnswers
  <2>2. (response \in [Asked!Polls -> {"none", "sent", "answered"}])'
    BY <1>54, <1>2 DEF Asked!StoreAnswers
  <2>3. SweepFine'
    <3>1. sweep' = sweep \/ sweep' = Asked!Move(sweep)
      BY <1>54 DEF Asked!StoreAnswers
    <3>2. sweep' = sweep => SweepFine'
      BY <1>2 DEF SweepFine
    <3> QED
      BY <1>2, <3>1, <3>2, MovedFine
  <2>4. (web \in WebState)'
    <3>1. Asked!NoWeb \in WebState
      BY DEF Asked!NoWeb, WebState
    <3> QED
      BY <1>54, <3>1 DEF Asked!StoreAnswers
  <2>5. SurveyFine'
    <3> DEFINE a == [survey EXCEPT !.feedback = "completed"]
               b == [a EXCEPT !.suggestion = "completed"]
               c == [b EXCEPT !.finished = TRUE]
               d == [c EXCEPT !.next = FALSE]
               e == [d EXCEPT !.streak = 0]
               f == [e EXCEPT !.window = FALSE]
               g == [f EXCEPT !.thanked = TRUE]
    <3>1. a \in Asked!Survey
      BY <1>2, SurveyFields DEF Asked!FeedbackStatus
    <3>2. b \in Asked!Survey
      BY <3>1, SurveyFields DEF Asked!SuggestionStatus
    <3>3. c \in Asked!Survey
      BY <3>2, SurveyFields
    <3>4. d \in Asked!Survey
      BY <3>3, SurveyFields
    <3>5. e \in Asked!Survey
      BY <3>4, SurveyFields, <1>5
    <3>6. f \in Asked!Survey
      BY <3>5, SurveyFields
    <3>7. g \in Asked!Survey
      BY <3>6, SurveyFields
    <3>9. survey' = g \/ survey' = survey
      BY <1>54 DEF Asked!StoreAnswers
    <3>10. survey' \in Asked!Survey
      BY <1>2, <3>9, <3>7
    <3>11. survey'.feedback = "in_progress" => survey'.streak <= 1
      BY <1>54, <1>2, <1>6 DEF Asked!StoreAnswers, Asked!Survey
    <3> QED
      BY <3>10, <3>11 DEF SurveyFine
  <2> QED
    BY <1>2, <2>1, <2>2, <2>3, <2>4, <2>5 DEF SurveyTypes, SurveyFine, SweepFine, VoteFine
<1>55. ASSUME NEW v \in Votes, NEW q \in Asked!Polls, Asked!Cast(v, q)
      PROVE  SurveyTypes'
  <2>1. UNCHANGED <<survey, response, eligible, sweep, text, web, surveyFaults, said, told, thanks>>
    BY <1>55 DEF Asked!Cast
  <2>2. VoteFine'
    <3> DEFINE x == [at |-> "record", poll |-> q, read |-> survey.feedback]
    <3>1. x \in VoteState /\ x.at = "record" /\ x.poll = q
      BY <1>2, <1>4 DEF VoteState, Asked!Survey, Asked!Polls
    <3>2. vote' = [vote EXCEPT ![v] = x]
      BY <1>55 DEF Asked!Cast
    <3> HIDE DEF x
    <3> QED
      BY <1>2, <3>1, <3>2 DEF VoteFine
  <2> QED
    BY <1>2, <2>1, <2>2 DEF SurveyTypes, SurveyFine, SweepFine, VoteFine
<1>56. ASSUME NEW v \in Votes, Asked!RecordVote(v)
      PROVE  SurveyTypes'
  <2>1. UNCHANGED <<survey, eligible, sweep, text, web, surveyFaults, said, told, thanks>>
    BY <1>56 DEF Asked!RecordVote
  <2>2. VoteFine'
    BY <1>56, <1>2 DEF Asked!RecordVote, VoteFine, VoteState, Asked!NoVote, Asked!FeedbackStatus,
         Underway
  <2>3. (response \in [Asked!Polls -> {"none", "sent", "answered"}])'
    BY <1>56, <1>2 DEF Asked!RecordVote
  <2> QED
    BY <1>2, <2>1, <2>2, <2>3 DEF SurveyTypes, SurveyFine, SweepFine, VoteFine
<1>57. ASSUME NEW v \in Votes, Asked!CountVotes(v)
      PROVE  SurveyTypes'
  <2>1. UNCHANGED <<survey, response, eligible, sweep, text, web, surveyFaults, said, told, thanks>>
    BY <1>57 DEF Asked!CountVotes
  <2>2. VoteFine'
    <3>1. vote[v] \in VoteState /\ vote[v].poll \in Asked!Polls
      BY <1>57, <1>2 DEF Asked!CountVotes, VoteFine
    <3>2. PICK x : /\ vote' = [vote EXCEPT ![v] = x]
                   /\ \/ x = [vote[v] EXCEPT !.at = "complete"]
                      \/ x = [vote[v] EXCEPT !.at = "resume"] /\ vote[v].read \in Underway
                      \/ x = Asked!NoVote
      BY <1>57, <1>2 DEF Asked!CountVotes, Underway
    <3>3. /\ x \in VoteState
          /\ x.at # "idle" => x.poll \in Asked!Polls
          /\ x.at = "resume" => x.read \in Underway
      BY <1>4, <3>1, <3>2 DEF VoteState, Asked!NoVote
    <3>4. vote' = [vote EXCEPT ![v] = x]
      BY <3>2
    <3> QED
      BY <1>2, <3>3, <3>4 DEF VoteFine
  <2> QED
    BY <1>2, <2>1, <2>2 DEF SurveyTypes, SurveyFine, SweepFine, VoteFine
<1>58. ASSUME NEW v \in Votes, Asked!ApplyVote(v)
      PROVE  SurveyTypes'
  <2>1. UNCHANGED <<response, eligible, text, web, surveyFaults, said, told, thanks>>
    BY <1>58 DEF Asked!ApplyVote, Asked!Begun
  <2>2. VoteFine'
    <3>1. Asked!NoVote \in VoteState /\ Asked!NoVote.at = "idle"
      BY <1>4 DEF VoteState, Asked!NoVote
    <3>2. vote' = [vote EXCEPT ![v] = Asked!NoVote]
      BY <1>58 DEF Asked!ApplyVote
    <3> QED
      BY <1>2, <3>1, <3>2 DEF VoteFine
  <2>3. SweepFine'
    BY <1>58, <1>2, MovedFine DEF Asked!ApplyVote, Asked!Begun
  <2>4. SurveyFine'
    <3> DEFINE a == [survey EXCEPT !.feedback = "in_progress"]
               b == [a EXCEPT !.streak = 0]
               c == [b EXCEPT !.next = TRUE]
               d == [survey EXCEPT !.feedback = "completed"]
               e == [d EXCEPT !.finished = TRUE]
               f == [e EXCEPT !.streak = 0]
               g == [f EXCEPT !.next = FALSE]
    <3>1. a \in Asked!Survey /\ d \in Asked!Survey
      BY <1>2, SurveyFields DEF Asked!FeedbackStatus
    <3>2. b \in Asked!Survey /\ e \in Asked!Survey
      BY <3>1, <1>5, SurveyFields
    <3>3. c \in Asked!Survey /\ f \in Asked!Survey
      BY <3>2, <1>5, SurveyFields
    <3>4. g \in Asked!Survey
      BY <3>3, SurveyFields
    <3>9. survey' = c \/ survey' = g
      BY <1>58 DEF Asked!ApplyVote, Asked!Begun
    <3>10. survey' \in Asked!Survey
      BY <3>3, <3>4, <3>9
    <3>11. survey'.feedback = "in_progress" => survey'.streak <= 1
      BY <1>58, <1>2, <1>6 DEF Asked!ApplyVote, Asked!Begun, Asked!Survey
    <3> QED
      BY <3>10, <3>11 DEF SurveyFine
  <2> QED
    BY <1>2, <2>1, <2>2, <2>3, <2>4 DEF SurveyTypes, SurveyFine, SweepFine, VoteFine
<1> QED
  BY <1>1, <1>11, <1>12, <1>13, <1>14, <1>15, <1>16, <1>17, <1>18, <1>19, <1>20, <1>21, <1>22,
       <1>23, <1>24, <1>25, <1>26, <1>27, <1>28, <1>29, <1>30, <1>31, <1>32, <1>33, <1>34, <1>35,
            <1>36, <1>37, <1>38, <1>39, <1>40, <1>41, <1>42, <1>43, <1>44, <1>45, <1>46, <1>47,
                 <1>48, <1>49, <1>50, <1>51, <1>52, <1>53, <1>54, <1>55, <1>56, <1>57, <1>58
     DEF Asked!Next, Asked!Sweep, Asked!Session, Asked!Start, Asked!Reply

\* At first there is no survey and nothing is under way.
LEMMA SurveyInit == Asked!Init => SurveyInv
<1> SUFFICES ASSUME Asked!Init PROVE SurveyInv
  OBVIOUS
<1>1. /\ survey = Asked!NoSurvey /\ survey \in Asked!Survey
      /\ survey.feedback = "none" /\ survey.suggestion = "none" /\ survey.channel = "none"
      /\ ~survey.started /\ ~survey.window
  BY SurveyAssumption DEF Asked!Init, Asked!NoSurvey, Asked!Survey
<1>2. \A p \in Sweepers : sweep[p] = Asked!NoTick /\ sweep[p].at = "idle"
  BY DEF Asked!Init, Asked!NoTick
<1>3. \A h \in Texts : text[h] = Asked!NoText /\ text[h].at = "idle"
  BY DEF Asked!Init, Asked!NoText
<1>4. \A v \in Votes : vote[v] = Asked!NoVote /\ vote[v].at = "idle" /\ vote[v].read = "none"
  BY DEF Asked!Init, Asked!NoVote
<1>5. said = [agreed |-> {}, refused |-> {}, misheard |-> FALSE] /\ told = {} /\ thanks = 0
  BY DEF Asked!Init
<1>6. SurveyTypes
  <2>1. SurveyFine
    BY <1>1 DEF SurveyFine
  <2>2. SweepFine
    BY <1>2, NoTickFine DEF SweepFine, Asked!Init
  <2>3. Asked!NoVote \in VoteState
    BY SurveyAssumption DEF Asked!NoVote, VoteState
  <2>4. VoteFine
    BY <1>4, <2>3 DEF VoteFine, Asked!Init
  <2>5. text \in [Texts -> TextState] /\ web \in WebState
    BY DEF Asked!Init, Asked!NoText, TextState, TextPoint, Asked!NoWeb, WebState
  <2>6. said \in SaidState /\ told \subseteq Said /\ thanks \in Nat
    BY <1>5 DEF SaidState, Asks
  <2>7. response \in [Asked!Polls -> {"none", "sent", "answered"}] /\ eligible \in BOOLEAN
    BY DEF Asked!Init
  <2>8. surveyFaults \in 0..MaxFaults
    BY GroupAssumption DEF Asked!Init
  <2> QED
    BY <2>1, <2>2, <2>4, <2>5, <2>6, <2>7, <2>8 DEF SurveyTypes
<1>7. Ticking = "idle"
  BY <1>2 DEF Ticking
<1>8. \A point \in TextPoint \ {"idle"} : ~Handles(point)
  BY <1>3 DEF Handles
<1>9. ~Agreeing /\ ~Handles("cancel") /\ ~Reviving /\ ~Requested /\ ~Asking /\ ~Storing /\ OneAsks
  BY <1>3 DEF Handles, Agreeing, Reviving, Requested, Asking, Storing, OneAsks
<1>10. ~VotedEarlier
  BY <1>4 DEF VotedEarlier, Underway
<1>11. YesBefore
  BY <1>1, <1>5, <1>7, <1>9, <1>10
     DEF YesBefore, Underway, Agreeing, Reviving, Requested, Asking, Storing
<1>12. Blank /\ ThanksMarked
  BY <1>1, <1>4, <1>5, <1>7, <1>9 DEF Blank, ThanksMarked, Asked!Init, Asked!NoWeb
<1>13. Orderly
  BY <1>1, <1>5, <1>7, <1>9, <1>10
     DEF Orderly, Before, Standing, Telling, NotStarted, Opening, AskingNext, AskStarted, Unasked,
         Consenting, AskConsenting, PollsRefused, AskRefused, Handled, WindowOpen,
         ChannelChosen, NoneRefused
<1> QED
  BY <1>6, <1>11, <1>12, <1>13 DEF SurveyInv

\* The invariant is kept by a step of the survey, and without one.
LEMMA SurveyNext == OneSweeper /\ SurveyInv /\ [Asked!Next]_(Asked!vars) => SurveyInv'
<1> SUFFICES ASSUME OneSweeper, SurveyInv, [Asked!Next]_(Asked!vars)
             PROVE  SurveyInv'
  OBVIOUS
<1>1. CASE Asked!Next
  BY <1>1, SurveyTypesKept, SurveyRestKept DEF SurveyInv, SurveyRest
<1>2. CASE UNCHANGED Asked!vars
  <2>1. /\ UNCHANGED <<survey, response, eligible, sweep, text, vote, web, surveyFaults>>
        /\ UNCHANGED <<said, told, thanks>>
    BY <1>2 DEF Asked!vars, Asked!handlers, Asked!history
  <2>2. SurveyTypes'
    BY <2>1 DEF SurveyInv, SurveyTypes, SurveyFine, SweepFine, VoteFine
  <2>3. YesBefore' /\ Blank' /\ ThanksMarked'
    BY <2>1, TicksStay, TextsStay, VotesStay DEF SurveyInv, YesBefore, Blank, ThanksMarked
  <2>4. Before'
    BY <2>1, TicksStay, TextsStay, VotesStay
       DEF SurveyInv, Orderly, Before, NotStarted, Opening, AskingNext, AskStarted, Unasked,
           NoneRefused
  <2>5. Standing'
    BY <2>1, TicksStay, TextsStay, VotesStay
       DEF SurveyInv, Orderly, Standing, Consenting, AskConsenting, PollsRefused, AskRefused,
           NoneRefused
  <2>6. Telling'
    BY <2>1, TicksStay, TextsStay, VotesStay
       DEF SurveyInv, Orderly, Telling, Handled, WindowOpen, ChannelChosen, NoneRefused
  <2> QED
    BY <2>2, <2>3, <2>4, <2>5, <2>6 DEF SurveyInv, Orderly
<1> QED
  BY <1>1, <1>2

\* The invariant says what the module's types say.
LEMMA SurveyTyped == SurveyInv => Asked!TypeOK
<1> SUFFICES ASSUME SurveyInv PROVE Asked!TypeOK
  OBVIOUS
<1>1. /\ \A p \in Sweepers : sweep[p] \in SweepState
      /\ \A h \in Texts : text[h] \in TextState
      /\ \A v \in Votes : vote[v] \in VoteState
      /\ web \in WebState /\ said \in SaidState
  BY DEF SurveyInv, SurveyTypes, SweepFine, VoteFine
<1>2. \A p \in Sweepers : sweep[p].question \in 0..Questions /\ sweep[p].streak \in 0..3
  BY <1>1 DEF SweepState
<1>3. \A h \in Texts : text[h].what \in {"none", "yes", "no", "other"}
  BY <1>1 DEF TextState
<1>4. \A v \in Votes : vote[v].poll \in 0..Questions
  BY <1>1 DEF VoteState
<1>5. /\ web.known \subseteq Asked!Polls
      /\ said.agreed \subseteq {"polls", "ask"} /\ said.refused \subseteq {"polls", "ask"}
  BY <1>1 DEF WebState, SaidState, Asks
<1> QED
  BY <1>2, <1>3, <1>4, <1>5 DEF SurveyInv, SurveyTypes, SurveyFine, Asked!TypeOK, Said

\* While only one process sweeps, and no suggestion is being refused while it looks for
\* one that is due (Punctual), nothing is sent or stored without a yes or after a no, the
\* member is thanked once and asked over one channel, however many texts and votes race
\* with the sweep, with each other and with the page.
THEOREM MannersAreKept == OneSweeper => (Asked!Spec => []MannersKept)
<1>1. Asked!Init => SurveyInv
  BY SurveyInit
<1>2. SurveyInv => MannersKept
  <2> SUFFICES ASSUME SurveyInv PROVE MannersKept
    OBVIOUS
  <2>1. surveyFaults \in Nat /\ thanks \in Nat
    BY GroupAssumption DEF SurveyInv, SurveyTypes
  <2>2. Asked!ConsentFirst
    BY DEF SurveyInv, YesBefore, Asked!ConsentFirst
  <2>3. Asked!ThankedOnce
    BY DEF SurveyInv, ThanksMarked, Asked!ThankedOnce
  <2>4. surveyFaults = 0 => "after a no" \notin told /\ ~({"mail", "consent"} \subseteq told)
    BY DEF SurveyInv, Orderly, Before, Telling, ChannelChosen, AskStarted, Opening
  <2>5. Asked!NothingAfterNo /\ Asked!OneChannel
    <3>1. surveyFaults # 0 => surveyFaults > 0
      BY <2>1
    <3>2. Asked!NothingAfterNo
      BY <2>4, <3>1 DEF Asked!NothingAfterNo
    <3>3. Asked!OneChannel
      BY <2>4, <3>1 DEF Asked!OneChannel
    <3> QED
      BY <3>2, <3>3
  <2> QED
    BY <2>2, <2>3, <2>5 DEF MannersKept, Asked!MannersKept
<1> SUFFICES ASSUME OneSweeper PROVE Asked!Spec => []MannersKept
  OBVIOUS
<1>3. SurveyInv /\ [Asked!Next]_(Asked!vars) => SurveyInv'
  BY SurveyNext
<1> QED
  BY <1>1, <1>2, <1>3, PTL DEF Asked!Spec

-----------------------------------------------------------------------------
(* Sessions *)

\* An idle request holds nothing.
LEMMA IdleJobHeld == JobHeld(Signed!Idle) /\ Signed!Idle.op = "idle"
BY SessionsAssumption DEF JobHeld, RequestRecord, Signed!Idle, Signed!Empty, Signed!NoOne,
   Signed!Accounts, Signed!Credentials, Signed!Passwords, Signed!Times

\* The invariant holds at first.
LEMMA SessionInit == Signed!Init => SessionInv
<1> SUFFICES ASSUME Signed!Init PROVE SessionInv
  OBVIOUS
<1> USE SessionsAssumption DEF Signed!Init, Signed!Accounts, Signed!Passwords, Signed!Times
<1>1. Signed!Empty \in [account : Signed!Accounts, expires : 0..(LastSecond + Ttl)]
  BY DEF Signed!Empty
<1>2. Signed!TypeOK
  BY <1>1, IdleJobHeld DEF Signed!TypeOK
<1>3. JobsHeld
  BY IdleJobHeld DEF JobsHeld
<1>4. VersionBehind
  BY DEF VersionBehind
<1>5. StaleRunsOut
  BY DEF StaleRunsOut, Signed!Empty
<1>6. CredentialsOfVersion
  BY DEF CredentialsOfVersion
<1> QED
  BY <1>2, <1>3, <1>4, <1>5, <1>6 DEF SessionInv

\* Time that passes brings nothing back.
LEMMA TickKeepsSessions == SessionInv /\ Signed!Tick => SessionInv'
<1> SUFFICES ASSUME SessionInv, Signed!Tick PROVE SessionInv'
  OBVIOUS
<1> USE SessionsAssumption DEF SessionInv, Signed!Tick, Signed!signedVars, Signed!Times
<1>1. Signed!TypeOK'
  BY DEF Signed!TypeOK
<1>2. JobsHeld'
  BY DEF JobsHeld, JobHeld, Accepted, OfVersion, Crossed, Signed!TypeOK, RequestRecord
<1>3. VersionBehind'
  BY DEF VersionBehind, Signed!TypeOK
<1>4. StaleRunsOut'
  BY DEF StaleRunsOut, Signed!TypeOK
<1>5. CredentialsOfVersion'
  BY DEF CredentialsOfVersion, OfVersion, Accepted, Crossed, Signed!TypeOK, Signed!Codes
<1> QED
  BY <1>1, <1>2, <1>3, <1>4, <1>5

\* The password changes and the version with it: all that is held is of a version
\* before, and was accepted before.
LEMMA ChangeKeepsSessions == SessionInv /\ Signed!ChangePassword => SessionInv'
<1> SUFFICES ASSUME SessionInv, Signed!ChangePassword PROVE SessionInv'
  OBVIOUS
<1> USE SessionsAssumption
    DEF SessionInv, Signed!ChangePassword, Signed!SetPassword, Signed!signedVars
<1>1. /\ account' \in Signed!Accounts
      /\ account'.version = account.version + 1
      /\ account.version \in Nat /\ clock \in Nat /\ clock > 0
      /\ password' \in Signed!Passwords /\ rotatedAt' = clock /\ changedAt' = clock
  BY DEF VersionBehind, Signed!TypeOK, Signed!Accounts, Signed!Passwords
<1>2. Signed!TypeOK' /\ VersionBehind'
  BY <1>1 DEF Signed!TypeOK, VersionBehind, Signed!Accounts, Signed!Passwords, Signed!Times
<1>3. ASSUME NEW c \in Signed!Credentials, OfVersion(c)
      PROVE  c.version <= account'.version /\ c.version # account'.version
  BY <1>1, <1>3 DEF OfVersion, Signed!Credentials, Signed!Passwords
<1>4. \A time \in Nat : time > 0 /\ time <= clock => time < rotatedAt' + Ttl
  BY <1>1
<1>5. JobsHeld'
  <2> SUFFICES ASSUME NEW h \in Handlers PROVE JobHeld(signing[h])'
    BY DEF JobsHeld
  <2>1. JobHeld(signing[h])
    BY DEF JobsHeld
  <2>2. signing[h].holder \in Signed!Credentials /\ signing[h].since \in Nat
    BY <2>1 DEF JobHeld, RequestRecord, Signed!Times
  <2>3. signing[h].op = "sign" => OfVersion(signing[h].holder)'
    BY <1>3, <2>1, <2>2 DEF JobHeld, OfVersion
  <2>4. signing[h].op = "pass" => Accepted(signing[h].holder, signing[h].since)'
    BY <1>3, <1>4, <2>1, <2>2 DEF JobHeld, Accepted, OfVersion, Crossed
  <2> QED
    BY <1>1, <2>1, <2>3, <2>4 DEF JobHeld
<1>6. StaleRunsOut'
  BY <1>1 DEF StaleRunsOut
<1>7. CredentialsOfVersion'
  <2>1. \A t \in tokens \cup mail : OfVersion(t)'
    BY <1>3 DEF CredentialsOfVersion, OfVersion, Signed!TypeOK
  <2>2. ASSUME NEW code \in passes PROVE Accepted(code.holder, code.asked)'
    <3>1. /\ code.holder \in Signed!Credentials /\ code.asked \in Nat
          /\ Accepted(code.holder, code.asked)
      BY DEF CredentialsOfVersion, Signed!TypeOK, Signed!Codes, Signed!Times
    <3> QED
      BY <1>3, <1>4, <3>1 DEF Accepted, OfVersion, Crossed
  <2> QED
    BY <2>1, <2>2 DEF CredentialsOfVersion
<1> QED
  BY <1>2, <1>5, <1>6, <1>7

\* A new password that is sent leaves the version and its sessions.
LEMMA ReplaceKeepsSessions == SessionInv /\ Signed!ReplacePassword => SessionInv'
<1> SUFFICES ASSUME SessionInv, Signed!ReplacePassword PROVE SessionInv'
  OBVIOUS
<1> USE SessionsAssumption
    DEF SessionInv, Signed!ReplacePassword, Signed!SetPassword, Signed!signedVars
<1>1. Signed!TypeOK' /\ VersionBehind'
  BY DEF Signed!TypeOK, VersionBehind, Signed!Accounts, Signed!Passwords
<1>2. JobsHeld'
  BY DEF JobsHeld, JobHeld, Accepted, OfVersion, Crossed
<1>3. StaleRunsOut' /\ CredentialsOfVersion'
  BY DEF StaleRunsOut, CredentialsOfVersion, Accepted, OfVersion, Crossed
<1> QED
  BY <1>1, <1>2, <1>3

\* The account is blocked or let in: its version stays.
LEMMA SwitchKeepsSessions == SessionInv /\ Signed!Switch => SessionInv'
<1> SUFFICES ASSUME SessionInv, Signed!Switch PROVE SessionInv'
  OBVIOUS
<1> USE SessionsAssumption DEF SessionInv, Signed!Switch, Signed!signedVars
<1>1. account' \in Signed!Accounts /\ account'.version = account.version
  BY DEF Signed!TypeOK, Signed!Accounts
<1>2. Signed!TypeOK' /\ VersionBehind'
  BY <1>1 DEF Signed!TypeOK, VersionBehind
<1>3. JobsHeld'
  <2> SUFFICES ASSUME NEW h \in Handlers PROVE JobHeld(signing[h])'
    BY DEF JobsHeld
  <2>1. JobHeld(signing[h])
    BY DEF JobsHeld
  <2>2. changedAt' = clock
    OBVIOUS
  <2> QED
    BY <1>1, <2>1, <2>2 DEF JobHeld, Accepted, OfVersion, Crossed
<1>4. StaleRunsOut' /\ CredentialsOfVersion'
  BY <1>1 DEF StaleRunsOut, CredentialsOfVersion, Accepted, OfVersion, Crossed
<1> QED
  BY <1>2, <1>3, <1>4

\* A request goes on; what it issues and keeps is as it should be.
LEMMA RequestMoves ==
  ASSUME SessionInv, NEW h \in Handlers, NEW r, JobHeld(r),
         signing' = [signing EXCEPT ![h] = r], UNCHANGED Signed!accountVars,
         UNCHANGED cache, NEW T \in SUBSET Signed!Credentials, NEW C \in SUBSET Signed!Codes,
         \A t \in T : OfVersion(t), \A code \in C : Accepted(code.holder, code.asked),
         tokens' \cup mail' \subseteq tokens \cup mail \cup T, passes' \subseteq passes \cup C
  PROVE  SessionInv'
<1> USE DEF SessionInv, Signed!accountVars
<1>1. /\ \A k \in Handlers : signing'[k] = IF k = h THEN r ELSE signing[k]
      /\ DOMAIN signing' = Handlers /\ signing' = [k \in Handlers |-> signing'[k]]
  BY DEF JobsHeld
<1>2. \A k \in Handlers : JobHeld(signing'[k])
  BY <1>1 DEF JobsHeld
<1>3. JobsHeld'
  BY <1>1, <1>2 DEF JobsHeld, JobHeld, Accepted, OfVersion, Crossed
<1>4. Signed!TypeOK'
  BY <1>2 DEF Signed!TypeOK, JobHeld, RequestRecord
<1>5. VersionBehind' /\ StaleRunsOut'
  BY DEF VersionBehind, StaleRunsOut
<1>6. CredentialsOfVersion'
  <2>1. \A t \in tokens' \cup mail' : OfVersion(t)
    BY DEF CredentialsOfVersion
  <2>2. \A code \in passes' : Accepted(code.holder, code.asked)
    BY DEF CredentialsOfVersion
  <2> QED
    BY <2>1, <2>2 DEF CredentialsOfVersion, Accepted, OfVersion, Crossed
<1> QED
  BY <1>3, <1>4, <1>5, <1>6

\* A request goes on that issues nothing.
LEMMA SigningGoesOn ==
  ASSUME SessionInv, NEW h \in Handlers, NEW r, JobHeld(r),
         signing' = [signing EXCEPT ![h] = r], UNCHANGED Signed!accountVars,
         UNCHANGED <<cache, tokens, mail>>, passes' \subseteq passes
  PROVE  SessionInv'
<1>1. /\ {} \in SUBSET Signed!Credentials /\ {} \in SUBSET Signed!Codes
      /\ \A t \in {} : OfVersion(t)
      /\ \A code \in {} : Accepted(code.holder, code.asked)
      /\ tokens' \cup mail' \subseteq tokens \cup mail \cup {} /\ passes' \subseteq passes \cup {}
  OBVIOUS
<1> QED
  BY <1>1, RequestMoves

\* What is made of a session that was accepted is of the version of now, or was let
\* through to it.
LEMMA PassedIsOfVersion ==
  ASSUME SessionInv, NEW holder \in Signed!Credentials, NEW asked \in Signed!Times,
         Accepted(holder, asked)
  PROVE  /\ Signed!Passed(holder, asked) \in Signed!Credentials
         /\ Signed!Passed(holder, asked).version = account.version
         /\ OfVersion(Signed!Passed(holder, asked))
BY DEF SessionInv, Accepted, OfVersion, Signed!Passed, Signed!Credentials, Signed!TypeOK,
       Signed!Accounts, Signed!Passwords

\* Whoever is let in holds a credential of the version that was read.
LEMMA AdmittedKeepsSessions ==
  ASSUME SessionInv, NEW h \in Handlers, NEW holder \in Signed!Credentials,
         holder.version = account.version, OfVersion(holder),
         Signed!Admitted(h, holder), UNCHANGED Signed!accountVars,
         UNCHANGED <<cache, tokens, mail>>, passes' \subseteq passes
  PROVE  SessionInv'
<1> DEFINE r == [Signed!Idle EXCEPT !.op = "sign", !.read = account, !.holder = holder]
<1>1. JobHeld(r)
  <2>1. /\ Signed!Idle \in RequestRecord /\ account \in Signed!Accounts
    BY IdleJobHeld DEF JobHeld, SessionInv, Signed!TypeOK
  <2>2. /\ r \in RequestRecord /\ r.op = "sign" /\ r.holder = holder /\ r.read = account
    BY <2>1 DEF RequestRecord
  <2> HIDE DEF r
  <2> QED
    BY <2>2 DEF JobHeld
<1>2. signing' = [signing EXCEPT ![h] = r]
  BY DEF Signed!Admitted
<1> HIDE DEF r
<1> QED
  BY <1>1, <1>2, SigningGoesOn

\* Whoever signs in does it with a password of the version, with a link of it, or with
\* a code of a session that was accepted.
LEMMA SignKeepsSessions ==
  ASSUME SessionInv, NEW h \in Handlers,
         \/ \E entered \in Signed!Passwords : Signed!Login(h, entered)
         \/ \E link \in mail : Signed!AutoLogin(h, link)
         \/ \E code \in passes : Signed!Exchange(h, code)
  PROVE  SessionInv'
<1> USE SessionsAssumption
<1>1. ASSUME NEW entered \in Signed!Passwords, Signed!Login(h, entered) PROVE SessionInv'
  <2> DEFINE c == [version |-> account.version, password |-> entered, crossed |-> 0]
  <2>1. /\ c \in Signed!Credentials /\ c.version = account.version /\ OfVersion(c)
    BY <1>1 DEF Signed!Login, SessionInv, Signed!TypeOK, Signed!Accounts, Signed!Credentials,
                Signed!Passwords, Signed!Times, OfVersion
  <2>2. Signed!Admitted(h, c) /\ UNCHANGED Signed!accountVars
        /\ UNCHANGED <<cache, tokens, mail, passes>>
    BY <1>1 DEF Signed!Login
  <2> HIDE DEF c
  <2> QED
    BY <2>1, <2>2, AdmittedKeepsSessions
<1>2. ASSUME NEW link \in mail, Signed!AutoLogin(h, link) PROVE SessionInv'
  <2>1. link \in Signed!Credentials /\ OfVersion(link)
    BY DEF SessionInv, Signed!TypeOK, CredentialsOfVersion
  <2> QED
    BY <1>2, <2>1, AdmittedKeepsSessions DEF Signed!AutoLogin
<1>3. ASSUME NEW code \in passes, Signed!Exchange(h, code) PROVE SessionInv'
  <2>1. /\ code.holder \in Signed!Credentials /\ code.asked \in Signed!Times
        /\ Accepted(code.holder, code.asked)
    BY DEF SessionInv, Signed!TypeOK, Signed!Codes, CredentialsOfVersion
  <2>2. passes' \subseteq passes
    BY <1>3 DEF Signed!Exchange
  <2> QED
    BY <1>3, <2>1, <2>2, PassedIsOfVersion, AdmittedKeepsSessions DEF Signed!Exchange
<1> QED
  BY <1>1, <1>2, <1>3

\* A session is opened with the version that was read; an account is looked up.
LEMMA AnswerKeepsSessions ==
  ASSUME SessionInv, NEW h \in Handlers, Signed!Sign(h) \/ Signed!ReadAccount(h)
  PROVE  SessionInv'
<1> USE SessionsAssumption
<1>1. JobHeld(signing[h])
  BY DEF SessionInv, JobsHeld
<1>2. CASE Signed!Sign(h)
  <2> DEFINE t == [signing[h].holder EXCEPT !.version = signing[h].read.version]
  <2>1. signing[h].op = "sign" /\ tokens' = tokens \cup {t}
        /\ signing' = [signing EXCEPT ![h] = Signed!Idle] /\ UNCHANGED Signed!accountVars
        /\ UNCHANGED <<cache, mail, passes>>
    BY <1>2 DEF Signed!Sign, Signed!Issue
  <2>2. t \in Signed!Credentials /\ OfVersion(t)
    <3>1. signing[h].holder \in Signed!Credentials
          /\ signing[h].holder.version = signing[h].read.version /\ OfVersion(signing[h].holder)
      BY <1>1, <2>1 DEF JobHeld, RequestRecord
    <3>2. t = signing[h].holder
      BY <3>1 DEF Signed!Credentials
    <3> QED
      BY <3>1, <3>2
  <2> HIDE DEF t
  <2>3. {t} \in SUBSET Signed!Credentials /\ {} \in SUBSET Signed!Codes
        /\ tokens' \cup mail' \subseteq tokens \cup mail \cup {t}
        /\ passes' \subseteq passes \cup {}
    BY <2>1, <2>2
  <2> QED
    BY <2>1, <2>2, <2>3, IdleJobHeld, RequestMoves
<1>3. CASE Signed!ReadAccount(h)
  <2> DEFINE r == [signing[h] EXCEPT !.op = "fill", !.read = account]
  <2>1. /\ signing[h].op = "read" /\ signing' = [signing EXCEPT ![h] = r]
        /\ UNCHANGED Signed!accountVars /\ UNCHANGED <<cache, tokens, mail, passes>>
    BY <1>3 DEF Signed!ReadAccount
  <2>2. /\ r \in RequestRecord /\ r.op = "fill" /\ r.read = account
        /\ r.process = signing[h].process /\ r.since = signing[h].since
    BY <1>1 DEF JobHeld, RequestRecord, SessionInv, Signed!TypeOK
  <2> HIDE DEF r
  <2>3. JobHeld(r)
    BY <1>1, <2>1, <2>2 DEF JobHeld
  <2> QED
    BY <2>1, <2>3, SigningGoesOn
<1> QED
  BY <1>2, <1>3

\* A request that is let through by what is kept, or that looks up the account, holds
\* since when.
LEMMA EnterKeepsSessions ==
  ASSUME SessionInv, NEW h \in Handlers, NEW p \in Backends,
         Signed!Enter(h, p) \/ \E token \in tokens : Signed!Accept(h, p, token)
  PROVE  SessionInv'
<1> USE SessionsAssumption
<1>1. clock \in Signed!Times /\ clock > 0 /\ clock \in Nat /\ Signed!Idle \in RequestRecord
  BY IdleJobHeld DEF SessionInv, Signed!TypeOK, JobHeld, Signed!Times
<1>2. CASE Signed!Enter(h, p)
  <2> DEFINE r == [Signed!Idle EXCEPT !.op = "read", !.process = p, !.since = clock]
  <2>1. /\ signing' = [signing EXCEPT ![h] = r]
        /\ UNCHANGED Signed!accountVars /\ UNCHANGED <<cache, tokens, mail, passes>>
    BY <1>2 DEF Signed!Enter, SessionInv, JobsHeld
  <2>2. /\ r \in RequestRecord /\ r.op = "read" /\ r.process = p /\ r.since = clock
    BY <1>1 DEF RequestRecord
  <2> HIDE DEF r
  <2>3. JobHeld(r)
    BY <1>1, <2>2 DEF JobHeld
  <2> QED
    BY <2>1, <2>3, SigningGoesOn
<1>3. ASSUME NEW token \in tokens, Signed!Accept(h, p, token) PROVE SessionInv'
  <2> DEFINE r == [Signed!Idle EXCEPT !.op = "pass", !.holder = token, !.since = clock]
  <2>1. /\ signing' = [signing EXCEPT ![h] = r]
        /\ UNCHANGED Signed!accountVars /\ UNCHANGED <<cache, tokens, mail, passes>>
        /\ cache[p].expires > clock /\ cache[p].account.version = token.version
    BY <1>3 DEF Signed!Accept, Signed!Passes, Signed!Fresh
  <2>2. token \in Signed!Credentials /\ OfVersion(token)
    BY DEF SessionInv, Signed!TypeOK, CredentialsOfVersion
  <2>3. /\ r \in RequestRecord /\ r.op = "pass" /\ r.holder = token /\ r.since = clock
    BY <1>1, <2>2 DEF RequestRecord
  <2>4. token.version # account.version => Crossed(clock)
    <3>1. /\ cache[p].expires \in Nat /\ rotatedAt \in Nat
          /\ token.version # account.version => cache[p].expires <= rotatedAt + Ttl
      BY <2>1 DEF SessionInv, StaleRunsOut, Signed!TypeOK, Signed!Times
    <3> QED
      BY <1>1, <2>1, <3>1 DEF Crossed
  <2> HIDE DEF r
  <2>5. JobHeld(r)
    BY <1>1, <2>2, <2>3, <2>4 DEF JobHeld, Accepted
  <2> QED
    BY <2>1, <2>5, SigningGoesOn
<1> QED
  BY <1>2, <1>3

\* What is kept counts from before the account was read, and so does the session that
\* goes on.
LEMMA FillKeepsSessions ==
  ASSUME SessionInv, NEW h \in Handlers, Signed!Fill(h)
  PROVE  SessionInv'
<1> USE SessionsAssumption
<1> DEFINE p == signing[h].process
           began == signing[h].since
           filled == [account |-> signing[h].read, expires |-> signing[h].since + Ttl]
<1>1. JobHeld(signing[h]) /\ signing[h].op = "fill" /\ UNCHANGED Signed!accountVars
      /\ UNCHANGED <<tokens, mail, passes>>
  BY DEF SessionInv, JobsHeld, Signed!Fill, Signed!Keep
<1>2. /\ p \in Backends /\ began \in Signed!Times /\ began > 0 /\ began <= clock
      /\ clock \in Nat /\ rotatedAt \in Nat /\ changedAt \in Nat
  BY <1>1 DEF JobHeld, RequestRecord, SessionInv, VersionBehind, Signed!TypeOK
<1>3. /\ filled \in [account : Signed!Accounts, expires : 0..(LastSecond + Ttl)]
      /\ filled.expires <= clock + Ttl
      /\ filled.account # account => filled.expires <= changedAt + Ttl
      /\ filled.account.version # account.version => filled.expires <= rotatedAt + Ttl
  BY <1>1, <1>2 DEF JobHeld, RequestRecord, Signed!Times
<1>4. cache' = [cache EXCEPT ![p] = filled] \/ cache' = cache
  BY DEF Signed!Fill, Signed!Keep
<1>5. PICK r : JobHeld(r) /\ signing' = [signing EXCEPT ![h] = r]
  <2>1. CASE signing' = [signing EXCEPT ![h] = Signed!Idle]
    BY <2>1, IdleJobHeld
  <2>2. ASSUME NEW token \in tokens, token.version = signing[h].read.version,
               Signed!Passes(h, token, began)
        PROVE  \E r : JobHeld(r) /\ signing' = [signing EXCEPT ![h] = r]
    <3> DEFINE r == [Signed!Idle EXCEPT !.op = "pass", !.holder = token, !.since = began]
    <3>1. token \in Signed!Credentials /\ OfVersion(token)
      BY DEF SessionInv, Signed!TypeOK, CredentialsOfVersion
    <3>2. token.version # account.version => Crossed(began)
      BY <1>1, <1>2, <2>2 DEF JobHeld, Crossed, Signed!Times
    <3>3. r \in RequestRecord /\ r.op = "pass" /\ r.holder = token /\ r.since = began
      BY <1>2, <3>1, IdleJobHeld DEF JobHeld, RequestRecord
    <3>4. signing' = [signing EXCEPT ![h] = r]
      BY <2>2 DEF Signed!Passes
    <3> HIDE DEF r
    <3>5. JobHeld(r)
      BY <1>2, <3>1, <3>2, <3>3 DEF JobHeld, Accepted
    <3> QED
      BY <3>4, <3>5
  <2> QED
    BY <2>1, <2>2 DEF Signed!Fill, Signed!Keep
<1> HIDE DEF p, began, filled
<1>6. SessionInv'
  <2> USE <1>1 DEF Signed!accountVars
  <2>1. /\ \A k \in Handlers : signing'[k] = IF k = h THEN r ELSE signing[k]
        /\ DOMAIN signing' = Handlers /\ signing' = [k \in Handlers |-> signing'[k]]
    BY <1>5 DEF SessionInv, JobsHeld
  <2>2. \A k \in Handlers : JobHeld(signing'[k])
    BY <1>5, <2>1 DEF SessionInv, JobsHeld
  <2>3. JobsHeld'
    BY <2>1, <2>2 DEF JobsHeld, JobHeld, Accepted, OfVersion, Crossed
  <2>4. cache' \in [Backends -> [account : Signed!Accounts, expires : 0..(LastSecond + Ttl)]]
    BY <1>2, <1>3, <1>4 DEF SessionInv, Signed!TypeOK
  <2>5. Signed!TypeOK' /\ VersionBehind'
    BY <2>2, <2>4 DEF SessionInv, Signed!TypeOK, JobHeld, RequestRecord, VersionBehind
  <2>6. StaleRunsOut'
    BY <1>2, <1>3, <1>4 DEF SessionInv, StaleRunsOut, Signed!TypeOK
  <2>7. CredentialsOfVersion'
    BY DEF SessionInv, CredentialsOfVersion, Accepted, OfVersion, Crossed
  <2> QED
    BY <2>3, <2>5, <2>6, <2>7 DEF SessionInv
<1> QED
  BY <1>6

\* A link or a code is made of a session that was accepted.
LEMMA BridgeKeepsSessions ==
  ASSUME SessionInv, NEW h \in Handlers, Signed!AppLink(h) \/ Signed!MembersSso(h)
  PROVE  SessionInv'
<1> USE SessionsAssumption
<1> DEFINE c == Signed!Passed(signing[h].holder, signing[h].since)
           code == [holder |-> signing[h].holder, asked |-> signing[h].since]
<1>1. /\ signing[h].op = "pass" /\ JobHeld(signing[h])
      /\ signing' = [signing EXCEPT ![h] = Signed!Idle] /\ UNCHANGED Signed!accountVars
      /\ UNCHANGED <<cache, tokens>>
  BY DEF Signed!AppLink, Signed!MembersSso, SessionInv, JobsHeld
<1>2. /\ signing[h].holder \in Signed!Credentials /\ signing[h].since \in Signed!Times
      /\ Accepted(signing[h].holder, signing[h].since)
  BY <1>1 DEF JobHeld, RequestRecord
<1>3. c \in Signed!Credentials /\ OfVersion(c)
  BY <1>2, PassedIsOfVersion
<1>4. code \in Signed!Codes /\ Accepted(code.holder, code.asked)
  BY <1>2 DEF Signed!Codes
<1>5. \/ mail' = mail \cup {c} /\ passes' = passes
      \/ mail' = mail /\ passes' = passes \cup {code}
  BY DEF Signed!AppLink, Signed!MembersSso
<1> HIDE DEF c, code
<1>6. /\ {c} \in SUBSET Signed!Credentials /\ {code} \in SUBSET Signed!Codes
      /\ \A t \in {c} : OfVersion(t)
      /\ \A k \in {code} : Accepted(k.holder, k.asked)
      /\ tokens' \cup mail' \subseteq tokens \cup mail \cup {c}
      /\ passes' \subseteq passes \cup {code}
  BY <1>1, <1>3, <1>4, <1>5
<1> QED
  BY <1>1, <1>6, IdleJobHeld, RequestMoves

\* Every step keeps the invariant.
LEMMA SessionNext == SessionInv /\ [Signed!Next]_(Signed!vars) => SessionInv'
<1> SUFFICES ASSUME SessionInv, [Signed!Next]_(Signed!vars) PROVE SessionInv'
  OBVIOUS
<1>1. CASE Signed!SendLink
  <2> USE <1>1 DEF Signed!SendLink, Signed!accountVars
  <2>1. /\ [version |-> account.version, password |-> password, crossed |-> 0]
             \in Signed!Credentials
        /\ OfVersion([version |-> account.version, password |-> password, crossed |-> 0])
    BY SessionsAssumption DEF SessionInv, Signed!TypeOK, Signed!Credentials, Signed!Accounts,
          Signed!Passwords, Signed!Times, OfVersion
  <2>2. Signed!TypeOK' /\ VersionBehind' /\ StaleRunsOut'
    BY <2>1 DEF SessionInv, Signed!TypeOK, VersionBehind, StaleRunsOut
  <2>3. JobsHeld'
    BY DEF SessionInv, JobsHeld, JobHeld, Accepted, OfVersion, Crossed
  <2>4. CredentialsOfVersion'
    BY <2>1 DEF SessionInv, CredentialsOfVersion, Accepted, OfVersion, Crossed
  <2> QED
    BY <2>2, <2>3, <2>4 DEF SessionInv
<1>2. CASE UNCHANGED Signed!vars
  <2> USE <1>2 DEF Signed!vars, Signed!signedVars
  <2>1. Signed!TypeOK' /\ VersionBehind' /\ StaleRunsOut'
    BY DEF SessionInv, Signed!TypeOK, VersionBehind, StaleRunsOut
  <2>2. JobsHeld' /\ CredentialsOfVersion'
    BY DEF SessionInv, JobsHeld, JobHeld, CredentialsOfVersion, Accepted, OfVersion, Crossed
  <2> QED
    BY <2>1, <2>2 DEF SessionInv
<1> QED
  BY <1>1, <1>2, TickKeepsSessions, ChangeKeepsSessions, ReplaceKeepsSessions,
     SwitchKeepsSessions, SignKeepsSessions, AnswerKeepsSessions, EnterKeepsSessions,
     FillKeepsSessions, BridgeKeepsSessions DEF Signed!Next

\* A process goes by what an account was no longer than the seconds of its cache
\* after the change, and a session that is still accepted was opened with a password
\* of the account's version, or goes back to one that was accepted before those seconds
\* were over (auth.middleware.ts, lib/authToken.ts, the links to the app and the codes
\* for the members' area).
THEOREM SessionsFollow == Signed!Spec => []SessionsFollowAccount
<1>1. SessionInv => SessionsFollowAccount
  <2> SUFFICES ASSUME SessionInv PROVE SessionsFollowAccount
    OBVIOUS
  <2> USE SessionsAssumption DEF SessionInv
  <2>1. Signed!RevokedInTime
    BY DEF Signed!RevokedInTime, Signed!Fresh, StaleRunsOut, VersionBehind, Signed!TypeOK
  <2>2. Signed!SessionsFollowPassword
    BY DEF Signed!SessionsFollowPassword, CredentialsOfVersion, OfVersion, Crossed
  <2> QED
    BY <2>1, <2>2 DEF SessionsFollowAccount, Signed!SessionsFollowAccount
<1> QED
  BY <1>1, SessionInit, SessionNext, PTL DEF Signed!Spec

-----------------------------------------------------------------------------
(* Codes and links for a new password *)

\* What a request holds, it holds whatever becomes of the rows.
LEMMA HeldStays ==
  ASSUME NEW j \in ResetJob, Held(j, codes, spent), RowsKept, SpentKept
  PROVE  Held(j, codes', spent')
BY DEF Held, RowsKept, SpentKept, ResetJob

\* The requests keep what they hold if the one that moves does.
LEMMA RequestsStayHeld ==
  ASSUME ResetTypes, RequestsHeld, RowsKept, SpentKept,
         NEW h \in Handlers, NEW j \in ResetJob, Held(j, codes', spent'),
         resetting' = [resetting EXCEPT ![h] = j]
  PROVE  RequestsHeld' /\ resetting' \in [Handlers -> ResetJob]
<1>1. resetting' \in [Handlers -> ResetJob]
  BY DEF ResetTypes
<1>2. ASSUME NEW g \in Handlers PROVE Held(resetting'[g], codes', spent')
  <2>1. CASE g = h
    BY <2>1 DEF ResetTypes
  <2>2. CASE g # h
    <3>1. resetting'[g] = resetting[g] /\ resetting[g] \in ResetJob /\ Held(resetting[g], codes, spent)
      BY <2>2 DEF ResetTypes, RequestsHeld
    <3> QED
      BY <3>1, HeldStays
  <2> QED
    BY <2>1, <2>2
<1> QED
  BY <1>1, <1>2 DEF RequestsHeld

\* They do if none moves.
LEMMA RequestsStillHeld ==
  ASSUME ResetTypes, RequestsHeld, RowsKept, SpentKept, resetting' = resetting
  PROVE  RequestsHeld'
<1> SUFFICES ASSUME NEW g \in Handlers PROVE Held(resetting'[g], codes', spent')
  BY DEF RequestsHeld
<1>1. resetting[g] \in ResetJob /\ Held(resetting[g], codes, spent)
  BY DEF ResetTypes, RequestsHeld
<1> QED
  BY <1>1, HeldStays

\* A request that has nothing in hand.
LEMMA IdleHeld == Reset!Idle \in ResetJob /\ Held(Reset!Idle, codes', spent')
BY DEF Reset!Idle, ResetJob, Held, Reset!NoCode

\* The requests that are about to count an attempt are a finite number.
LEMMA CountingFinite ==
  /\ Cardinality(Handlers) \in Nat
  /\ \A i : /\ IsFiniteSet(Counting(i)) /\ Cardinality(Counting(i)) \in Nat
            /\ Cardinality(Counting(i)) <= Cardinality(Handlers)
  /\ \A i : /\ IsFiniteSet(Counting(i)') /\ Cardinality(Counting(i)') \in Nat
            /\ Cardinality(Counting(i)') <= Cardinality(Handlers)
<1>1. IsFiniteSet(Handlers) /\ Cardinality(Handlers) \in Nat
  BY ResetAssumption, FS_CardinalityType
<1>2. ASSUME NEW S \in SUBSET Handlers
      PROVE  IsFiniteSet(S) /\ Cardinality(S) \in Nat /\ Cardinality(S) <= Cardinality(Handlers)
  BY <1>1, FS_Subset, FS_CardinalityType
<1>3. \A i : Counting(i) \in SUBSET Handlers /\ Counting(i)' \in SUBSET Handlers
  BY DEF Counting
<1> QED
  BY <1>1, <1>2, <1>3

\* The attempts have room when none is counted and no request joins.
LEMMA RoomStays ==
  ASSUME ResetTypes, AttemptsHaveRoom, RowsKept,
         \A i \in DOMAIN codes : codes'[i].attempts = codes[i].attempts,
         DOMAIN codes' = DOMAIN codes,
         \A h \in Handlers : resetting'[h].at = "count" => resetting'[h] = resetting[h]
  PROVE  AttemptsHaveRoom'
<1> SUFFICES ASSUME NEW i \in DOMAIN codes PROVE Room(i)'
  BY DEF AttemptsHaveRoom
<1>1. Room(i) /\ codes[i].attempts \in Nat
  <2>1. codes[i] \in CodeRow
    BY DEF ResetTypes
  <2> QED
    BY <2>1 DEF AttemptsHaveRoom, CodeRow
<1>2. Counting(i)' \in SUBSET Counting(i)
  BY DEF Counting
<1>3. Cardinality(Counting(i)') <= Cardinality(Counting(i))
  BY <1>2, CountingFinite, FS_Subset
<1> QED
  BY <1>1, <1>3, CountingFinite, ResetAssumption DEF Room

\* The invariant holds at first.
LEMMA ResetInit == Reset!Init => ResetInv
<1> SUFFICES ASSUME Reset!Init PROVE ResetInv
  OBVIOUS
<1>1. codes \in Seq(CodeRow) /\ Len(codes) = 0 /\ DOMAIN codes = {}
  BY DEF Reset!Init
<1>2. ResetTypes
  BY <1>1, ResetAssumption DEF ResetTypes, Reset!Init, ResetJob, Reset!Idle, Reset!NoCode, Spendable
<1>3. RequestsHeld
  BY DEF RequestsHeld, Held, Reset!Init, Reset!Idle, Reset!NoCode
<1>4. SpentIsDead
  BY DEF SpentIsDead, Reset!Init
<1>5. AttemptsHaveRoom
  BY <1>1 DEF AttemptsHaveRoom
<1> QED
  BY <1>2, <1>3, <1>4, <1>5 DEF ResetInv

\* A request that begins knows what had been spent.
LEMMA BeginKeepsReset ==
  ASSUME ResetInv, NEW h \in Handlers, NEW point \in {"drop", "find", "redeem"},
         NEW code \in Nat, NEW link \in Links \cup {"none"}, Reset!Begin(h, point, code, link),
         point = "redeem" => link \in Links /\ links[link] = "live",
         UNCHANGED <<codes, links, spent>>
  PROVE  ResetInv'
<1> DEFINE gone == {t \in Spendable : spent[t] > 0}
           j == [at |-> point, code |-> code, row |-> Reset!NoCode, link |-> link,
                 gone |-> gone, newest |-> Len(codes)]
<1>1. resetting' = [resetting EXCEPT ![h] = j]
  BY DEF Reset!Begin, Spendable
<1>2. j \in ResetJob
  BY DEF ResetInv, ResetTypes, ResetJob, Reset!NoCode
<1>3. RowsKept /\ SpentKept
  BY DEF ResetInv, ResetTypes, RowsKept, SpentKept
<1>4. Held(j, codes', spent')
  BY DEF Held, ResetInv, SpentIsDead
<1>5. j.at # "count"
  OBVIOUS
<1> HIDE DEF j
<1>6. ResetTypes' /\ RequestsHeld'
  <2>1. RequestsHeld' /\ resetting' \in [Handlers -> ResetJob]
    BY <1>1, <1>2, <1>3, <1>4, RequestsStayHeld DEF ResetInv
  <2> QED
    BY <2>1 DEF ResetInv, ResetTypes
<1>7. SpentIsDead'
  BY DEF ResetInv, SpentIsDead
<1>8. AttemptsHaveRoom'
  BY <1>1, <1>3, <1>5, RoomStays DEF ResetInv, ResetTypes
<1> QED
  BY <1>6, <1>7, <1>8 DEF ResetInv

\* A request that ends holds nothing.
LEMMA FinishKeepsReset ==
  ASSUME ResetInv, NEW h \in Handlers, Reset!Finish(h), UNCHANGED <<codes, links, spent>>
  PROVE  ResetInv'
<1>1. RowsKept /\ SpentKept
  BY DEF ResetInv, ResetTypes, RowsKept, SpentKept
<1>2. ResetTypes' /\ RequestsHeld'
  BY <1>1, IdleHeld, RequestsStayHeld DEF ResetInv, ResetTypes, Reset!Finish
<1>3. SpentIsDead'
  BY DEF ResetInv, SpentIsDead
<1>4. AttemptsHaveRoom'
  BY <1>1, RoomStays DEF ResetInv, ResetTypes, Reset!Finish, Reset!Idle
<1> QED
  BY <1>2, <1>3, <1>4 DEF ResetInv

\* A request that goes on with the row it has.
LEMMA GotoKeepsReset ==
  ASSUME ResetInv, NEW h \in Handlers, NEW point \in {"create", "set"}, Reset!Goto(h, point),
         RowsKept, UNCHANGED <<links, spent>>,
         point = "set" => resetting[h].at = "consume" /\ ~codes'[resetting[h].row].live
  PROVE  ResetTypes' /\ RequestsHeld'
<1> DEFINE j == [resetting[h] EXCEPT !.at = point]
<1>1. resetting' = [resetting EXCEPT ![h] = j]
  BY DEF Reset!Goto
<1>2. resetting[h] \in ResetJob /\ Held(resetting[h], codes, spent)
  BY DEF ResetInv, ResetTypes, RequestsHeld
<1>3. j \in ResetJob
  BY <1>2 DEF ResetJob
<1>4. SpentKept
  BY DEF ResetInv, ResetTypes, SpentKept
<1>5. Held(j, codes', spent')
  BY <1>2, <1>4 DEF Held, RowsKept, SpentKept, ResetJob
<1> HIDE DEF j
<1>6. RequestsHeld' /\ resetting' \in [Handlers -> ResetJob]
  BY <1>1, <1>3, <1>4, <1>5, RequestsStayHeld DEF ResetInv
<1> QED
  BY <1>6 DEF ResetInv, ResetTypes, RowsKept

\* A code is requested: older rows die, and a new one has not been spent.
LEMMA RequestKeepsReset ==
  ASSUME ResetInv, NEW h \in Handlers, Reset!Drop(h) \/ Reset!Create(h)
  PROVE  ResetInv'
<1> USE DEF ResetInv
<1>1. CASE Reset!Drop(h)
  <2> USE <1>1 DEF Reset!Drop
  <2>1. DOMAIN codes = 1..Len(codes) /\ Len(codes) \in Nat
    BY DEF ResetTypes
  <2>2. /\ \A i \in DOMAIN codes : /\ codes'[i] \in CodeRow /\ ~codes'[i].live
                                   /\ codes'[i].attempts = codes[i].attempts
        /\ DOMAIN codes' = DOMAIN codes
    <3>1. ASSUME NEW i \in DOMAIN codes PROVE codes[i] \in CodeRow
      BY DEF ResetTypes
    <3> QED
      BY <3>1 DEF CodeRow
  <2>3. codes' \in [1..Len(codes) -> CodeRow]
    BY <2>1, <2>2
  <2>4. codes' \in Seq(CodeRow) /\ Len(codes') = Len(codes)
    BY <2>1, <2>3, SeqDef, LenProperties
  <2>5. RowsKept
    BY <2>2, <2>4 DEF RowsKept, ResetTypes
  <2>6. ResetTypes' /\ RequestsHeld'
    BY <2>5, GotoKeepsReset
  <2>7. SpentIsDead'
    BY <2>2 DEF SpentIsDead
  <2>8. AttemptsHaveRoom'
    BY <2>2, <2>5, RoomStays DEF Reset!Goto, ResetTypes
  <2> QED
    BY <2>6, <2>7, <2>8
<1>2. CASE Reset!Create(h)
  <2> USE <1>2 DEF Reset!Create
  <2> DEFINE new == [live |-> TRUE, expired |-> FALSE, attempts |-> 0]
             n == Len(codes) + 1
  <2>1. new \in CodeRow /\ codes' = Append(codes, new)
    BY DEF CodeRow
  <2>2. /\ codes' \in Seq(CodeRow) /\ Len(codes') = n
        /\ DOMAIN codes = 1..Len(codes) /\ DOMAIN codes' = 1..n
        /\ \A i \in DOMAIN codes : codes'[i] = codes[i]
        /\ codes'[n] = new /\ n \in 1..LastCode
    BY <2>1, ResetAssumption DEF ResetTypes
  <2>3. RowsKept
    BY <2>2 DEF RowsKept
  <2>4. SpentKept
    BY DEF ResetTypes, SpentKept
  <2>5. RequestsHeld' /\ resetting' \in [Handlers -> ResetJob]
    BY <2>3, <2>4, IdleHeld, RequestsStayHeld DEF Reset!Finish
  <2>6. ResetTypes'
    BY <2>3, <2>5 DEF ResetTypes, RowsKept
  <2>7. SpentIsDead'
    BY <2>2 DEF SpentIsDead
  <2>8. ASSUME NEW i \in DOMAIN codes' PROVE Room(i)'
    <3>1. CASE i \in DOMAIN codes
      <4>1. Counting(i)' \in SUBSET Counting(i)
        BY DEF Counting, Reset!Finish, Reset!Idle, ResetTypes
      <4>2. Cardinality(Counting(i)') <= Cardinality(Counting(i))
        BY <4>1, CountingFinite, FS_Subset
      <4>3. Room(i) /\ codes'[i] = codes[i] /\ codes[i] \in CodeRow
        BY <2>2, <3>1 DEF AttemptsHaveRoom, ResetTypes
      <4> QED
        BY <4>2, <4>3, CountingFinite, ResetAssumption DEF Room, CodeRow
    <3>2. CASE i = n
      <4>1. codes'[i].attempts = 0
        BY <2>2, <3>2
      <4> QED
        BY <4>1, CountingFinite, ResetAssumption DEF Room
    <3> QED
      BY <2>2, <3>1, <3>2 DEF ResetTypes
  <2> QED
    BY <2>5, <2>6, <2>7, <2>8 DEF AttemptsHaveRoom
<1> QED
  BY <1>1, <1>2

\* One row is written.
LEMMA RowWritten ==
  ASSUME ResetTypes, NEW c \in DOMAIN codes, NEW new \in CodeRow,
         codes' = [codes EXCEPT ![c] = new], ~codes[c].live => ~new.live
  PROVE  /\ RowsKept /\ DOMAIN codes' = DOMAIN codes /\ codes'[c] = new
         /\ \A i \in DOMAIN codes : i # c => codes'[i] = codes[i]
<1>1. DOMAIN codes = 1..Len(codes)
  BY DEF ResetTypes
<1>2. codes' \in Seq(CodeRow) /\ Len(codes') = Len(codes)
  BY <1>1, ExceptSeq DEF ResetTypes
<1> QED
  BY <1>1, <1>2 DEF RowsKept, ResetTypes

\* A set of row numbers has a largest one.
LEMMA LargestExists ==
  ASSUME NEW n \in Nat, NEW T \in SUBSET (1..n), T # {}
  PROVE  \E c \in T : \A d \in T : d <= c
<1> DEFINE S == {n - c : c \in T}
           R == OpToRel(<, Nat)
<1>1. IsWellFoundedOn(R, Nat)
  BY NatLessThanWellFounded
<1>2. S \subseteq Nat /\ S # {}
  OBVIOUS
<1> HIDE DEF S, R
<1>3. PICK x \in S : \A y \in S : <<y, x>> \notin R
  BY <1>1, <1>2, WFMin
<1> USE DEF S, R
<1>4. PICK c \in T : x = n - c
  BY <1>3
<1>5. ASSUME NEW d \in T PROVE d <= c
  <2>1. <<n - d, x>> \notin R
    BY <1>3
  <2> QED
    BY <1>4, <2>1 DEF OpToRel
<1> QED
  BY <1>5

\* A code goes out of date.
LEMMA ExpireKeepsReset ==
  ASSUME ResetInv, NEW c \in Reset!Codes, Reset!Expire(c)
  PROVE  ResetInv'
<1> USE DEF ResetInv, Reset!Expire
<1> DEFINE new == [codes[c] EXCEPT !.expired = TRUE]
<1>1. codes[c] \in CodeRow /\ c \in DOMAIN codes
  BY DEF ResetTypes
<1>2. new \in CodeRow /\ new.live = codes[c].live /\ new.attempts = codes[c].attempts
  BY <1>1 DEF CodeRow
<1>3. codes' = [codes EXCEPT ![c] = new]
  OBVIOUS
<1> HIDE DEF new
<1>4. /\ RowsKept /\ DOMAIN codes' = DOMAIN codes /\ codes'[c] = new
      /\ \A i \in DOMAIN codes : i # c => codes'[i] = codes[i]
  BY <1>1, <1>2, <1>3, RowWritten
<1>5. SpentKept
  BY DEF ResetTypes, SpentKept
<1>6. ResetTypes' /\ RequestsHeld'
  BY <1>4, <1>5, RequestsStillHeld DEF ResetTypes, RowsKept
<1>7. SpentIsDead'
  BY <1>2, <1>4 DEF SpentIsDead
<1>8. AttemptsHaveRoom'
  BY <1>2, <1>4, RoomStays
<1> QED
  BY <1>6, <1>7, <1>8

\* A row that is found is live, so it was not spent; an attempt that is about to be
\* counted has room.
LEMMA FindKeepsReset ==
  ASSUME ResetInv, NEW h \in Handlers, Reset!Find(h)
  PROVE  ResetInv'
<1> USE DEF ResetInv
<1> DEFINE found == Reset!NewestLive
<1>1. CASE found = Reset!NoCode \/ codes[found].expired \/ codes[found].attempts >= CodeAttempts
  BY <1>1, FinishKeepsReset DEF Reset!Find, Reset!Finish
<1>2. CASE ~(found = Reset!NoCode \/ codes[found].expired \/ codes[found].attempts >= CodeAttempts)
  <2> DEFINE point == IF resetting[h].code = found THEN "consume" ELSE "count"
             j == [resetting[h] EXCEPT !.at = point, !.row = found]
  <2>1. resetting' = [resetting EXCEPT ![h] = j] /\ UNCHANGED <<codes, links, spent>>
    BY <1>2 DEF Reset!Find
  <2>2. /\ found \in DOMAIN codes /\ codes[found].live /\ found \in Reset!Codes
        /\ codes[found].attempts < CodeAttempts /\ codes[found] \in CodeRow
    <3> DEFINE live == {c \in DOMAIN codes : codes[c].live}
    <3>1. DOMAIN codes = 1..Len(codes) /\ Len(codes) \in Nat
      BY DEF ResetTypes
    <3>2. live # {} /\ found = CHOOSE c \in live : \A d \in live : d <= c
      BY <1>2 DEF Reset!NewestLive
    <3>3. \E c \in live : \A d \in live : d <= c
      <4>1. live \in SUBSET (1..Len(codes))
        BY <3>1
      <4> HIDE DEF live
      <4> QED
        BY <3>1, <3>2, <4>1, LargestExists
    <3> HIDE DEF live
    <3>4. found \in live
      BY <3>2, <3>3
    <3>5. found \in DOMAIN codes /\ codes[found].live
      BY <3>4 DEF live
    <3>6. codes[found] \in CodeRow
      BY <3>1, <3>5 DEF ResetTypes
    <3>7. codes[found].attempts < CodeAttempts
      BY <1>2, <3>6, ResetAssumption DEF CodeRow
    <3> QED
      BY <3>1, <3>5, <3>6, <3>7, ResetAssumption DEF Reset!Codes, ResetTypes
  <2>3. resetting[h] \in ResetJob /\ Held(resetting[h], codes, spent)
    BY DEF ResetTypes, RequestsHeld
  <2>4. found \in Nat
    BY <2>2, ResetAssumption DEF Reset!Codes
  <2> HIDE DEF found
  <2>5. j \in ResetJob /\ j.at = point /\ j.row = found /\ j.gone = resetting[h].gone
    BY <2>3, <2>4 DEF ResetJob
  <2>6. found \notin j.gone
    BY <2>2, <2>3, <2>5 DEF Held, SpentIsDead
  <2>7. RowsKept /\ SpentKept
    BY <2>1 DEF ResetTypes, RowsKept, SpentKept
  <2>8. Held(j, codes', spent')
    BY <2>1, <2>2, <2>3, <2>5, <2>6 DEF Held
  <2> HIDE DEF j
  <2>9. RequestsHeld' /\ resetting' \in [Handlers -> ResetJob]
    BY <2>1, <2>5, <2>7, <2>8, RequestsStayHeld
  <2>10. ResetTypes' /\ SpentIsDead'
    BY <2>1, <2>9 DEF ResetTypes, SpentIsDead
  <2>11. ASSUME NEW i \in DOMAIN codes PROVE Room(i)'
    <3>1. CASE i = found
      BY <2>1, <2>2, <3>1, CountingFinite, ResetAssumption DEF Room, CodeRow
    <3>2. CASE i # found
      <4>1. Counting(i)' \in SUBSET Counting(i)
        BY <2>1, <2>5, <3>2 DEF Counting, ResetTypes
      <4>2. Cardinality(Counting(i)') <= Cardinality(Counting(i))
        BY <4>1, CountingFinite, FS_Subset
      <4>3. Room(i) /\ codes'[i] = codes[i] /\ codes[i] \in CodeRow
        BY <2>1 DEF AttemptsHaveRoom, ResetTypes
      <4> QED
        BY <4>2, <4>3, CountingFinite, ResetAssumption DEF Room, CodeRow
    <3> QED
      BY <3>1, <3>2
  <2> QED
    BY <2>1, <2>9, <2>10, <2>11 DEF AttemptsHaveRoom
<1> QED
  BY <1>1, <1>2

\* An attempt that is counted was about to be.
LEMMA CountKeepsReset ==
  ASSUME ResetInv, NEW h \in Handlers, Reset!Count(h)
  PROVE  ResetInv'
<1> USE DEF ResetInv, Reset!Count, Reset!Finish
<1> DEFINE c == resetting[h].row
           new == [codes[c] EXCEPT !.attempts = @ + 1]
<1>1. c \in DOMAIN codes
  BY DEF RequestsHeld, Held
<1>2. codes[c] \in CodeRow
  BY <1>1 DEF ResetTypes
<1>3. new \in CodeRow /\ new.live = codes[c].live /\ new.attempts = codes[c].attempts + 1
  BY <1>2 DEF CodeRow
<1>4. codes' = [codes EXCEPT ![c] = new]
  OBVIOUS
<1> HIDE DEF new
<1>5. /\ RowsKept /\ DOMAIN codes' = DOMAIN codes /\ codes'[c] = new
      /\ \A i \in DOMAIN codes : i # c => codes'[i] = codes[i]
  BY <1>1, <1>2, <1>3, <1>4, RowWritten
<1>6. SpentKept
  BY DEF ResetTypes, SpentKept
<1>7. RequestsHeld' /\ resetting' \in [Handlers -> ResetJob]
  BY <1>5, <1>6, IdleHeld, RequestsStayHeld
<1>8. ResetTypes'
  BY <1>5, <1>7 DEF ResetTypes, RowsKept
<1>9. SpentIsDead'
  BY <1>3, <1>5 DEF SpentIsDead
<1>10. ASSUME NEW i \in DOMAIN codes PROVE Room(i)'
  <2>1. Room(i) /\ codes[i] \in CodeRow
    BY DEF AttemptsHaveRoom, ResetTypes
  <2>2. CASE i = c
    <3>1. Counting(i)' = Counting(i) \ {h} /\ h \in Counting(i)
      BY <2>2 DEF Counting, ResetTypes, Reset!Idle
    <3>2. Cardinality(Counting(i)') = Cardinality(Counting(i)) - 1
      BY <3>1, CountingFinite, FS_RemoveElement
    <3> QED
      BY <1>3, <1>5, <2>1, <2>2, <3>2, CountingFinite, ResetAssumption DEF Room, CodeRow
  <2>3. CASE i # c
    <3>1. Counting(i)' \in SUBSET Counting(i)
      BY DEF Counting, ResetTypes, Reset!Idle
    <3>2. Cardinality(Counting(i)') <= Cardinality(Counting(i))
      BY <3>1, CountingFinite, FS_Subset
    <3> QED
      BY <1>5, <2>1, <2>3, <3>2, CountingFinite, ResetAssumption DEF Room, CodeRow
  <2> QED
    BY <2>2, <2>3
<1> QED
  BY <1>5, <1>7, <1>8, <1>9, <1>10 DEF AttemptsHaveRoom

\* A code dies before it sets the password.
LEMMA ConsumeKeepsReset ==
  ASSUME ResetInv, NEW h \in Handlers, Reset!Consume(h)
  PROVE  ResetInv'
<1> USE DEF ResetInv, Reset!Consume
<1> DEFINE c == resetting[h].row
           new == [codes[c] EXCEPT !.live = FALSE]
<1>1. c \in DOMAIN codes
  BY DEF RequestsHeld, Held
<1>2. codes[c] \in CodeRow
  BY <1>1 DEF ResetTypes
<1>3. new \in CodeRow /\ ~new.live /\ new.attempts = codes[c].attempts
  BY <1>2 DEF CodeRow
<1>4. codes' = [codes EXCEPT ![c] = new]
  OBVIOUS
<1> HIDE DEF new
<1>5. /\ RowsKept /\ DOMAIN codes' = DOMAIN codes /\ codes'[c] = new
      /\ \A i \in DOMAIN codes : i # c => codes'[i] = codes[i]
  BY <1>1, <1>2, <1>3, <1>4, RowWritten
<1>6. ResetTypes' /\ RequestsHeld'
  BY <1>3, <1>5, GotoKeepsReset
<1>7. SpentIsDead'
  BY <1>3, <1>5 DEF SpentIsDead
<1>8. AttemptsHaveRoom'
  BY <1>3, <1>5, RoomStays DEF Reset!Goto, ResetTypes
<1> QED
  BY <1>6, <1>7, <1>8

\* What sets the password is dead by then: a code that was consumed, a link that is
\* marked in the same transaction.
LEMMA SetKeepsReset ==
  ASSUME ResetInv, NEW h \in Handlers, Reset!SetByCode(h) \/ Reset!Redeem(h)
  PROVE  ResetInv'
<1> USE DEF ResetInv, Reset!Finish
<1>1. Held(resetting[h], codes, spent)
  BY DEF RequestsHeld
<1>2. \A i : Counting(i)' \in SUBSET Counting(i)
  BY DEF Counting, ResetTypes, Reset!SetByCode, Reset!Redeem, Reset!Idle
<1>3. RowsKept /\ codes' = codes
  BY DEF RowsKept, ResetTypes, Reset!SetByCode, Reset!Redeem
<1>4. CASE Reset!SetByCode(h)
  <2> USE <1>4 DEF Reset!SetByCode
  <2> DEFINE c == resetting[h].row
  <2>1. c \in DOMAIN codes /\ ~codes[c].live /\ c \in Reset!Codes
    BY <1>1, ResetAssumption DEF Held, Reset!Codes, ResetTypes
  <2>2. SpentKept /\ \A t \in Spendable : t # c => spent'[t] = spent[t]
    BY <2>1 DEF SpentKept, ResetTypes, Spendable
  <2>3. RequestsHeld' /\ resetting' \in [Handlers -> ResetJob]
    BY <1>3, <2>2, IdleHeld, RequestsStayHeld
  <2>4. ResetTypes'
    BY <2>2, <2>3 DEF ResetTypes, SpentKept
  <2>5. SpentIsDead'
    BY <2>1, <2>2, ResetAssumption DEF SpentIsDead, Spendable, Reset!Codes
  <2>6. AttemptsHaveRoom'
    BY <1>3, RoomStays DEF Reset!Idle, ResetTypes
  <2> QED
    BY <2>3, <2>4, <2>5, <2>6
<1>5. CASE Reset!Redeem(h)
  <2> USE <1>5 DEF Reset!Redeem
  <2> DEFINE l == resetting[h].link
  <2>1. l \in Links
    BY <1>1 DEF Held
  <2>2. SpentKept /\ \A t \in Spendable : t # l => spent'[t] = spent[t]
    BY <2>1 DEF SpentKept, ResetTypes, Spendable
  <2>3. RequestsHeld' /\ resetting' \in [Handlers -> ResetJob]
    BY <1>3, <2>2, IdleHeld, RequestsStayHeld
  <2>4. ResetTypes'
    BY <2>1, <2>2, <2>3 DEF ResetTypes, SpentKept
  <2>5. SpentIsDead'
    <3>1. \A c \in Reset!Codes : c # l
      BY <2>1, ResetAssumption DEF Reset!Codes
    <3>2. \A k \in Links : links'[k] = IF k = l THEN "used" ELSE links[k]
      BY <2>1 DEF ResetTypes
    <3> QED
      BY <2>2, <3>1, <3>2 DEF SpentIsDead, Spendable
  <2>6. AttemptsHaveRoom'
    BY <1>3, RoomStays DEF Reset!Idle, ResetTypes
  <2> QED
    BY <2>3, <2>4, <2>5, <2>6
<1> QED
  BY <1>4, <1>5

\* A link is sent or goes out of date.
LEMMA LinkKeepsReset ==
  ASSUME ResetInv, NEW l \in Links, Reset!SendLink(l) \/ Reset!ExpireLink(l)
  PROVE  ResetInv'
<1> USE DEF ResetInv, Reset!SendLink, Reset!ExpireLink
<1>1. RowsKept /\ SpentKept
  BY DEF RowsKept, SpentKept, ResetTypes
<1>2. ResetTypes' /\ RequestsHeld'
  BY <1>1, RequestsStillHeld DEF ResetTypes
<1>3. SpentIsDead'
  BY DEF SpentIsDead, ResetTypes
<1>4. AttemptsHaveRoom'
  BY <1>1, RoomStays
<1> QED
  BY <1>2, <1>3, <1>4

\* Every step keeps the invariant.
LEMMA ResetNext == ResetInv /\ [Reset!Next]_(Reset!vars) => ResetInv'
<1> SUFFICES ASSUME ResetInv, [Reset!Next]_(Reset!vars) PROVE ResetInv'
  OBVIOUS
<1>1. ASSUME NEW h \in Handlers, Reset!Request(h) PROVE ResetInv'
  BY <1>1, BeginKeepsReset DEF Reset!Request, Reset!NoCode
<1>2. ASSUME NEW h \in Handlers, NEW c \in {Reset!NoCode} \cup Reset!Codes, Reset!Present(h, c)
      PROVE  ResetInv'
  BY <1>2, ResetAssumption, BeginKeepsReset DEF Reset!Present, Reset!NoCode, Reset!Codes
<1>3. ASSUME NEW h \in Handlers, NEW l \in Links, Reset!Follow(h, l) PROVE ResetInv'
  BY <1>3, BeginKeepsReset DEF Reset!Follow, Reset!NoCode
<1>4. ASSUME NEW h \in Handlers, Reset!Break(h) PROVE ResetInv'
  BY <1>4, FinishKeepsReset DEF Reset!Break
<1>5. CASE UNCHANGED Reset!vars
  <2> USE <1>5 DEF Reset!vars, ResetInv
  <2>1. ResetTypes' /\ RequestsHeld' /\ SpentIsDead'
    BY DEF ResetTypes, RequestsHeld, SpentIsDead
  <2>2. RowsKept
    BY DEF RowsKept, ResetTypes
  <2>3. AttemptsHaveRoom'
    BY <2>2, RoomStays
  <2> QED
    BY <2>1, <2>3
<1> QED
  BY <1>1, <1>2, <1>3, <1>4, <1>5, RequestKeepsReset, ExpireKeepsReset, FindKeepsReset,
     CountKeepsReset, ConsumeKeepsReset, SetKeepsReset, LinkKeepsReset DEF Reset!Next

\* The invariant says what the module's types say.
LEMMA ResetTyped == ResetInv => Reset!TypeOK
<1> SUFFICES ASSUME ResetInv PROVE Reset!TypeOK
  OBVIOUS
<1>1. \A i \in DOMAIN codes : codes[i] \in CodeRow
  BY DEF ResetInv, ResetTypes
<1>2. \A h \in Handlers : resetting[h].row \in {Reset!NoCode} \cup DOMAIN codes
  BY DEF ResetInv, RequestsHeld, Held
<1> QED
  BY <1>1, <1>2 DEF ResetInv, ResetTypes, Reset!TypeOK, CodeRow, Spendable

\* A code or link that has set a password sets none for a request that begins
\* later, and attempts at a code are limited but for those that were under way
\* (otp.service.ts; the password routes of auth.routes.ts).
THEOREM CodesAndLinksRunOut == Reset!Spec => []CodesRunOut
<1>1. ResetInv => CodesRunOut
  <2> SUFFICES ASSUME ResetInv PROVE CodesRunOut
    OBVIOUS
  <2>1. Reset!SpentIsSpent
    BY DEF ResetInv, RequestsHeld, Held, Reset!SpentIsSpent
  <2>2. ASSUME NEW i \in DOMAIN codes
        PROVE  codes[i].attempts < CodeAttempts + Cardinality(Handlers)
    <3>1. Room(i) /\ codes[i] \in CodeRow
      BY DEF ResetInv, AttemptsHaveRoom, ResetTypes
    <3> QED
      BY <3>1, CountingFinite, ResetAssumption DEF Room, CodeRow
  <2>3. Reset!Cardinality(Handlers) = Cardinality(Handlers)
    BY DEF Reset!Cardinality, Cardinality
  <2>4. Reset!AttemptsLimited
    BY <2>2, <2>3 DEF Reset!AttemptsLimited
  <2> QED
    BY <2>1, <2>4 DEF CodesRunOut, Reset!CodesRunOut
<1> QED
  BY <1>1, ResetInit, ResetNext, PTL DEF Reset!Spec

-----------------------------------------------------------------------------
(* The tenant at Komunika *)

\* The invariant holds at first.
LEMMA TenantInit == Tenant!Init => TenantInv
<1> SUFFICES ASSUME Tenant!Init PROVE TenantInv
  OBVIOUS
<1> USE TenantAssumption DEF Tenant!Init, Tenant!NoCall, Tenant!NewCall
<1>1. TenantTypes
  BY DEF TenantTypes, Tenant!TypeOK, CallRecord
<1>2. OneCall /\ CallsFit
  BY DEF OneCall, CallsFit, Fits, Tenant!Idle
<1>3. ColumnsFollow /\ TenantFollowsAccount
  BY DEF ColumnsFollow, Tenant!ActiveTenant, TenantFollowsAccount, Tenant!TenantFollowsAccount,
         Tenant!PayingHasTenant, Tenant!LapsedHasNone
<1> QED
  BY <1>1, <1>2, <1>3 DEF TenantInv

\* While a call is under way nothing is asked of the account.
LEMMA UnderWayFollows ==
  ASSUME NEW c \in Calls, ~Tenant!Idle(c)'
  PROVE  TenantFollowsAccount'
BY DEF TenantFollowsAccount, Tenant!TenantFollowsAccount, Tenant!PayingHasTenant,
       Tenant!LapsedHasNone, Tenant!AtRest

\* An event starts a call.
LEMMA EventKeepsTenant ==
  ASSUME TenantInv, ~Overlapping, NEW c \in Calls,
         \/ Tenant!Approve(c) \/ Tenant!StripeRenew(c) \/ Tenant!PaymentFails(c)
         \/ Tenant!Lapse(c) \/ Tenant!Deactivate(c)
  PROVE  TenantInv'
<1> USE TenantAssumption DEF TenantInv
<1>1. /\ \A k \in Calls : Tenant!Idle(k)
      /\ UNCHANGED <<columns, remote, torn>>
  BY DEF Tenant!Approve, Tenant!StripeRenew, Tenant!PaymentFails, Tenant!Lapse, Tenant!Deactivate,
         Tenant!MayHappen
<1>2. PICK new \in CallRecord : Begins(c, new)
  <2> DEFINE R(op, at, status, done) ==
        [op |-> op, at |-> at, tries |-> 0, status |-> status, end |-> 0, done |-> done]
  <2>1. CASE Tenant!Approve(c)
    <3>1. R("sync", "look", "active", FALSE) \in CallRecord
      BY DEF CallRecord
    <3>2. /\ call' = [call EXCEPT ![c] = R("sync", "look", "active", FALSE)]
          /\ last' = [event |-> "paid", by |-> c, ok |-> FALSE]
      BY <2>1 DEF Tenant!NewCall, Tenant!Approve, Tenant!Start, Tenant!Happened
    <3> QED
      BY <3>1, <3>2 DEF Begins
  <2>2. CASE Tenant!StripeRenew(c)
    <3>1. R("update", "read", "active", FALSE) \in CallRecord
      BY DEF CallRecord
    <3>2. /\ call' = [call EXCEPT ![c] = R("update", "read", "active", FALSE)]
          /\ last' = [event |-> "paid", by |-> c, ok |-> FALSE]
          /\ Tenant!ActiveTenant
      BY <2>2 DEF Tenant!NewCall, Tenant!StripeRenew, Tenant!Start, Tenant!Happened
    <3> QED
      BY <3>1, <3>2 DEF Begins
  <2>3. CASE Tenant!PaymentFails(c)
    <3>1. R("update", "read", "past_due", FALSE) \in CallRecord
      BY DEF CallRecord
    <3>2. /\ call' = [call EXCEPT ![c] = R("update", "read", "past_due", FALSE)]
          /\ last' = [event |-> "unpaid", by |-> c, ok |-> FALSE]
      BY <2>3 DEF Tenant!NewCall, Tenant!PaymentFails, Tenant!Start, Tenant!Happened
    <3> QED
      BY <3>1, <3>2 DEF Begins
  <2>4. CASE Tenant!Lapse(c)
    <3>1. R("deprovision", "read", "active", FALSE) \in CallRecord
      BY DEF CallRecord
    <3>2. /\ call' = [call EXCEPT ![c] = R("deprovision", "read", "active", FALSE)]
          /\ last' = [event |-> "lapsed", by |-> c, ok |-> FALSE]
      BY <2>4 DEF Tenant!NewCall, Tenant!Lapse, Tenant!Start, Tenant!Happened
    <3> QED
      BY <3>1, <3>2 DEF Begins
  <2>5. CASE Tenant!Deactivate(c)
    <3>1. (~Tenant!ActiveTenant) \in BOOLEAN
      BY DEF Tenant!ActiveTenant
    <3>2. R("deprovision", "admin", "active", ~Tenant!ActiveTenant) \in CallRecord
      BY <3>1 DEF CallRecord
    <3>3. /\ call' = [call EXCEPT ![c] = R("deprovision", "admin", "active", ~Tenant!ActiveTenant)]
          /\ last' = [event |-> "lapsed", by |-> c, ok |-> FALSE]
      BY <2>5 DEF Tenant!NewCall, Tenant!Deactivate, Tenant!Happened
    <3> QED
      BY <3>2, <3>3 DEF Begins
  <2> QED
    BY <2>1, <2>2, <2>3, <2>4, <2>5
<1>3. /\ \A k \in Calls : k # c => call'[k] = call[k]
      /\ call'[c] = new /\ call' \in [Calls -> CallRecord]
      /\ new.at \in {"look", "read", "admin"}
      /\ last'.by = c /\ ~last'.ok
      /\ last' \in [event : {"none", "paid", "unpaid", "lapsed", "cancelled"},
                    by : Calls \cup {None}, ok : BOOLEAN]
  BY <1>2 DEF TenantTypes, Begins
<1>4. member' \in [pays : BOOLEAN, end : 0..LastPeriod]
  <2>1. member \in [pays : BOOLEAN, end : 0..LastPeriod]
    BY DEF TenantTypes, Tenant!TypeOK
  <2>2. CASE Tenant!Approve(c) \/ Tenant!StripeRenew(c)
    <3>1. member.end + 1 \in 0..LastPeriod /\ member' = [pays |-> TRUE, end |-> member.end + 1]
      BY <2>1, <2>2 DEF Tenant!Approve, Tenant!StripeRenew
    <3> QED
      BY <3>1
  <2>3. CASE Tenant!PaymentFails(c) \/ Tenant!Lapse(c) \/ Tenant!Deactivate(c)
    BY <2>1, <2>3 DEF Tenant!PaymentFails, Tenant!Lapse, Tenant!Deactivate
  <2> QED
    BY <2>2, <2>3
<1>5. TenantTypes'
  BY <1>1, <1>3, <1>4 DEF TenantTypes, Tenant!TypeOK, CallRecord
<1>6. OneCall'
  BY <1>1, <1>3 DEF OneCall, Tenant!Idle
<1>7. CallsFit'
  <2>1. ASSUME NEW k \in Calls, k # c PROVE Fits(k)'
    <3>1. call'[k].at = "idle" /\ call'[k].op = "none"
      BY <1>1, <1>3, <2>1 DEF CallsFit, Fits, Tenant!Idle
    <3> QED
      BY <3>1 DEF Fits, Tenant!Idle
  <2>2. Fits(c)'
    BY <1>1, <1>2, <1>3 DEF Fits, Tenant!Idle, Tenant!ActiveTenant, Begins
  <2> QED
    BY <2>1, <2>2 DEF CallsFit
<1>8. ColumnsFollow'
  <2>1. ~Under("deprovision") /\ ~Under("provision") /\ ~Under("deprovision")' /\ ~Under("provision")'
    BY <1>1, <1>3 DEF Under, Tenant!Idle
  <2> QED
    BY <1>1, <2>1 DEF ColumnsFollow, Tenant!ActiveTenant
<1>9. TenantFollowsAccount'
  BY <1>3, UnderWayFollows DEF Tenant!Idle
<1> QED
  BY <1>5, <1>6, <1>7, <1>8, <1>9

\* While a call is under way, it is of the last event and the others are idle.
LEMMA OthersIdle ==
  ASSUME TenantInv, NEW c \in Calls, ~Tenant!Idle(c)
  PROVE  /\ call \in [Calls -> CallRecord] /\ call[c] \in CallRecord /\ TablesTyped
         /\ last \in [event : {"none", "paid", "unpaid", "lapsed", "cancelled"},
                      by : Calls \cup {None}, ok : BOOLEAN]
         /\ last.by = c /\ ~last.ok /\ Fits(c)
         /\ \A k \in Calls : k # c => call[k].at = "idle" /\ call[k].op = "none"
<1>1. \A k \in Calls : k # c => Tenant!Idle(k)
  BY DEF TenantInv, OneCall
<1>2. call \in [Calls -> CallRecord] /\ TablesTyped
  BY DEF TenantInv, TenantTypes, Tenant!TypeOK, TablesTyped
<1>3. \A k \in Calls : k # c => call[k].at = "idle" /\ call[k].op = "none"
  BY <1>1 DEF TenantInv, CallsFit, Fits, Tenant!Idle
<1> QED
  BY <1>2, <1>3 DEF TenantInv, TenantTypes, CallsFit, OneCall

\* A call goes on.
LEMMA GoesOn ==
  ASSUME TenantInv, NEW c \in Calls, ~Tenant!Idle(c), NEW new \in CallRecord,
         new.at # "idle", call' = [call EXCEPT ![c] = new], UNCHANGED last,
         TablesTyped', Fits(c)', ColumnsFollow'
  PROVE  TenantInv'
<1>1. /\ call' \in [Calls -> CallRecord] /\ call'[c] = new
      /\ \A k \in Calls : k # c => call'[k].at = "idle" /\ call'[k].op = "none"
  BY OthersIdle
<1>2. TenantTypes'
  BY <1>1, OthersIdle DEF TenantTypes, Tenant!TypeOK, TablesTyped, CallRecord
<1>3. OneCall'
  BY <1>1, OthersIdle DEF OneCall, Tenant!Idle
<1>4. CallsFit'
  <2> SUFFICES ASSUME NEW k \in Calls, k # c PROVE Fits(k)'
    BY DEF CallsFit
  <2> QED
    BY <1>1 DEF Fits, Tenant!Idle
<1>5. TenantFollowsAccount'
  BY <1>1, UnderWayFollows DEF Tenant!Idle
<1> QED
  BY <1>2, <1>3, <1>4, <1>5 DEF TenantInv

\* A call ends; when well, then the tenant is as it was asked for.
LEMMA Ends ==
  ASSUME TenantInv, NEW c \in Calls, ~Tenant!Idle(c), NEW ok \in BOOLEAN,
         call' = [call EXCEPT ![c] = Tenant!NoCall],
         last' = IF last.by = c THEN [last EXCEPT !.ok = ok] ELSE last,
         TablesTyped', ColumnsFollow', ok => TenantFollowsAccount'
  PROVE  TenantInv'
<1>1. Tenant!NoCall \in CallRecord /\ Tenant!NoCall.at = "idle" /\ Tenant!NoCall.op = "none"
      /\ ~Tenant!NoCall.done
  BY TenantAssumption DEF Tenant!NoCall, Tenant!NewCall, CallRecord
<1>2. /\ call' \in [Calls -> CallRecord]
      /\ \A k \in Calls : call'[k].at = "idle" /\ call'[k].op = "none"
  BY <1>1, OthersIdle
<1>3. /\ last' \in [event : {"none", "paid", "unpaid", "lapsed", "cancelled"},
                    by : Calls \cup {None}, ok : BOOLEAN]
      /\ last'.ok = ok
  BY OthersIdle
<1>4. TenantTypes'
  BY <1>2, <1>3 DEF TenantTypes, Tenant!TypeOK, TablesTyped, CallRecord
<1>5. OneCall' /\ CallsFit'
  BY <1>2 DEF OneCall, CallsFit, Fits, Tenant!Idle
<1>6. TenantFollowsAccount'
  BY <1>3 DEF TenantFollowsAccount, Tenant!TenantFollowsAccount, Tenant!PayingHasTenant,
              Tenant!LapsedHasNone
<1> QED
  BY <1>4, <1>5, <1>6 DEF TenantInv

\* No call has had its effect unwritten but the one under way.
LEMMA UnderIsOfCall ==
  ASSUME TenantInv, NEW c \in Calls, ~Tenant!Idle(c), NEW new \in CallRecord,
         call' = [call EXCEPT ![c] = new], NEW op \in {"provision", "deprovision"}
  PROVE  /\ Under(op) <=> call[c].op = op /\ call[c].at \in {"send", "write"} /\ call[c].done
         /\ Under(op)' <=> new.op = op /\ new.at \in {"send", "write"} /\ new.done
BY OthersIdle DEF Under

\* An administrator's deactivation of the account is written.
LEMMA DeactivateWriteKeepsTenant ==
  ASSUME TenantInv, NEW c \in Calls, Tenant!DeactivateWrite(c)
  PROVE  TenantInv'
<1>1. call[c].at = "admin" /\ ~Tenant!Idle(c)
  BY DEF Tenant!DeactivateWrite, Tenant!Idle
<1>2. /\ call[c] \in CallRecord /\ TablesTyped /\ Fits(c) /\ call \in [Calls -> CallRecord]
      /\ last.by = c
  BY <1>1, OthersIdle
<1>3. UNCHANGED <<columns, remote, torn>> /\ member' = [member EXCEPT !.pays = FALSE]
  BY DEF Tenant!DeactivateWrite
<1>4. TablesTyped'
  BY <1>2, <1>3 DEF TablesTyped
<1>5. CASE call[c].done
  <2>1. /\ call' = [call EXCEPT ![c] = Tenant!NoCall]
        /\ last' = IF last.by = c THEN [last EXCEPT !.ok = TRUE] ELSE last
    BY <1>2, <1>5 DEF Tenant!DeactivateWrite
  <2>2. Tenant!NoCall \in CallRecord /\ Tenant!NoCall.op = "none"
    BY TenantAssumption DEF Tenant!NoCall, Tenant!NewCall, CallRecord
  <2>3. ColumnsFollow'
    BY <1>1, <1>3, <2>1, <2>2, UnderIsOfCall DEF TenantInv, ColumnsFollow, Tenant!ActiveTenant
  <2>4. ~Tenant!ActiveTenant /\ last.event = "lapsed" /\ call[c].op = "deprovision"
    BY <1>1, <1>2, <1>5 DEF Fits
  <2>5. "provision" \notin torn => remote.state \in {"none", "blocked"}
    BY <1>1, <2>1, <2>2, <2>4, UnderIsOfCall DEF TenantInv, ColumnsFollow
  <2>6. last'.event = "lapsed"
    BY <2>1, <2>4, <1>1, OthersIdle
  <2>7. TenantFollowsAccount'
    BY <1>3, <2>4, <2>5, <2>6 DEF TenantFollowsAccount, Tenant!TenantFollowsAccount,
          Tenant!PayingHasTenant, Tenant!LapsedHasNone, Tenant!ActiveTenant
  <2> QED
    BY <1>1, <1>4, <2>1, <2>3, <2>7, Ends
<1>6. CASE ~call[c].done
  <2> DEFINE new == [call[c] EXCEPT !.at = "read"]
  <2>1. /\ new \in CallRecord /\ new.at = "read" /\ new.op = call[c].op /\ ~new.done
        /\ new.status = call[c].status
    BY <1>2, <1>6 DEF CallRecord
  <2>2. call' = [call EXCEPT ![c] = new]
    BY <1>2, <1>6 DEF Tenant!DeactivateWrite
  <2>3. last' = last
    <3>1. /\ last \in [event : {"none", "paid", "unpaid", "lapsed", "cancelled"},
                       by : Calls \cup {None}, ok : BOOLEAN]
          /\ last.ok = FALSE /\ call[c].done = FALSE
      BY <1>1, <1>2, <1>6, OthersIdle DEF CallRecord
    <3>2. [last EXCEPT !.ok = FALSE] = last
      BY <3>1
    <3> QED
      BY <1>2, <3>1, <3>2 DEF Tenant!DeactivateWrite
  <2> HIDE DEF new
  <2>4. ColumnsFollow'
    BY <1>1, <1>3, <2>1, <2>2, UnderIsOfCall DEF TenantInv, ColumnsFollow, Tenant!ActiveTenant
  <2>5. call'[c] = new
    BY <1>2, <2>2
  <2>6. Fits(c)'
    BY <1>1, <1>2, <1>3, <2>1, <2>3, <2>5 DEF Fits, Tenant!Idle, Tenant!ActiveTenant
  <2> QED
    BY <1>1, <1>4, <2>1, <2>2, <2>3, <2>4, <2>6, GoesOn
<1> QED
  BY <1>5, <1>6

\* A member cancels in the app.
LEMMA CancelKeepsTenant ==
  ASSUME TenantInv, ~Overlapping, NEW c \in Calls, Tenant!CancelInApp(c)
  PROVE  TenantInv'
<1>1. /\ \A k \in Calls : Tenant!Idle(k)
      /\ UNCHANGED <<columns, remote, call, torn>> /\ member' = [member EXCEPT !.pays = FALSE]
      /\ last' = [event |-> "cancelled", by |-> None, ok |-> TRUE]
  BY DEF Tenant!CancelInApp, Tenant!MayHappen
<1>2. TenantTypes'
  BY <1>1 DEF TenantInv, TenantTypes, Tenant!TypeOK
<1>3. OneCall'
  BY <1>1 DEF OneCall, Tenant!Idle
<1>4. CallsFit'
  BY <1>1 DEF TenantInv, CallsFit, Fits, Tenant!Idle
<1>5. ColumnsFollow'
  BY <1>1 DEF TenantInv, ColumnsFollow, Tenant!ActiveTenant, Under
<1>6. TenantFollowsAccount'
  BY <1>1 DEF TenantFollowsAccount, Tenant!TenantFollowsAccount, Tenant!PayingHasTenant,
              Tenant!LapsedHasNone
<1> QED
  BY <1>2, <1>3, <1>4, <1>5, <1>6 DEF TenantInv

\* The call of an approved order is a renewal or an opening.
LEMMA LookKeepsTenant ==
  ASSUME TenantInv, NEW c \in Calls, Tenant!Look(c)
  PROVE  TenantInv'
<1>1. call[c].at = "look" /\ ~Tenant!Idle(c) /\ UNCHANGED <<member, columns, remote, torn, last>>
  BY DEF Tenant!Look, Tenant!Idle, Tenant!Continue
<1>2. /\ call[c] \in CallRecord /\ TablesTyped /\ Fits(c) /\ call \in [Calls -> CallRecord]
  BY <1>1, OthersIdle
<1> DEFINE op == IF Tenant!ActiveTenant THEN "update" ELSE "provision"
           new == [call[c] EXCEPT !.op = op, !.at = "read"]
<1>3. /\ new \in CallRecord /\ new.at = "read" /\ new.op = op /\ new.done = call[c].done
      /\ new.status = call[c].status
  BY <1>2 DEF CallRecord
<1>4. call' = [call EXCEPT ![c] = new]
  BY DEF Tenant!Look, Tenant!Continue
<1>5. call'[c] = new
  BY <1>2, <1>4
<1> HIDE DEF new
<1>6. TablesTyped' /\ (Tenant!ActiveTenant' <=> Tenant!ActiveTenant)
  BY <1>1, <1>2 DEF TablesTyped, Tenant!ActiveTenant
<1>7. ColumnsFollow'
  BY <1>1, <1>3, <1>4, <1>6, UnderIsOfCall DEF TenantInv, ColumnsFollow
<1>8. Fits(c)'
  BY <1>1, <1>2, <1>3, <1>5, <1>6 DEF Fits, Tenant!Idle
<1> QED
  BY <1>1, <1>3, <1>4, <1>6, <1>7, <1>8, GoesOn

\* The account is read: there is nothing to do, or the paid period is told.
LEMMA ReadKeepsTenant ==
  ASSUME TenantInv, NEW c \in Calls, Tenant!Read(c)
  PROVE  TenantInv'
<1>1. call[c].at = "read" /\ ~Tenant!Idle(c) /\ UNCHANGED <<member, columns, remote, torn>>
  BY DEF Tenant!Read, Tenant!Idle
<1>2. /\ call[c] \in CallRecord /\ TablesTyped /\ Fits(c) /\ call \in [Calls -> CallRecord]
      /\ last.by = c
  BY <1>1, OthersIdle
<1>3. TablesTyped' /\ (Tenant!ActiveTenant' <=> Tenant!ActiveTenant)
  BY <1>1, <1>2 DEF TablesTyped, Tenant!ActiveTenant
<1>4. call[c].op \in {"provision", "update", "deprovision"} /\ ~call[c].done
  BY <1>1, <1>2 DEF Fits, Tenant!Idle, CallRecord
<1>5. CASE Tenant!NothingToDo(call[c].op)
  <2>1. /\ call' = [call EXCEPT ![c] = Tenant!NoCall]
        /\ last' = IF last.by = c THEN [last EXCEPT !.ok = TRUE] ELSE last
    BY <1>5 DEF Tenant!Read, Tenant!End
  <2>2. Tenant!NoCall \in CallRecord /\ Tenant!NoCall.op = "none"
    BY TenantAssumption DEF Tenant!NoCall, Tenant!NewCall, CallRecord
  <2>3. ColumnsFollow'
    BY <1>1, <1>3, <2>1, <2>2, UnderIsOfCall DEF TenantInv, ColumnsFollow
  <2>4. last'.event = last.event
    BY <1>1, <2>1, OthersIdle
  <2>5. \/ last.event = "unpaid"
        \/ last.event = "lapsed" /\ ~Tenant!ActiveTenant
    BY <1>2, <1>4, <1>5 DEF Fits, Tenant!NothingToDo, Tenant!ActiveTenant
  <2>6. ~Tenant!ActiveTenant /\ "provision" \notin torn => remote.state \in {"none", "blocked"}
    BY <1>1, <2>1, <2>2, <1>4, UnderIsOfCall DEF TenantInv, ColumnsFollow
  <2>7. TenantFollowsAccount'
    BY <1>1, <1>3, <2>4, <2>5, <2>6 DEF TenantFollowsAccount, Tenant!TenantFollowsAccount,
          Tenant!PayingHasTenant, Tenant!LapsedHasNone
  <2> QED
    BY <1>1, <1>3, <2>1, <2>3, <2>7, Ends
<1>6. CASE ~Tenant!NothingToDo(call[c].op)
  <2> DEFINE new == [call[c] EXCEPT !.at = "send", !.end = member.end]
  <2>1. /\ new \in CallRecord /\ new.at = "send" /\ new.op = call[c].op /\ ~new.done
        /\ new.status = call[c].status /\ new.end = member.end
    <3>1. member.end \in 0..LastPeriod
      BY <1>2 DEF TablesTyped
    <3> QED
      BY <1>2, <1>4, <3>1 DEF CallRecord
  <2>2. call' = [call EXCEPT ![c] = new] /\ UNCHANGED last
    BY <1>6 DEF Tenant!Read, Tenant!Continue
  <2>3. call'[c] = new
    BY <1>2, <2>2
  <2> HIDE DEF new
  <2>4. ColumnsFollow'
    BY <1>1, <1>3, <1>4, <2>1, <2>2, UnderIsOfCall DEF TenantInv, ColumnsFollow
  <2>5. Fits(c)'
    BY <1>1, <1>2, <1>3, <1>4, <1>6, <2>1, <2>2, <2>3
       DEF Fits, Tenant!Idle, Tenant!NothingToDo
  <2> QED
    BY <1>1, <1>3, <2>1, <2>2, <2>4, <2>5, GoesOn
<1> QED
  BY <1>5, <1>6

\* What Komunika does to a tenant is one of the states of a tenant, and fits the call.
LEMMA EffectFits ==
  ASSUME TablesTyped, NEW k \in CallRecord, k.op \in {"provision", "update", "deprovision"}
  PROVE  /\ Tenant!Effect(k) \in [state : {"none", "open", "suspended", "blocked"},
                                  end : 0..LastPeriod]
         /\ k.op = "provision" => Tenant!Effect(k) = [state |-> "open", end |-> k.end]
         /\ k.op = "update" =>
              /\ Tenant!Effect(k).end = k.end
              /\ remote.state = "blocked" => Tenant!Effect(k).state = "blocked"
              /\ remote.state # "blocked" =>
                    Tenant!Effect(k).state = IF k.status = "active" THEN "open" ELSE "suspended"
         /\ k.op = "deprovision" => Tenant!Effect(k).state = "blocked"
<1> USE DEF TablesTyped, CallRecord
<1>1. CASE k.op = "provision"
  <2>1. Tenant!Effect(k) = [state |-> "open", end |-> k.end]
    BY <1>1 DEF Tenant!Effect
  <2> QED
    BY <1>1, <2>1
<1>2. CASE k.op = "update"
  <2>1. Tenant!Effect(k) =
          [state |-> IF remote.state = "blocked" THEN "blocked"
                     ELSE IF k.status = "active" THEN "open" ELSE "suspended",
           end |-> k.end]
    BY <1>2 DEF Tenant!Effect
  <2> QED
    BY <1>2, <2>1
<1>3. CASE k.op = "deprovision"
  <2>1. Tenant!Effect(k) = [remote EXCEPT !.state = "blocked"]
    BY <1>3 DEF Tenant!Effect
  <2> QED
    BY <1>3, <2>1
<1> QED
  BY <1>1, <1>2, <1>3

\* A call that took effect keeps the columns and the tenant together, once its effect
\* is noted with it or torn.
LEMMA EffectFollows ==
  ASSUME TenantInv, NEW c \in Calls, call[c].at = "send", remote' = Tenant!Effect(call[c]),
         UNCHANGED <<member, columns>>, NEW new \in CallRecord, call' = [call EXCEPT ![c] = new],
         \/ call[c].op = "update"
         \/ new.op = call[c].op /\ new.done /\ new.at \in {"send", "write"}
         \/ call[c].op \in torn',
         torn \subseteq torn'
  PROVE  ColumnsFollow'
<1>1. ~Tenant!Idle(c) /\ call[c] \in CallRecord /\ TablesTyped /\ Fits(c)
  BY OthersIdle DEF Tenant!Idle
<1>2. call[c].op \in {"provision", "update", "deprovision"}
  BY <1>1 DEF Fits, CallRecord, Tenant!Idle
<1>3. Tenant!ActiveTenant' <=> Tenant!ActiveTenant
  BY DEF Tenant!ActiveTenant
<1>4. ColumnsFollow
  BY DEF TenantInv
<1>5. CASE call[c].op = "provision"
  <2>1. remote'.state = "open" /\ ~Tenant!ActiveTenant
    BY <1>1, <1>2, <1>5, EffectFits DEF Fits
  <2> QED
    BY <1>1, <1>3, <1>5, <2>1, UnderIsOfCall DEF ColumnsFollow
<1>6. CASE call[c].op = "deprovision"
  <2>1. remote'.state = "blocked" /\ Tenant!ActiveTenant
    BY <1>1, <1>2, <1>6, EffectFits DEF Fits
  <2> QED
    BY <1>1, <1>3, <1>6, <2>1, UnderIsOfCall DEF ColumnsFollow
<1>7. CASE call[c].op = "update"
  <2>1. /\ remote.state # "none"
        /\ remote.state = "blocked" => remote'.state = "blocked"
        /\ remote.state # "blocked" => remote'.state \in {"open", "suspended"}
    BY <1>1, <1>2, <1>4, <1>7, EffectFits DEF Fits, ColumnsFollow
  <2>2. \A op \in {"provision", "deprovision"} : ~Under(op)
    BY <1>1, <1>7, UnderIsOfCall
  <2> QED
    BY <1>3, <1>4, <2>1, <2>2 DEF ColumnsFollow, TablesTyped
<1> QED
  BY <1>2, <1>5, <1>6, <1>7

\* A call that ends without its columns is noted as torn when it took effect.
LEMMA FailKeepsTenant ==
  ASSUME TenantInv, NEW c \in Calls, ~Tenant!Idle(c), NEW k, Tenant!Fail(c, k),
         UNCHANGED <<member, columns>>, k.op = call[c].op, k.done \in BOOLEAN,
         \/ remote' = remote /\ k.done = call[c].done
         \/ remote' = Tenant!Effect(call[c]) /\ call[c].at = "send" /\ k.done
  PROVE  TenantInv'
<1>1. /\ call[c] \in CallRecord /\ TablesTyped /\ Fits(c)
  BY OthersIdle
<1>2. /\ call' = [call EXCEPT ![c] = Tenant!NoCall]
      /\ last' = IF last.by = c THEN [last EXCEPT !.ok = FALSE] ELSE last
      /\ torn' = torn \cup Tenant!Tears(k)
  BY DEF Tenant!Fail, Tenant!End
<1>3. Tenant!NoCall \in CallRecord /\ Tenant!NoCall.op = "none"
  BY TenantAssumption DEF Tenant!NoCall, Tenant!NewCall, CallRecord
<1>4. CASE remote' = remote /\ k.done = call[c].done
  <2>1. Tenant!Tears(k) \subseteq {"provision", "deprovision"}
    <3>1. k.done => call[c].op # "sync" /\ call[c].op # "none"
      BY <1>1, <1>4 DEF Fits, Tenant!Idle
    <3> QED
      BY <1>1, <3>1 DEF Tenant!Tears, CallRecord
  <2>2. TablesTyped'
    BY <1>1, <1>2, <1>4, <2>1 DEF TablesTyped
  <2>3. \A op \in {"provision", "deprovision"} : Under(op) => op \in torn'
    BY <1>2, <1>3, <1>4, UnderIsOfCall DEF Tenant!Tears
  <2>4. \A op \in {"provision", "deprovision"} : ~Under(op)'
    BY <1>2, <1>3, UnderIsOfCall
  <2>5. ColumnsFollow'
    BY <1>2, <1>4, <2>3, <2>4 DEF TenantInv, ColumnsFollow, Tenant!ActiveTenant
  <2> QED
    BY <1>2, <2>2, <2>5, Ends
<1>5. CASE remote' = Tenant!Effect(call[c]) /\ call[c].at = "send" /\ k.done
  <2>1. call[c].op \in {"provision", "update", "deprovision"}
    BY <1>1, <1>5 DEF Fits, CallRecord, Tenant!Idle
  <2>2. TablesTyped'
    BY <1>1, <1>2, <1>5, <2>1, EffectFits DEF TablesTyped, Tenant!Tears
  <2>3. call[c].op = "update" \/ call[c].op \in torn'
    BY <1>2, <1>5 DEF Tenant!Tears
  <2>4. ColumnsFollow'
    BY <1>2, <1>3, <1>5, <2>3, EffectFollows
  <2> QED
    BY <1>2, <2>2, <2>4, Ends
<1> QED
  BY <1>4, <1>5

\* The answer of Komunika arrives.
LEMMA AnsweredKeepsTenant ==
  ASSUME TenantInv, NEW c \in Calls, Tenant!Answered(c)
  PROVE  TenantInv'
<1>1. /\ call[c].at = "send" /\ ~Tenant!Idle(c) /\ UNCHANGED <<member, columns, torn>>
      /\ remote' = Tenant!Effect(call[c])
  BY DEF Tenant!Answered, Tenant!Idle
<1>2. /\ call[c] \in CallRecord /\ TablesTyped /\ Fits(c) /\ call \in [Calls -> CallRecord]
      /\ last.by = c
  BY <1>1, OthersIdle
<1>3. call[c].op \in {"provision", "update", "deprovision"}
  BY <1>1, <1>2 DEF Fits, CallRecord, Tenant!Idle
<1>4. TablesTyped' /\ (Tenant!ActiveTenant' <=> Tenant!ActiveTenant)
  BY <1>1, <1>2, <1>3, EffectFits DEF TablesTyped, Tenant!ActiveTenant
<1>5. CASE call[c].op = "update"
  <2>1. /\ call' = [call EXCEPT ![c] = Tenant!NoCall]
        /\ last' = IF last.by = c THEN [last EXCEPT !.ok = TRUE] ELSE last
    BY <1>5 DEF Tenant!Answered, Tenant!End
  <2>2. Tenant!NoCall \in CallRecord
    BY TenantAssumption DEF Tenant!NoCall, Tenant!NewCall, CallRecord
  <2>3. ColumnsFollow'
    BY <1>1, <1>5, <2>1, <2>2, EffectFollows
  <2>4. last'.event = last.event
    BY <1>1, <2>1, OthersIdle
  <2>5. \/ last.event = "unpaid"
        \/ last.event = "paid" /\ Tenant!ActiveTenant /\ call[c].status = "active"
    BY <1>1, <1>2, <1>5 DEF Fits
  <2>6. Tenant!ActiveTenant /\ "deprovision" \notin torn => remote.state \in {"open", "suspended"}
    BY <1>1, <1>5, <2>1, <2>2, UnderIsOfCall DEF TenantInv, ColumnsFollow
  <2>7. last.event = "paid" /\ "deprovision" \notin torn
          => remote' = [state |-> "open", end |-> member.end]
    <3>1. call[c].end = member.end
      BY <1>1, <1>2 DEF Fits
    <3>2. remote' \in [state : {"none", "open", "suspended", "blocked"}, end : 0..LastPeriod]
      BY <1>4 DEF TablesTyped
    <3>3. last.event = "paid" /\ "deprovision" \notin torn => remote'.state = "open"
      BY <1>1, <1>2, <1>5, <2>5, <2>6, EffectFits
    <3>4. remote'.end = member.end
      BY <1>1, <1>2, <1>5, <3>1, EffectFits
    <3> QED
      BY <3>2, <3>3, <3>4
  <2>8. TenantFollowsAccount'
    BY <1>1, <1>4, <2>4, <2>5, <2>7 DEF TenantFollowsAccount, Tenant!TenantFollowsAccount,
          Tenant!PayingHasTenant, Tenant!LapsedHasNone
  <2> QED
    BY <1>1, <1>4, <2>1, <2>3, <2>8, Ends
<1>6. CASE call[c].op # "update"
  <2> DEFINE new == [call[c] EXCEPT !.at = "write", !.done = TRUE]
  <2>1. /\ new \in CallRecord /\ new.at = "write" /\ new.op = call[c].op /\ new.done
        /\ new.status = call[c].status /\ new.end = call[c].end
    BY <1>2 DEF CallRecord
  <2>2. call' = [call EXCEPT ![c] = new] /\ UNCHANGED last
    BY <1>6 DEF Tenant!Answered, Tenant!Continue
  <2>3. call'[c] = new
    BY <1>2, <2>2
  <2> HIDE DEF new
  <2>4. ColumnsFollow'
    BY <1>1, <2>1, <2>2, EffectFollows
  <2>5. remote' \in [state : {"none", "open", "suspended", "blocked"}, end : 0..LastPeriod]
    BY <1>4 DEF TablesTyped
  <2>6. Fits(c)'
    BY <1>1, <1>2, <1>3, <1>4, <1>6, <2>1, <2>2, <2>3, <2>5, EffectFits DEF Fits, Tenant!Idle
  <2> QED
    BY <1>1, <1>4, <2>1, <2>2, <2>4, <2>6, GoesOn
<1> QED
  BY <1>5, <1>6

\* An attempt fails, with its effect or without; it is made again, or it was the last.
LEMMA UnansweredKeepsTenant ==
  ASSUME TenantInv, NEW c \in Calls, Tenant!Unanswered(c)
  PROVE  TenantInv'
<1>1. /\ call[c].at = "send" /\ ~Tenant!Idle(c) /\ UNCHANGED <<member, columns>>
  BY DEF Tenant!Unanswered, Tenant!Idle
<1>2. /\ call[c] \in CallRecord /\ TablesTyped /\ Fits(c) /\ call \in [Calls -> CallRecord]
  BY <1>1, OthersIdle
<1>3. call[c].op \in {"provision", "update", "deprovision"}
  BY <1>1, <1>2 DEF Fits, CallRecord, Tenant!Idle
<1>4. PICK happened \in BOOLEAN :
        LET k == [call[c] EXCEPT !.tries = @ + 1, !.done = @ \/ happened]
        IN  /\ remote' = IF happened THEN Tenant!Effect(call[c]) ELSE remote
            /\ IF k.tries > MaxRetries THEN Tenant!Fail(c, k)
               ELSE Tenant!Continue(c, k) /\ UNCHANGED torn
  BY DEF Tenant!Unanswered
<1> DEFINE k == [call[c] EXCEPT !.tries = @ + 1, !.done = @ \/ happened]
<1>5. /\ k.op = call[c].op /\ k.at = "send" /\ k.status = call[c].status /\ k.end = call[c].end
      /\ k.tries = call[c].tries + 1 /\ k.done = (call[c].done \/ happened) /\ k.done \in BOOLEAN
  BY <1>1, <1>2 DEF CallRecord
<1>6. CASE k.tries > MaxRetries
  <2>1. Tenant!Fail(c, k)
    BY <1>4, <1>6
  <2>2. \/ remote' = remote /\ k.done = call[c].done
        \/ remote' = Tenant!Effect(call[c]) /\ call[c].at = "send" /\ k.done
    BY <1>1, <1>2, <1>4, <1>5 DEF CallRecord
  <2> HIDE DEF k
  <2> QED
    BY <1>1, <1>5, <2>1, <2>2, FailKeepsTenant
<1>7. CASE ~(k.tries > MaxRetries)
  <2>1. call' = [call EXCEPT ![c] = k] /\ UNCHANGED <<last, torn>>
    BY <1>4, <1>7 DEF Tenant!Continue
  <2>2. k \in CallRecord
    <3>1. call[c].tries + 1 \in 0..MaxRetries
      BY <1>2, <1>5, <1>7, TenantAssumption DEF CallRecord
    <3>2. (call[c].done \/ happened) \in BOOLEAN
      BY <1>2 DEF CallRecord
    <3> QED
      BY <1>2, <3>1, <3>2 DEF CallRecord
  <2>3. call'[c] = k
    BY <1>2, <2>1
  <2>4. remote' = IF happened THEN Tenant!Effect(call[c]) ELSE remote
    BY <1>4
  <2> HIDE DEF k
  <2>5. TablesTyped' /\ (Tenant!ActiveTenant' <=> Tenant!ActiveTenant)
    BY <1>1, <1>2, <1>3, <2>1, <2>4, EffectFits DEF TablesTyped, Tenant!ActiveTenant
  <2>6. ColumnsFollow'
    <3>1. CASE happened
      BY <1>1, <1>5, <2>1, <2>2, <2>4, <3>1, EffectFollows
    <3>2. CASE ~happened
      <4>1. \A op \in {"provision", "deprovision"} : Under(op) <=> Under(op)'
        BY <1>1, <1>5, <2>1, <2>2, <3>2, UnderIsOfCall
      <4> QED
        BY <1>1, <2>1, <2>4, <2>5, <3>2, <4>1 DEF TenantInv, ColumnsFollow
    <3> QED
      BY <3>1, <3>2
  <2>7. Fits(c)'
    <3>1. remote' \in [state : {"none", "open", "suspended", "blocked"}, end : 0..LastPeriod]
      BY <2>5 DEF TablesTyped
    <3> QED
      BY <1>1, <1>2, <1>3, <1>5, <2>1, <2>3, <2>4, <2>5, <3>1, EffectFits DEF Fits, Tenant!Idle
  <2> QED
    BY <1>1, <1>5, <2>1, <2>2, <2>5, <2>6, <2>7, GoesOn
<1> QED
  BY <1>6, <1>7

\* A call is refused for good, with its effect or without, or its process dies.
LEMMA GivenUpKeepsTenant ==
  ASSUME TenantInv, NEW c \in Calls, Tenant!Refused(c) \/ Tenant!Die(c)
  PROVE  TenantInv'
<1>1. ~Tenant!Idle(c) /\ UNCHANGED <<member, columns>>
  BY DEF Tenant!Refused, Tenant!Die, Tenant!Idle
<1>2. call[c] \in CallRecord /\ call[c].done \in BOOLEAN
  BY <1>1, OthersIdle DEF CallRecord
<1>3. CASE Tenant!Refused(c)
  <2>1. PICK happened \in BOOLEAN :
          /\ remote' = IF happened THEN Tenant!Effect(call[c]) ELSE remote
          /\ Tenant!Fail(c, [call[c] EXCEPT !.done = @ \/ happened])
    BY <1>3 DEF Tenant!Refused
  <2> DEFINE k == [call[c] EXCEPT !.done = @ \/ happened]
  <2>2. call[c].at = "send"
    BY <1>3 DEF Tenant!Refused
  <2>3. k.op = call[c].op /\ k.done = (call[c].done \/ happened) /\ k.done \in BOOLEAN
    BY <1>2 DEF CallRecord
  <2>4. \/ remote' = remote /\ k.done = call[c].done
        \/ remote' = Tenant!Effect(call[c]) /\ call[c].at = "send" /\ k.done
    BY <1>2, <2>1, <2>2, <2>3
  <2>5. Tenant!Fail(c, k)
    BY <2>1
  <2> HIDE DEF k
  <2> QED
    BY <1>1, <2>3, <2>4, <2>5, FailKeepsTenant
<1>4. CASE Tenant!Die(c)
  <2>1. Tenant!Fail(c, call[c]) /\ UNCHANGED remote
    BY <1>4 DEF Tenant!Die
  <2> QED
    BY <1>1, <1>2, <2>1, FailKeepsTenant
<1> QED
  BY <1>3, <1>4

\* The columns are written after the answer.
LEMMA WriteKeepsTenant ==
  ASSUME TenantInv, NEW c \in Calls, Tenant!Write(c)
  PROVE  TenantInv'
<1>1. /\ call[c].at = "write" /\ ~Tenant!Idle(c) /\ UNCHANGED <<member, remote, torn>>
      /\ call' = [call EXCEPT ![c] = Tenant!NoCall]
      /\ last' = IF last.by = c THEN [last EXCEPT !.ok = TRUE] ELSE last
      /\ columns' = IF call[c].op = "provision"
                    THEN [company |-> TRUE, deprovisioned |-> FALSE]
                    ELSE [columns EXCEPT !.deprovisioned = TRUE]
  BY DEF Tenant!Write, Tenant!Idle, Tenant!End
<1>2. /\ call[c] \in CallRecord /\ TablesTyped /\ Fits(c)
  BY <1>1, OthersIdle
<1>3. Tenant!NoCall \in CallRecord /\ Tenant!NoCall.op = "none"
  BY TenantAssumption DEF Tenant!NoCall, Tenant!NewCall, CallRecord
<1>4. columns' \in [company : BOOLEAN, deprovisioned : BOOLEAN]
  BY <1>1, <1>2 DEF TablesTyped
<1>5. TablesTyped'
  BY <1>1, <1>2, <1>4 DEF TablesTyped
<1>6. \A op \in {"provision", "deprovision"} : ~Under(op)'
  BY <1>1, <1>3, UnderIsOfCall
<1>7. last'.event = last.event
  BY <1>1, OthersIdle
<1>8. CASE call[c].op = "provision"
  <2>1. /\ last.event = "paid" /\ remote = [state |-> "open", end |-> member.end]
    BY <1>1, <1>2, <1>8 DEF Fits
  <2>2. columns'.company /\ ~columns'.deprovisioned
    BY <1>1, <1>8
  <2>3. ColumnsFollow'
    BY <1>1, <1>6, <2>1, <2>2 DEF ColumnsFollow, Tenant!ActiveTenant
  <2>4. TenantFollowsAccount'
    BY <1>1, <1>7, <2>1, <2>2 DEF TenantFollowsAccount, Tenant!TenantFollowsAccount,
          Tenant!PayingHasTenant, Tenant!LapsedHasNone, Tenant!ActiveTenant
  <2> QED
    BY <1>1, <1>5, <2>3, <2>4, Ends
<1>9. CASE call[c].op # "provision"
  <2>1. last.event = "lapsed" /\ remote.state = "blocked"
    BY <1>1, <1>2, <1>9 DEF Fits
  <2>2. columns'.deprovisioned
    BY <1>1, <1>2, <1>9 DEF TablesTyped
  <2>3. ColumnsFollow'
    BY <1>1, <1>6, <2>1, <2>2 DEF ColumnsFollow, Tenant!ActiveTenant
  <2>4. TenantFollowsAccount'
    BY <1>1, <1>7, <2>1, <2>2 DEF TenantFollowsAccount, Tenant!TenantFollowsAccount,
          Tenant!PayingHasTenant, Tenant!LapsedHasNone, Tenant!ActiveTenant
  <2> QED
    BY <1>1, <1>5, <2>3, <2>4, Ends
<1> QED
  BY <1>8, <1>9

\* Every step keeps the invariant.
LEMMA TenantNext ==
  ASSUME TenantInv, ~Overlapping, [Tenant!Next]_(Tenant!vars)
  PROVE  TenantInv'
<1>1. ASSUME NEW c \in Calls,
             \/ Tenant!Approve(c) \/ Tenant!StripeRenew(c) \/ Tenant!PaymentFails(c)
             \/ Tenant!Lapse(c) \/ Tenant!Deactivate(c)
      PROVE  TenantInv'
  BY <1>1, EventKeepsTenant
<1>2. ASSUME NEW c \in Calls, Tenant!DeactivateWrite(c) PROVE TenantInv'
  BY <1>2, DeactivateWriteKeepsTenant
<1>3. ASSUME NEW c \in Calls, Tenant!CancelInApp(c) PROVE TenantInv'
  BY <1>3, CancelKeepsTenant
<1>4. ASSUME NEW c \in Calls, Tenant!Look(c) PROVE TenantInv'
  BY <1>4, LookKeepsTenant
<1>5. ASSUME NEW c \in Calls, Tenant!Read(c) PROVE TenantInv'
  BY <1>5, ReadKeepsTenant
<1>6. ASSUME NEW c \in Calls, Tenant!Answered(c) PROVE TenantInv'
  BY <1>6, AnsweredKeepsTenant
<1>7. ASSUME NEW c \in Calls, Tenant!Unanswered(c) PROVE TenantInv'
  BY <1>7, UnansweredKeepsTenant
<1>8. ASSUME NEW c \in Calls, Tenant!Refused(c) \/ Tenant!Die(c) PROVE TenantInv'
  BY <1>8, GivenUpKeepsTenant
<1>9. ASSUME NEW c \in Calls, Tenant!Write(c) PROVE TenantInv'
  BY <1>9, WriteKeepsTenant
<1>10. CASE UNCHANGED Tenant!vars
  BY <1>10 DEF Tenant!vars, TenantInv, TenantTypes, Tenant!TypeOK, OneCall, CallsFit, Fits,
       ColumnsFollow, Under, Tenant!Idle, Tenant!ActiveTenant, TenantFollowsAccount,
       Tenant!TenantFollowsAccount, Tenant!PayingHasTenant, Tenant!LapsedHasNone, Tenant!AtRest
<1> QED
  BY <1>1, <1>2, <1>3, <1>4, <1>5, <1>6, <1>7, <1>8, <1>9, <1>10 DEF Tenant!Next

\* Once the call of a payment has succeeded, the tenant is open for the paid period and
\* the columns say so; once that of a lapse has, it is closed: through repeated,
\* unanswered and torn calls, when no event comes while a call is under way.
THEOREM TenantFollows == ~Overlapping => (Tenant!Spec => []TenantFollowsAccount)
<1> SUFFICES ASSUME ~Overlapping PROVE Tenant!Spec => []TenantFollowsAccount
  OBVIOUS
<1>1. Tenant!Init => TenantInv
  BY TenantInit
<1>2. TenantInv /\ [Tenant!Next]_(Tenant!vars) => TenantInv'
  BY TenantNext
<1>3. TenantInv => TenantFollowsAccount
  BY DEF TenantInv
<1> QED
  BY <1>1, <1>2, <1>3, PTL DEF Tenant!Spec

-----------------------------------------------------------------------------
(* The curriculum *)

\* A view or a request of some items is one of more.
LEMMA MoreItems ==
  ASSUME NEW n \in Nat, NEW m \in Nat, n <= m
  PROVE  Views(n) \subseteq Views(m) /\ EditJobs(n) \subseteq EditJobs(m)
<1>1. 1..n \subseteq 1..m /\ 0..n \subseteq 0..m
  OBVIOUS
<1>2. [id : 1..n, order : Nat] \subseteq [id : 1..m, order : Nat]
  BY <1>1
<1>3. Seq([id : 1..n, order : Nat]) \subseteq Seq([id : 1..m, order : Nat])
  BY <1>2, SeqMonotonic
<1>4. Seq(1..n) \subseteq Seq(1..m)
  BY <1>1, SeqMonotonic
<1>5. Views(n) \subseteq Views(m)
  BY <1>3 DEF Views
<1> QED
  BY <1>1, <1>4, <1>5 DEF EditJobs

LEMMA Joined ==
  ASSUME NEW S, NEW a \in Seq(S), NEW b \in Seq(S), NEW m, Len(a) = m, NEW n, Len(b) = n
  PROVE  /\ a \o b \in Seq(S) /\ Len(a \o b) = m + n
         /\ \A i \in 1..(m + n) : (a \o b)[i] = IF i <= m THEN a[i] ELSE b[i - m]
<1>1. /\ a \o b \in Seq(S)
      /\ Len(a \o b) = Len(a) + Len(b)
      /\ \A i \in 1..(Len(a) + Len(b)) : (a \o b)[i] = IF i <= Len(a) THEN a[i] ELSE b[i - Len(a)]
  BY ConcatProperties
<1> QED
  BY ONLY <1>1, Len(a) = m, Len(b) = n

LEMMA DraggedList ==
  ASSUME NEW S, NEW s \in Seq(S), NEW from \in 1..Len(s), NEW to \in 1..Len(s),
         NEW moved, moved = Edited!InsertAt(Edited!RemoveAt(s, from), to, s[from])
  PROVE  moved \in Seq(S) /\ Len(moved) = Len(s) /\ moved = Dragged(s, from, to)
<1> DEFINE n == Len(s)
           a == SubSeq(s, 1, from - 1)
           b == SubSeq(s, from + 1, n)
           r == a \o b
           c == SubSeq(r, 1, to - 1)
           d == SubSeq(r, to, Len(r))
           e == <<s[from]>>
<1>1. n \in Nat /\ from \in Int /\ to \in Int /\ \A i \in 1..n : s[i] \in S
  OBVIOUS
<1>2. a \in Seq(S) /\ Len(a) = from - 1 /\ \A i \in 1..(from - 1) : a[i] = s[i]
  <2>1. \A i \in 1..(from - 1) : s[i] \in S
    BY <1>1
  <2> QED
    BY <1>1, <2>1, SubSeqProperties
<1>3. b \in Seq(S) /\ Len(b) = n - from /\ \A i \in 1..(n - from) : b[i] = s[from + i]
  <2>1. \A i \in (from + 1)..n : s[i] \in S
    BY <1>1
  <2> QED
    BY <1>1, <2>1, SubSeqProperties
<1> HIDE DEF a, b, n
<1>4. /\ r \in Seq(S) /\ Len(r) = n - 1
      /\ \A i \in 1..(n - 1) : r[i] = IF i < from THEN s[i] ELSE s[i + 1]
  <2>1. /\ r \in Seq(S) /\ Len(r) = (from - 1) + (n - from)
        /\ \A i \in 1..((from - 1) + (n - from)) :
              r[i] = IF i <= from - 1 THEN a[i] ELSE b[i - (from - 1)]
    BY <1>2, <1>3, Joined
  <2>2. ASSUME NEW i \in 1..(n - 1), ~(i < from)
        PROVE  r[i] = s[i + 1]
    <3>1. i - (from - 1) \in 1..(n - from) /\ from + (i - (from - 1)) = i + 1
      BY <1>1, <2>2
    <3>2. i \in 1..((from - 1) + (n - from)) /\ ~(i <= from - 1)
      BY <1>1, <2>2
    <3> QED
      BY <1>3, <2>1, <3>1, <3>2
  <2>3. ASSUME NEW i \in 1..(n - 1), i < from
        PROVE  r[i] = s[i]
    <3>1. i \in 1..((from - 1) + (n - from)) /\ i <= from - 1 /\ i \in 1..(from - 1)
      BY <1>1, <2>3
    <3> QED
      BY <1>2, <2>1, <3>1
  <2> QED
    BY <1>1, <2>1, <2>2, <2>3
<1> HIDE DEF r
<1>t. from \in 1..n /\ to \in 1..n
  BY DEF n
<1>5. c \in Seq(S) /\ Len(c) = to - 1 /\ \A i \in 1..(to - 1) : c[i] = r[i]
  <2>1. \A i \in 1..(to - 1) : r[i] \in S
    BY <1>1, <1>4, <1>t
  <2> QED
    BY <1>1, <1>4, <2>1, <1>t, SubSeqProperties
<1>6. d \in Seq(S) /\ Len(d) = n - to /\ \A i \in 1..(n - to) : d[i] = r[to + i - 1]
  <2>1. \A i \in to..(n - 1) : r[i] \in S
    BY <1>1, <1>4, <1>t
  <2>2. d = SubSeq(r, to, n - 1)
    BY <1>4
  <2>3. /\ SubSeq(r, to, n - 1) \in Seq(S)
        /\ Len(SubSeq(r, to, n - 1)) = IF to <= n - 1 THEN (n - 1) - to + 1 ELSE 0
        /\ \A i \in 1..((n - 1) - to + 1) : SubSeq(r, to, n - 1)[i] = r[to + i - 1]
    BY <1>1, <2>1, <1>t, SubSeqProperties
  <2> QED
    BY <1>1, <2>2, <2>3, <1>t
<1>7. e \in Seq(S) /\ Len(e) = 1 /\ e[1] = s[from]
  BY <1>1, <1>t
<1> HIDE DEF c, d, e
<1>8. /\ c \o e \in Seq(S) /\ Len(c \o e) = to
      /\ \A i \in 1..to : (c \o e)[i] = IF i < to THEN r[i] ELSE s[from]
  <2> DEFINE one == Len(e)
  <2>1. one = 1
    BY <1>7
  <2> HIDE DEF one
  <2>2. /\ c \o e \in Seq(S) /\ Len(c \o e) = (to - 1) + one
        /\ \A i \in 1..((to - 1) + one) :
              (c \o e)[i] = IF i <= to - 1 THEN c[i] ELSE e[i - (to - 1)]
    <3>1. c \in Seq(S) /\ e \in Seq(S) /\ Len(c) = to - 1 /\ Len(e) = one
      BY <1>5, <1>7 DEF one
    <3>2. /\ c \o e \in Seq(S) /\ Len(c \o e) = Len(c) + Len(e)
          /\ \A i \in 1..(Len(c) + Len(e)) :
                (c \o e)[i] = IF i <= Len(c) THEN c[i] ELSE e[i - Len(c)]
      BY <3>1, ConcatProperties
    <3> QED
      BY ONLY <3>1, <3>2
  <2>3. ASSUME NEW i \in 1..to PROVE (c \o e)[i] = IF i < to THEN r[i] ELSE s[from]
    <3>1. i \in 1..((to - 1) + one)
      BY <1>1, <2>1, <1>t
    <3> QED
      BY <1>1, <1>5, <1>7, <2>2, <3>1, <1>t
  <2> QED
    BY <1>1, <2>1, <2>2, <2>3, <1>t
<1>9. moved = (c \o e) \o d
  BY DEF Edited!InsertAt, Edited!RemoveAt, a, b, c, d, e, r, n
<1>10. /\ moved \in Seq(S) /\ Len(moved) = to + (n - to)
       /\ \A i \in 1..(to + (n - to)) :
             moved[i] = IF i <= to THEN (c \o e)[i] ELSE d[i - to]
  <2> DEFINE x == c \o e
  <2>1. x \in Seq(S) /\ Len(x) = to
    BY <1>8
  <2> HIDE DEF x
  <2>2. /\ x \o d \in Seq(S) /\ Len(x \o d) = to + (n - to)
        /\ \A i \in 1..(to + (n - to)) : (x \o d)[i] = IF i <= to THEN x[i] ELSE d[i - to]
    <3>1. x \in Seq(S) /\ d \in Seq(S) /\ Len(x) = to /\ Len(d) = n - to
      BY <1>6, <2>1
    <3>2. /\ x \o d \in Seq(S) /\ Len(x \o d) = Len(x) + Len(d)
          /\ \A i \in 1..(Len(x) + Len(d)) :
                (x \o d)[i] = IF i <= Len(x) THEN x[i] ELSE d[i - Len(x)]
      BY <3>1, ConcatProperties
    <3> QED
      BY ONLY <3>1, <3>2
  <2> QED
    BY <1>9, <2>2 DEF x
<1>11. ASSUME NEW k \in 1..n PROVE moved[k] = s[From(k, from, to)]
  <2>1. CASE k = to
    BY <1>1, <1>8, <1>10, <2>1, <1>t DEF From
  <2>2. CASE k < to
    <3>1. moved[k] = (c \o e)[k] /\ k \in 1..(n - 1) /\ k \in 1..to
      <4>1. n \in Nat /\ to \in 1..n /\ k \in 1..n /\ k <= to
        BY <1>1, <2>2, <1>t
      <4>2. k \in 1..(to + (n - to)) /\ k \in 1..(n - 1) /\ k \in 1..to
        BY <4>1, <2>2
      <4> QED
        BY <4>1, <4>2, <1>10
    <3>2. moved[k] = r[k]
      BY <1>1, <1>8, <2>2, <3>1, <1>t
    <3> QED
      BY <1>1, <1>4, <2>2, <3>1, <3>2, <1>t DEF From
  <2>3. CASE to < k
    <3>1. moved[k] = d[k - to] /\ k - to \in 1..(n - to)
      BY <1>1, <1>10, <2>3, <1>t
    <3>2. moved[k] = r[k - 1] /\ k - 1 \in 1..(n - 1)
      BY <1>1, <1>6, <2>3, <3>1, <1>t
    <3> QED
      BY <1>1, <1>4, <2>3, <3>2, <1>t DEF From
  <2> QED
    BY <1>1, <2>1, <2>2, <2>3, <1>t
<1>12. moved = [k \in 1..n |-> moved[k]]
  <2>1. to + (n - to) = n
    BY <1>1, <1>t
  <2>2. moved \in Seq(S) /\ Len(moved) = n
    BY <1>10, <2>1
  <2> QED
    BY ONLY <2>2, LenProperties
<1> QED
  BY <1>1, <1>10, <1>11, <1>12, <1>t DEF n, Dragged

\* Items that can be counted: those of a parent are finitely many.
LEMMA ChildrenCounted ==
  ASSUME NEW rs, NEW n \in Nat, DOMAIN rs = 1..n, NEW p
  PROVE  /\ Edited!Children(rs, p) \subseteq 1..n
         /\ IsFiniteSet(Edited!Children(rs, p))
         /\ Edited!Cardinality(Edited!Children(rs, p)) \in Nat
<1>1. Edited!Children(rs, p) \subseteq 1..n
  BY DEF Edited!Children
<1>2. IsFiniteSet(1..n)
  BY FS_Interval
<1>3. /\ IsFiniteSet(Edited!Children(rs, p))
      /\ Cardinality(Edited!Children(rs, p)) \in Nat
  BY <1>1, <1>2, FS_Subset, FS_CardinalityType
<1> QED
  BY <1>1, <1>3 DEF Cardinality, Edited!Cardinality

\* What the page is given agrees with the tables.
LEMMA LoadedAgrees ==
  ASSUME NEW rs \in Seq([parent : Edited!Gone..LastItem, order : Nat]),
         NEW v \in Edited!Loaded(rs)
  PROVE  v \in Views(Len(rs)) /\ Agrees(v, rs)
<1> DEFINE n == Len(rs)
           full == {p \in Edited!Parents : Edited!Children(rs, p) # {}}
           lists == [p \in full |-> Edited!Listed(rs, p)]
           Shown(p, ids) ==
               [k \in DOMAIN ids |-> [id |-> ids[k],
                                      order |-> IF p = Edited!Course THEN rs[ids[k]].order ELSE 0]]
<1>1. n \in Nat /\ DOMAIN rs = 1..n /\ \A i \in 1..n : rs[i].order \in Nat
  <2>1. n \in Nat /\ DOMAIN rs = 1..n
    BY LenProperties
  <2>2. \A i \in 1..n : rs[i] \in [parent : Edited!Gone..LastItem, order : Nat]
    BY ElementOfSeq
  <2> QED
    BY <2>1, <2>2
<1>2. PICK ls \in {f \in [full -> UNION Edited!Range(lists)] : \A p \in full : f[p] \in lists[p]} :
         v = [p \in Edited!Parents |-> IF p \in full THEN Shown(p, ls[p]) ELSE <<>>]
  BY DEF Edited!Loaded
<1>3. ASSUME NEW p \in Edited!Parents
      PROVE  /\ v[p] \in Seq([id : 1..n, order : Nat])
             /\ \A k, l \in DOMAIN v[p] : v[p][k].id = v[p][l].id => k = l
             /\ {v[p][k].id : k \in DOMAIN v[p]} = Edited!Children(rs, p)
             /\ InOrder(v, rs, p)
  <2> DEFINE C == Edited!Children(rs, p)
             m == Edited!Cardinality(C)
  <2>1. C \subseteq 1..n /\ m \in Nat
    BY <1>1, ChildrenCounted
  <2>2. CASE p \notin full
    <3>1. v[p] = <<>> /\ C = {}
      BY <1>2, <2>2
    <3> QED
      BY <3>1 DEF InOrder
  <2>3. CASE p \in full
    <3> DEFINE ids == ls[p]
    <3>1. /\ ids \in Edited!Listed(rs, p) /\ v[p] = Shown(p, ids)
      BY <1>2, <2>3
    <3>2. /\ ids \in [1..m -> C] /\ (\A k, l \in 1..m : ids[k] = ids[l] => k = l)
          /\ (\A c \in C : \E k \in 1..m : ids[k] = c)
          /\ \A k, l \in 1..m : k < l => rs[ids[k]].order <= rs[ids[l]].order
      BY <3>1 DEF Edited!Listed, Edited!Bijection, Edited!Injection, Edited!Surjection,
                  Edited!IsInjective
    <3> HIDE DEF C, m, ids
    <3>3. DOMAIN v[p] = 1..m /\ \A k \in 1..m : v[p][k].id = ids[k]
      BY <3>1, <3>2
    <3>4. ASSUME NEW k \in 1..m PROVE v[p][k] \in [id : 1..n, order : Nat]
      <4>1. ids[k] \in 1..n /\ rs[ids[k]].order \in Nat
        BY <1>1, <2>1, <3>2
      <4>2. v[p][k] = [id |-> ids[k],
                       order |-> IF p = Edited!Course THEN rs[ids[k]].order ELSE 0]
        BY <3>1, <3>2
      <4> HIDE DEF Shown, n
      <4> QED
        BY <4>1, <4>2
    <3>5. v[p] \in [1..m -> [id : 1..n, order : Nat]]
      <4>1. v[p] = [k \in 1..m |-> v[p][k]]
        BY <3>1, <3>2
      <4> QED
        BY <3>4, <4>1
    <3>6. v[p] \in Seq([id : 1..n, order : Nat])
      <4> DEFINE I == [id : 1..n, order : Nat]
                 w == v[p]
      <4>1. w \in [1..m -> I]
        BY <3>5
      <4> HIDE DEF I, w
      <4>2. w \in Seq(I)
        BY <2>1, <4>1
      <4> QED
        BY <4>2 DEF I, w
    <3>7. {v[p][k].id : k \in DOMAIN v[p]} = C
      BY <3>2, <3>3
    <3>8. InOrder(v, rs, p)
      BY <3>2, <3>3 DEF InOrder
    <3>9. \A k, l \in DOMAIN v[p] : v[p][k].id = v[p][l].id => k = l
      BY <3>2, <3>3
    <3> QED
      BY <3>6, <3>7, <3>8, <3>9 DEF C
  <2> QED
    BY <2>2, <2>3
<1>4. v \in Views(n)
  BY <1>2, <1>3 DEF Views
<1> QED
  BY <1>3, <1>4 DEF Agrees, ShowsAll

-----------------------------------------------------------------------------
(* Its requests *)

\* Nothing is relied on when nothing is under way.
LEMMA NothingRelied ==
  ASSUME NEW n \in Nat, NEW v, NEW rs
  PROVE  /\ Edited!NoJob \in EditJobs(n) /\ Relies(Edited!NoJob, v, rs)
         /\ Edited!Load \in EditJobs(n) /\ Relies(Edited!Load, v, rs)
         /\ Edited!Load.op = "load" /\ Edited!Load.at = "read" /\ Edited!NoJob.op = "none"
         /\ Edited!NoJob.at = "idle" /\ Edited!Load # Edited!NoJob
<1>1. Edited!NoJob \in EditJobs(n) /\ Edited!Load \in EditJobs(n)
  <2>1. 0 \in 0..n /\ Edited!Course \in Edited!Parents /\ {} \in SUBSET (1..n) /\ 0 \in Nat
    BY CurriculumAssumption DEF Edited!Parents, Edited!Course
  <2>2. <<>> \in Seq(1..n) /\ <<>> \in {<<>>} \cup Views(n)
    BY EmptySeq
  <2>3. Edited!NoJob \in EditJobs(n)
    BY <2>1, <2>2 DEF Edited!NoJob, EditJobs
  <2>4. Edited!Load.op = "load" /\ Edited!Load = [Edited!NoJob EXCEPT !.op = "load", !.at = "read"]
    BY DEF Edited!NoJob, Edited!Load
  <2> QED
    BY <2>1, <2>3, <2>4 DEF EditJobs
<1>2. Relies(Edited!NoJob, v, rs) /\ Relies(Edited!Load, v, rs)
  BY DEF Edited!NoJob, Edited!Load, Relies, Steady, EditsTruth, OrdersShown, LoadsTruth, ComesLast
<1> QED
  BY <1>1, <1>2 DEF Edited!NoJob, Edited!Load

\* The step of a request that is alone, or alone in what it starts.
LEMMA RequestGoesOn ==
  ASSUME EditInv, NEW h \in Requests, NEW j,
         \A g \in Requests \ {h} : requested[g] = Edited!NoJob,
         requested' = [requested EXCEPT ![h] = j],
         Len(rows') \in Nat, Len(rows) <= Len(rows'),
         j \in EditJobs(Len(rows')),
         j.op = "load" /\ j.at = "answer" => j.seen \in Views(Len(rows')),
         Relies(j, displayed', rows'),
         unsure' /\ j.op # "none" => j.op = "load",
         j.op = "none" /\ ~unsure' => Agrees(displayed', rows')
  PROVE  /\ requested' \in [Requests -> EditJobs(Len(rows'))]
         /\ \A g \in Requests :
               requested'[g].op = "load" /\ requested'[g].at = "answer"
                   => requested'[g].seen \in Views(Len(rows'))
         /\ OneEdit' /\ UnsureLoads' /\ PageAgrees'
         /\ \A g \in Requests : Relies(requested'[g], displayed', rows')
<1>1. requested \in [Requests -> EditJobs(Len(rows))] /\ Len(rows) \in Nat
  BY LenProperties DEF EditInv, EditTypes
<1>2. EditJobs(Len(rows)) \subseteq EditJobs(Len(rows'))
  BY <1>1, MoreItems
<1>3. requested'[h] = j /\ \A g \in Requests \ {h} : requested'[g] = Edited!NoJob
  BY <1>1
<1>4. /\ Edited!NoJob \in EditJobs(Len(rows')) /\ Relies(Edited!NoJob, displayed', rows')
      /\ Edited!NoJob.op = "none" /\ Edited!NoJob.at = "idle"
  BY NothingRelied
<1>5. requested' \in [Requests -> EditJobs(Len(rows'))]
  BY <1>1, <1>2
<1>6. \A g \in Requests :
         /\ Relies(requested'[g], displayed', rows')
         /\ requested'[g].op = "load" /\ requested'[g].at = "answer"
               => requested'[g].seen \in Views(Len(rows'))
  BY <1>3, <1>4
<1>7. OneEdit'
  BY <1>3 DEF OneEdit
<1>8. UnsureLoads'
  BY <1>3, <1>4 DEF UnsureLoads
<1>9. PageAgrees'
  BY <1>3, <1>4 DEF PageAgrees, Edited!AtRest
<1> QED
  BY <1>5, <1>6, <1>7, <1>8, <1>9

\* Who is under way is alone.
LEMMA OthersRest ==
  ASSUME EditInv, NEW h \in Requests, Edited!AtRest \/ requested[h] # Edited!NoJob
  PROVE  \A g \in Requests \ {h} : requested[g] = Edited!NoJob
BY DEF EditInv, OneEdit, Edited!AtRest

\* A request that starts finds the page as the tables are, unless it is to load it.
LEMMA StartsKnowing ==
  ASSUME EditInv, NEW h \in Requests, NEW j, Edited!Start(h, j)
  PROVE  /\ requested' = [requested EXCEPT ![h] = j] /\ requested[h] = Edited!NoJob
         /\ \A g \in Requests \ {h} : requested[g] = Edited!NoJob
         /\ j.op # "load" => ~unsure /\ Agrees(displayed, rows)
<1>1. Edited!AtRest /\ (j # Edited!Load => ~unsure)
  BY DEF Edited!Start, Edited!MayAct
<1>2. j.op # "load" => j # Edited!Load
  BY NothingRelied
<1> QED
  BY <1>1, <1>2, OthersRest DEF Edited!Start, EditInv, PageAgrees

\* The tables at the start, and the page that has loaded them.
LEMMA CourseInit == ASSUME Edited!Init PROVE EditInv
<1> DEFINE a == [parent |-> Edited!Course, order |-> 0]
           b == [parent |-> Edited!Course, order |-> 1]
           c == [parent |-> 1, order |-> 0]
           R == [parent : Edited!Gone..LastItem, order : Nat]
<1>1. rows = <<a, b, c>> /\ a \in R /\ b \in R /\ c \in R
  BY CurriculumAssumption DEF Edited!Init, Edited!Course, Edited!Gone
<1>2. rows \in Seq(R) /\ Len(rows) = 3
  <2> HIDE DEF a, b, c, R
  <2> QED
    BY <1>1
<1>3. displayed \in Views(3) /\ Agrees(displayed, rows)
  BY <1>2, LoadedAgrees DEF Edited!Init
<1>4. /\ \A h \in Requests : requested[h] = Edited!NoJob
      /\ requested \in [Requests -> EditJobs(3)]
  BY NothingRelied DEF Edited!Init
<1>5. Edited!Closed \in [open : BOOLEAN, id : 0..3, parent : Edited!Parents, order : Nat,
                        draft : Nat]
  BY CurriculumAssumption DEF Edited!Closed, Edited!Parents, Edited!Course
<1>6. Edited!PlacesDiffer
  <2>1. DOMAIN rows = 1..3 /\ rows[1].parent = 0 /\ rows[2].parent = 0 /\ rows[3].parent = 1
    BY <1>1 DEF Edited!Course
  <2> QED
    BY <2>1 DEF Edited!PlacesDiffer, Edited!Course
<1>7. EditTypes
  BY <1>2, <1>3, <1>4, <1>5, CurriculumAssumption, NothingRelied
     DEF EditTypes, Edited!Init
<1>8. \A h \in Requests : Relies(requested[h], displayed, rows)
  BY <1>4, NothingRelied
<1> QED
  BY <1>3, <1>4, <1>6, <1>7, <1>8 DEF EditInv, OneEdit, UnsureLoads, PageAgrees, Edited!Init

-----------------------------------------------------------------------------
(* The page *)

\* The dialog is the page's own.
LEMMA DialogMoves ==
  ASSUME EditInv, drafts' \in Nat,
         edit' \in [open : BOOLEAN, id : 0..Len(rows), parent : Edited!Parents, order : Nat,
                    draft : Nat],
         UNCHANGED <<rows, displayed, creating, requested, unsure>>
  PROVE  EditInv'
<1>1. EditTypes'
  BY DEF EditInv, EditTypes
<1> QED
  BY <1>1 DEF EditInv, OneEdit, UnsureLoads, PageAgrees, Edited!AtRest, Edited!PlacesDiffer

LEMMA PageSteps ==
  ASSUME EditInv, NEW p \in Edited!Parents,
         Edited!Cancel \/ Edited!OpenNew(p) \/ Edited!Move(p)
            \/ \E k \in 1..LastItem : Edited!Open(p, k)
  PROVE  EditInv'
<1> DEFINE E == [open : BOOLEAN, id : 0..Len(rows), parent : Edited!Parents, order : Nat,
                 draft : Nat]
<1>1. edit \in E /\ drafts \in Nat /\ Len(rows) \in Nat
  BY LenProperties DEF EditInv, EditTypes
<1>2. CASE Edited!Cancel
  <2>1. Edited!Closed \in E
    BY <1>1, CurriculumAssumption DEF Edited!Closed, Edited!Parents, Edited!Course
  <2> QED
    BY <1>1, <1>2, <2>1, DialogMoves DEF Edited!Cancel
<1>3. CASE Edited!OpenNew(p)
  <2>1. edit' \in E /\ drafts' \in Nat
    BY <1>1, <1>3 DEF Edited!OpenNew
  <2> QED
    BY <1>3, <2>1, DialogMoves DEF Edited!OpenNew
<1>4. CASE Edited!Move(p)
  <2>1. edit' \in E
    BY <1>1, <1>4 DEF Edited!Move
  <2> QED
    BY <1>1, <1>4, <2>1, DialogMoves DEF Edited!Move
<1>5. ASSUME NEW k \in 1..LastItem, Edited!Open(p, k) PROVE EditInv'
  <2>1. displayed[p][k] \in [id : 1..Len(rows), order : Nat]
    BY <1>5, ElementOfSeq, LenProperties DEF Edited!Open, EditInv, EditTypes, Views
  <2>2. edit' \in E
    BY <1>1, <1>5, <2>1 DEF Edited!Open
  <2> QED
    BY <1>1, <1>5, <2>2, DialogMoves DEF Edited!Open
<1> QED
  BY <1>2, <1>3, <1>4, <1>5

\* What starts leaves the tables alone.
LEMMA StepsStart ==
  ASSUME EditInv, NEW h \in Requests, NEW j, Edited!Start(h, j),
         j \in EditJobs(Len(rows)), j.op # "none", j.at # "answer",
         Relies(j, displayed', rows),
         UNCHANGED <<rows, drafts, unsure>>,
         displayed' \in Views(Len(rows)),
         creating' \in Requests \cup {Edited!Nobody},
         edit' \in [open : BOOLEAN, id : 0..Len(rows), parent : Edited!Parents, order : Nat,
                    draft : Nat]
  PROVE  EditInv'
<1>1. /\ requested' = [requested EXCEPT ![h] = j]
      /\ \A g \in Requests \ {h} : requested[g] = Edited!NoJob
      /\ j.op # "load" => ~unsure
  BY StartsKnowing
<1>2. Len(rows) \in Nat /\ rows' = rows /\ unsure' = unsure
  BY LenProperties DEF EditInv, EditTypes
<1>3. /\ requested' \in [Requests -> EditJobs(Len(rows'))]
      /\ \A g \in Requests :
            requested'[g].op = "load" /\ requested'[g].at = "answer"
                => requested'[g].seen \in Views(Len(rows'))
      /\ OneEdit' /\ UnsureLoads' /\ PageAgrees'
      /\ \A g \in Requests : Relies(requested'[g], displayed', rows')
  <2>1. Relies(j, displayed', rows') /\ j \in EditJobs(Len(rows')) /\ Len(rows) <= Len(rows')
    BY <1>2
  <2>2. /\ j.op = "load" /\ j.at = "answer" => j.seen \in Views(Len(rows'))
        /\ unsure' /\ j.op # "none" => j.op = "load"
        /\ j.op = "none" /\ ~unsure' => Agrees(displayed', rows')
        /\ Len(rows') \in Nat
    BY <1>1, <1>2
  <2> QED
    BY <1>1, <2>1, <2>2, RequestGoesOn
<1>4. EditTypes'
  BY <1>2, <1>3 DEF EditInv, EditTypes
<1> QED
  BY <1>2, <1>3, <1>4 DEF EditInv, Edited!PlacesDiffer

LEMMA SaveKeeps == ASSUME EditInv, NEW h \in Requests, Edited!Save(h) PROVE EditInv'
<1> DEFINE j == IF edit.id = 0 THEN Edited!Creation
                ELSE [Edited!NoJob EXCEPT !.op = "update", !.id = edit.id, !.parent = edit.parent,
                         !.order = edit.order,
                         !.at = IF edit.parent = Edited!Course THEN "write" ELSE "read"]
<1>1. Edited!Start(h, j) /\ UNCHANGED <<rows, displayed, edit, creating, drafts, unsure>>
  BY DEF Edited!Save
<1>2. /\ edit \in [open : BOOLEAN, id : 0..Len(rows), parent : Edited!Parents, order : Nat,
                   draft : Nat]
      /\ Len(rows) \in Nat /\ Edited!NoJob \in EditJobs(Len(rows))
      /\ displayed \in Views(Len(rows)) /\ creating \in Requests \cup {Edited!Nobody}
  BY LenProperties, NothingRelied DEF EditInv, EditTypes
<1>3. /\ j \in EditJobs(Len(rows)) /\ j.op \in {"create", "update"} /\ j.at \in {"read", "write"}
      /\ j.ok
  BY <1>2 DEF EditJobs, Edited!Creation, Edited!NoJob
<1>4. j.at = "write" => j.op = "update" /\ j.parent = Edited!Course
  BY DEF Edited!Creation, Edited!NoJob
<1> HIDE DEF j
<1>5. Agrees(displayed, rows)
  BY <1>1, <1>3, StartsKnowing
<1>6. Relies(j, displayed, rows)
  BY <1>3, <1>4, <1>5 DEF Relies, Steady, EditsTruth, OrdersShown, LoadsTruth, ComesLast
<1> QED
  BY <1>1, <1>2, <1>3, <1>6, StepsStart

LEMMA UploadKeeps == ASSUME EditInv, NEW h \in Requests, Edited!Upload(h) PROVE EditInv'
<1> DEFINE j == Edited!Creation
<1>1. /\ Edited!Start(h, j) /\ creating' = h
      /\ UNCHANGED <<rows, displayed, edit, drafts, unsure>>
  BY DEF Edited!Upload
<1>2. /\ edit \in [open : BOOLEAN, id : 0..Len(rows), parent : Edited!Parents, order : Nat,
                   draft : Nat]
      /\ Len(rows) \in Nat /\ Edited!NoJob \in EditJobs(Len(rows))
      /\ displayed \in Views(Len(rows))
  BY LenProperties, NothingRelied DEF EditInv, EditTypes
<1>3. j \in EditJobs(Len(rows)) /\ j.op = "create" /\ j.at = "read" /\ j.ok
  BY <1>2 DEF EditJobs, Edited!Creation, Edited!NoJob
<1> HIDE DEF j
<1>4. Agrees(displayed, rows)
  BY <1>1, <1>3, StartsKnowing
<1>5. Relies(j, displayed, rows)
  BY <1>3, <1>4 DEF Relies, Steady, EditsTruth, OrdersShown, LoadsTruth, ComesLast
<1> QED
  BY <1>1, <1>2, <1>3, <1>5, StepsStart

LEMMA DeleteKeeps ==
  ASSUME EditInv, NEW h \in Requests, NEW p \in Edited!Parents, NEW k, Edited!Delete(h, p, k)
  PROVE  EditInv'
<1> DEFINE i == displayed[p][k].id
           j == [Edited!NoJob EXCEPT !.op = "delete", !.at = "write", !.id = i, !.parent = p]
<1>1. /\ Edited!Start(h, j) /\ k \in DOMAIN displayed[p]
      /\ UNCHANGED <<rows, displayed, edit, creating, drafts, unsure>>
  BY DEF Edited!Delete
<1>2. /\ edit \in [open : BOOLEAN, id : 0..Len(rows), parent : Edited!Parents, order : Nat,
                   draft : Nat]
      /\ Len(rows) \in Nat /\ Edited!NoJob \in EditJobs(Len(rows))
      /\ displayed \in Views(Len(rows)) /\ creating \in Requests \cup {Edited!Nobody}
  BY LenProperties, NothingRelied DEF EditInv, EditTypes
<1>3. i \in 1..Len(rows)
  <2>1. displayed[p][k] \in [id : 1..Len(rows), order : Nat]
    BY <1>1, <1>2, ElementOfSeq, LenProperties DEF Views
  <2> QED
    BY <2>1
<1> HIDE DEF i
<1>4. /\ j \in EditJobs(Len(rows)) /\ j.op = "delete" /\ j.at = "write" /\ j.ok /\ j.id = i
  <2>1. i \in 0..Len(rows) /\ p \in Edited!Parents
    BY <1>2, <1>3
  <2>2. Edited!NoJob.ok /\ Edited!NoJob \in EditJobs(Len(rows))
    BY <1>2 DEF Edited!NoJob
  <2> QED
    BY <2>1, <2>2 DEF EditJobs
<1> HIDE DEF j
<1>5. Agrees(displayed, rows)
  BY <1>1, <1>4, StartsKnowing
<1>6. i \in DOMAIN rows /\ rows[i].parent # Edited!Gone
  <2>1. i \in Edited!Children(rows, p)
    BY <1>1, <1>5 DEF Agrees, ShowsAll, i
  <2> QED
    BY <2>1, CurriculumAssumption
       DEF Edited!Children, Edited!Parents, Edited!Course, Edited!Gone
<1>7. Relies(j, displayed, rows)
  BY <1>4, <1>5, <1>6 DEF Relies, Steady, EditsTruth, OrdersShown, LoadsTruth, ComesLast
<1> QED
  BY <1>1, <1>2, <1>4, <1>7, StepsStart

LEMMA RefreshKeeps == ASSUME EditInv, NEW h \in Requests, Edited!Refresh(h) PROVE EditInv'
<1>1. /\ Edited!Start(h, Edited!Load) /\ edit' = Edited!Closed
      /\ UNCHANGED <<rows, displayed, creating, drafts, unsure>>
  BY DEF Edited!Refresh
<1>2. /\ Len(rows) \in Nat /\ displayed \in Views(Len(rows))
      /\ creating \in Requests \cup {Edited!Nobody}
  BY LenProperties DEF EditInv, EditTypes
<1>3. /\ Edited!Load \in EditJobs(Len(rows)) /\ Relies(Edited!Load, displayed, rows)
      /\ Edited!Load.op # "none" /\ Edited!Load.at # "answer"
  BY <1>2, NothingRelied
<1>4. Edited!Closed \in [open : BOOLEAN, id : 0..Len(rows), parent : Edited!Parents, order : Nat,
                        draft : Nat]
  BY <1>2, CurriculumAssumption DEF Edited!Closed, Edited!Parents, Edited!Course
<1> QED
  BY <1>1, <1>2, <1>3, <1>4, StepsStart

LEMMA DragKeeps ==
  ASSUME EditInv, NEW h \in Requests, NEW p \in Edited!Parents, NEW from, NEW to,
         Edited!Drag(h, p, from, to)
  PROVE  EditInv'
<1> DEFINE n == Len(rows)
           I == [id : 1..n, order : Nat]
           s == displayed[p]
           moved == Edited!InsertAt(Edited!RemoveAt(s, from), to, s[from])
           j == [Edited!NoJob EXCEPT !.op = "reorder", !.at = "read", !.parent = p,
                                     !.ids = [k \in DOMAIN moved |-> moved[k].id]]
<1>1. /\ Edited!Start(h, j) /\ displayed' = [displayed EXCEPT ![p] = moved]
      /\ UNCHANGED <<rows, edit, creating, drafts, unsure>>
      /\ from \in DOMAIN s /\ to \in DOMAIN s
  BY DEF Edited!Drag
<1>2. /\ edit \in [open : BOOLEAN, id : 0..n, parent : Edited!Parents, order : Nat,
                   draft : Nat]
      /\ n \in Nat /\ Edited!NoJob \in EditJobs(n)
      /\ displayed \in Views(n) /\ creating \in Requests \cup {Edited!Nobody}
  BY LenProperties, NothingRelied DEF EditInv, EditTypes
<1>3. s \in Seq(I) /\ DOMAIN s = 1..Len(s) /\ Len(s) \in Nat
  BY <1>2, LenProperties DEF Views
<1> HIDE DEF n, I, s
<1>m. moved = Edited!InsertAt(Edited!RemoveAt(s, from), to, s[from])
  OBVIOUS
<1> HIDE DEF moved
<1>4. /\ moved \in Seq(I) /\ Len(moved) = Len(s)
      /\ \A k \in 1..Len(s) : moved[k] = s[From(k, from, to)]
  <2>1. from \in 1..Len(s) /\ to \in 1..Len(s)
    BY <1>1, <1>3
  <2>2. moved \in Seq(I) /\ Len(moved) = Len(s) /\ moved = Dragged(s, from, to)
    BY <1>3, <2>1, <1>m, DraggedList
  <2> QED
    BY <2>2 DEF Dragged
<1>5. DOMAIN moved = 1..Len(s) /\ \A k \in 1..Len(s) : moved[k] \in I
  BY <1>4, LenProperties, ElementOfSeq
<1> DEFINE ids == [k \in DOMAIN moved |-> moved[k].id]
<1>6. ids \in Seq(1..n)
  <2>1. \A k \in 1..Len(s) : moved[k].id \in 1..n
    BY <1>5 DEF I
  <2>2. ids \in [1..Len(s) -> 1..n]
    BY <1>5, <2>1
  <2> QED
    BY <1>3, <2>2
<1>7. /\ j \in EditJobs(n) /\ j.op = "reorder" /\ j.at = "read" /\ j.ok /\ j.parent = p
      /\ j.ids = ids
  <2> HIDE DEF ids
  <2>1. j = [Edited!NoJob EXCEPT !.op = "reorder", !.at = "read", !.parent = p, !.ids = ids]
    BY DEF ids
  <2> HIDE DEF j
  <2> QED
    BY <1>2, <1>6, <2>1 DEF EditJobs, Edited!NoJob
<1> HIDE DEF j, ids
<1>8. Agrees(displayed, rows)
  BY <1>1, <1>7, StartsKnowing
<1>9. displayed' \in Views(n)
  BY <1>1, <1>2, <1>4 DEF Views, I
<1>10. /\ displayed'[p] = moved
       /\ \A q \in Edited!Parents \ {p} : displayed'[q] = displayed[q]
  BY <1>1, <1>2 DEF Views
<1>11. ASSUME NEW k \in 1..Len(s)
       PROVE  /\ From(k, from, to) \in 1..Len(s)
              /\ \E l \in 1..Len(s) : From(l, from, to) = k
              /\ \A l \in 1..Len(s) : From(k, from, to) = From(l, from, to) => k = l
  <2>1. From(k, from, to) \in 1..Len(s)
    BY <1>1, <1>3 DEF From
  <2>2. \A l \in 1..Len(s) : From(k, from, to) = From(l, from, to) => k = l
    BY <1>1, <1>3 DEF From
  <2>3. \E l \in 1..Len(s) : From(l, from, to) = k
    <3>1. CASE k = from
      BY <1>1, <1>3, <3>1 DEF From
    <3>2. CASE k < from /\ k < to
      BY <1>1, <1>3, <3>2 DEF From
    <3>3. CASE k > from /\ k > to
      BY <1>1, <1>3, <3>3 DEF From
    <3>4. CASE k < from /\ k >= to
      <4>1. k + 1 \in 1..Len(s) /\ From(k + 1, from, to) = k
        BY <1>1, <1>3, <3>4 DEF From
      <4> QED
        BY <4>1
    <3>5. CASE k > from /\ k <= to
      <4>1. k - 1 \in 1..Len(s) /\ From(k - 1, from, to) = k
        BY <1>1, <1>3, <3>5 DEF From
      <4> QED
        BY <4>1
    <3> QED
      BY <1>1, <1>3, <3>1, <3>2, <3>3, <3>4, <3>5
  <2> QED
    BY <2>1, <2>2, <2>3
<1>12. /\ \A k, l \in 1..Len(s) : s[k].id = s[l].id => k = l
       /\ {s[k].id : k \in 1..Len(s)} = Edited!Children(rows, p)
  BY <1>3, <1>8 DEF Agrees, ShowsAll, s
<1>13. ShowsAll(displayed', rows)
  <2>1. \A k, l \in 1..Len(s) : moved[k].id = moved[l].id => k = l
    BY <1>4, <1>11, <1>12
  <2>2. {moved[k].id : k \in 1..Len(s)} = {s[k].id : k \in 1..Len(s)}
    <3>1. ASSUME NEW k \in 1..Len(s) PROVE \E l \in 1..Len(s) : moved[k].id = s[l].id
      BY <1>4, <1>11
    <3>2. ASSUME NEW k \in 1..Len(s) PROVE \E l \in 1..Len(s) : s[k].id = moved[l].id
      <4>1. PICK l \in 1..Len(s) : From(l, from, to) = k
        BY <1>11
      <4>2. moved[l] = s[k]
        BY <1>4, <4>1
      <4> QED
        BY <4>2
    <3>3. {moved[k].id : k \in 1..Len(s)} \subseteq {s[k].id : k \in 1..Len(s)}
      BY ONLY <3>1
    <3>4. {s[k].id : k \in 1..Len(s)} \subseteq {moved[k].id : k \in 1..Len(s)}
      BY ONLY <3>2
    <3> QED
      BY ONLY <3>3, <3>4
  <2>3. /\ \A k, l \in DOMAIN moved : moved[k].id = moved[l].id => k = l
        /\ {moved[k].id : k \in DOMAIN moved} = Edited!Children(rows, p)
    BY ONLY <1>5, <1>12, <2>1, <2>2
  <2>4. ASSUME NEW q \in Edited!Parents
        PROVE  /\ \A k, l \in DOMAIN displayed'[q] : displayed'[q][k].id = displayed'[q][l].id => k = l
               /\ {displayed'[q][k].id : k \in DOMAIN displayed'[q]} = Edited!Children(rows, q)
    <3>1. CASE q = p
      BY <1>10, <2>3, <3>1
    <3>2. CASE q # p
      BY <1>8, <1>10, <3>2 DEF ShowsAll, Agrees
    <3> QED
      BY <3>1, <3>2
  <2> QED
    BY <2>4 DEF ShowsAll
<1>14. Relies(j, displayed', rows)
  <2>1. \A q \in Edited!Parents \ {p} : InOrder(displayed', rows, q)
    BY <1>8, <1>10 DEF Agrees, InOrder
  <2>2. OrdersShown(j, displayed', rows)
    BY <1>7, <1>10, <1>13, <2>1 DEF OrdersShown, ids
  <2> QED
    BY <1>7, <2>2 DEF Relies, Steady, EditsTruth, LoadsTruth, ComesLast
<1> QED
  BY <1>1, <1>2, <1>7, <1>9, <1>14, StepsStart DEF n

-----------------------------------------------------------------------------
(* The service *)

\* The step of a request, whatever it does to the tables and the page.
LEMMA RequestSteps ==
  ASSUME EditInv, NEW h \in Requests, requested[h] # Edited!NoJob, NEW j,
         requested' = [requested EXCEPT ![h] = j],
         rows' \in Seq([parent : Edited!Gone..LastItem, order : Nat]),
         Len(rows') <= LastItem, Len(rows) <= Len(rows'),
         displayed' \in Views(Len(rows')),
         edit' \in [open : BOOLEAN, id : 0..Len(rows'), parent : Edited!Parents, order : Nat,
                    draft : Nat],
         creating' \in Requests \cup {Edited!Nobody}, drafts' = drafts, unsure' \in BOOLEAN,
         j \in EditJobs(Len(rows')),
         j.op = "load" /\ j.at = "answer" => j.seen \in Views(Len(rows')),
         Relies(j, displayed', rows'),
         unsure' /\ j.op # "none" => j.op = "load",
         j.op = "none" /\ ~unsure' => Agrees(displayed', rows'),
         Edited!PlacesDiffer'
  PROVE  EditInv'
<1>1. \A g \in Requests \ {h} : requested[g] = Edited!NoJob
  BY OthersRest
<1>2. Len(rows') \in Nat
  BY LenProperties
<1>3. /\ requested' \in [Requests -> EditJobs(Len(rows'))]
      /\ \A g \in Requests :
            requested'[g].op = "load" /\ requested'[g].at = "answer"
                => requested'[g].seen \in Views(Len(rows'))
      /\ OneEdit' /\ UnsureLoads' /\ PageAgrees'
      /\ \A g \in Requests : Relies(requested'[g], displayed', rows')
  BY <1>1, <1>2, RequestGoesOn
<1>4. EditTypes'
  BY <1>3 DEF EditInv, EditTypes
<1> QED
  BY <1>3, <1>4 DEF EditInv

\* What holds of a request that is under way.
LEMMA UnderWay ==
  ASSUME EditInv, NEW h \in Requests
  PROVE  /\ requested[h] \in EditJobs(Len(rows)) /\ Relies(requested[h], displayed, rows)
         /\ Len(rows) \in Nat /\ DOMAIN rows = 1..Len(rows)
         /\ rows \in Seq([parent : Edited!Gone..LastItem, order : Nat])
         /\ \A i \in 1..Len(rows) : rows[i] \in [parent : Edited!Gone..LastItem, order : Nat]
         /\ displayed \in Views(Len(rows)) /\ Len(rows) <= LastItem
         /\ edit \in [open : BOOLEAN, id : 0..Len(rows), parent : Edited!Parents, order : Nat,
                      draft : Nat]
         /\ creating \in Requests \cup {Edited!Nobody}
         /\ drafts \in Nat /\ unsure \in BOOLEAN
         /\ requested[h].op # "none" => requested[h] # Edited!NoJob
         /\ unsure /\ requested[h].op # "none" => requested[h].op = "load"
<1>1. rows \in Seq([parent : Edited!Gone..LastItem, order : Nat])
  BY DEF EditInv, EditTypes
<1>2. \A i \in 1..Len(rows) : rows[i] \in [parent : Edited!Gone..LastItem, order : Nat]
  BY <1>1, ElementOfSeq
<1>3. Len(rows) \in Nat /\ DOMAIN rows = 1..Len(rows)
  BY <1>1, LenProperties
<1> QED
  BY <1>1, <1>2, <1>3 DEF EditInv, EditTypes, UnsureLoads, Edited!NoJob

\* A step that leaves the tables and the page alone.
LEMMA RequestReads ==
  ASSUME EditInv, NEW h \in Requests, requested[h].op # "none", NEW j,
         Edited!GoOn(h, j), UNCHANGED <<rows, displayed, edit, creating, drafts, unsure>>,
         j \in EditJobs(Len(rows)), j.op = requested[h].op,
         j.op = "load" /\ j.at = "answer" => j.seen \in Views(Len(rows)),
         Relies(j, displayed, rows)
  PROVE  EditInv'
<1>1. /\ Len(rows) \in Nat /\ Len(rows) <= LastItem
      /\ rows \in Seq([parent : Edited!Gone..LastItem, order : Nat])
      /\ displayed \in Views(Len(rows))
      /\ edit \in [open : BOOLEAN, id : 0..Len(rows), parent : Edited!Parents, order : Nat,
                   draft : Nat]
      /\ creating \in Requests \cup {Edited!Nobody}
      /\ unsure \in BOOLEAN /\ requested[h] # Edited!NoJob
      /\ unsure /\ j.op # "none" => j.op = "load"
  BY UnderWay
<1>2. Edited!PlacesDiffer'
  BY DEF EditInv, Edited!PlacesDiffer
<1>3. /\ rows' \in Seq([parent : Edited!Gone..LastItem, order : Nat])
      /\ Len(rows') <= LastItem /\ Len(rows) <= Len(rows')
      /\ displayed' \in Views(Len(rows'))
      /\ edit' \in [open : BOOLEAN, id : 0..Len(rows'), parent : Edited!Parents, order : Nat,
                    draft : Nat]
      /\ creating' \in Requests \cup {Edited!Nobody} /\ drafts' = drafts /\ unsure' \in BOOLEAN
      /\ j \in EditJobs(Len(rows'))
      /\ (j.op = "load" /\ j.at = "answer" => j.seen \in Views(Len(rows')))
      /\ Relies(j, displayed', rows')
      /\ (unsure' /\ j.op # "none" => j.op = "load")
      /\ (j.op = "none" /\ ~unsure' => Agrees(displayed', rows'))
  BY <1>1
<1>4. requested' = [requested EXCEPT ![h] = j]
  BY DEF Edited!GoOn
<1> QED
  BY <1>1, <1>2, <1>3, <1>4, RequestSteps

LEMMA ReadLastKeeps == ASSUME EditInv, NEW h \in Requests, Edited!ReadLast(h) PROVE EditInv'
<1> DEFINE q == requested[h]
<1>1. /\ q \in EditJobs(Len(rows)) /\ Relies(q, displayed, rows)
      /\ Len(rows) \in Nat /\ DOMAIN rows = 1..Len(rows)
      /\ \A i \in 1..Len(rows) : rows[i] \in [parent : Edited!Gone..LastItem, order : Nat]
  BY UnderWay
<1>2. /\ q.at = "read" /\ q.op \in {"create", "update"}
      /\ UNCHANGED <<rows, displayed, edit, creating, drafts, unsure>>
  BY DEF Edited!ReadLast
<1>3. Agrees(displayed, rows) /\ q.ok
  BY <1>1, <1>2 DEF Relies, EditsTruth, Steady
<1>4. CASE Edited!Exists(q.parent)
  <2>1. PICK place \in Edited!Places(q.parent) \cap (0..LastOrder) :
           Edited!GoOn(h, [q EXCEPT !.at = "write", !.last = place])
    BY <1>4 DEF Edited!ReadLast
  <2> DEFINE j == [q EXCEPT !.at = "write", !.last = place]
  <2>2. place \in Nat
    BY <2>1, CurriculumAssumption
  <2>3. /\ j \in EditJobs(Len(rows)) /\ j.op = q.op /\ j.at = "write" /\ j.last = place
        /\ j.ok /\ j.parent = q.parent
    BY <1>1, <1>3, <2>2 DEF EditJobs
  <2>4. \A i \in Edited!Children(rows, q.parent) : rows[i].order < place
    <3>1. \A i \in Edited!Children(rows, q.parent) : rows[i].order \in Nat
      BY <1>1 DEF Edited!Children
    <3> QED
      BY <2>1, <2>2, <3>1 DEF Edited!Places, Edited!Behind
  <2> HIDE DEF j
  <2>5. Relies(j, displayed, rows)
    BY <1>2, <1>3, <2>3, <2>4
       DEF Relies, Steady, EditsTruth, OrdersShown, LoadsTruth, ComesLast
  <2> QED
    BY <1>2, <2>1, <2>3, <2>5, RequestReads DEF j
<1>5. CASE ~Edited!Exists(q.parent)
  <2> DEFINE j == [q EXCEPT !.at = "answer", !.ok = FALSE]
  <2>1. Edited!GoOn(h, j)
    BY <1>5 DEF Edited!ReadLast, Edited!Answer
  <2>2. j \in EditJobs(Len(rows)) /\ j.op = q.op /\ j.at = "answer" /\ ~j.ok
    BY <1>1 DEF EditJobs
  <2> HIDE DEF j
  <2>3. Relies(j, displayed, rows)
    BY <1>2, <1>3, <2>2 DEF Relies, Steady, EditsTruth, OrdersShown, LoadsTruth, ComesLast
  <2> QED
    BY <1>2, <2>1, <2>2, <2>3, RequestReads
<1> QED
  BY <1>4, <1>5

LEMMA ReadOwnedKeeps == ASSUME EditInv, NEW h \in Requests, Edited!ReadOwned(h) PROVE EditInv'
<1> DEFINE q == requested[h]
           j == [q EXCEPT !.at = "write", !.owned = Edited!Children(rows, q.parent)]
<1>1. /\ q \in EditJobs(Len(rows)) /\ Relies(q, displayed, rows)
      /\ Len(rows) \in Nat /\ DOMAIN rows = 1..Len(rows)
  BY UnderWay
<1>2. /\ q.at = "read" /\ q.op = "reorder" /\ Edited!GoOn(h, j)
      /\ UNCHANGED <<rows, displayed, edit, creating, drafts, unsure>>
  BY DEF Edited!ReadOwned
<1>3. Edited!Children(rows, q.parent) \subseteq 1..Len(rows)
  BY <1>1 DEF Edited!Children
<1>4. /\ j \in EditJobs(Len(rows)) /\ j.op = "reorder" /\ j.at = "write" /\ j.ids = q.ids
      /\ j.parent = q.parent /\ j.owned = Edited!Children(rows, q.parent) /\ j.ok = q.ok
  BY <1>1, <1>2, <1>3 DEF EditJobs
<1> HIDE DEF j
<1>5. Relies(j, displayed, rows)
  BY <1>1, <1>2, <1>4 DEF Relies, Steady, EditsTruth, OrdersShown, LoadsTruth, ComesLast
<1> QED
  BY <1>2, <1>4, <1>5, RequestReads

LEMMA LookKeeps == ASSUME EditInv, NEW h \in Requests, Edited!Look(h) PROVE EditInv'
<1> DEFINE q == requested[h]
<1>1. /\ q \in EditJobs(Len(rows)) /\ Relies(q, displayed, rows) /\ Len(rows) \in Nat
      /\ rows \in Seq([parent : Edited!Gone..LastItem, order : Nat])
  BY UnderWay
<1>2. PICK seen \in Edited!Loaded(rows) : Edited!GoOn(h, [q EXCEPT !.at = "answer", !.seen = seen])
  BY DEF Edited!Look
<1> DEFINE j == [q EXCEPT !.at = "answer", !.seen = seen]
<1>3. q.op = "load" /\ UNCHANGED <<rows, displayed, edit, creating, drafts, unsure>>
  BY DEF Edited!Look
<1>4. seen \in Views(Len(rows)) /\ Agrees(seen, rows)
  BY <1>1, LoadedAgrees
<1>5. j \in EditJobs(Len(rows)) /\ j.op = "load" /\ j.at = "answer" /\ j.seen = seen
  BY <1>1, <1>3, <1>4 DEF EditJobs
<1> HIDE DEF j
<1>6. Relies(j, displayed, rows)
  BY <1>4, <1>5 DEF Relies, Steady, EditsTruth, OrdersShown, LoadsTruth, ComesLast
<1> QED
  BY <1>2, <1>3, <1>4, <1>5, <1>6, RequestReads DEF j

LEMMA CreateKeeps == ASSUME EditInv, NEW h \in Requests, Edited!Create(h) PROVE EditInv'
<1> DEFINE q == requested[h]
           n == Len(rows)
           R == [parent : Edited!Gone..LastItem, order : Nat]
<1>1. /\ q \in EditJobs(n) /\ Relies(q, displayed, rows)
      /\ n \in Nat /\ DOMAIN rows = 1..n /\ rows \in Seq(R) /\ \A i \in 1..n : rows[i] \in R
      /\ displayed \in Views(n) /\ n <= LastItem
      /\ edit \in [open : BOOLEAN, id : 0..n, parent : Edited!Parents, order : Nat, draft : Nat]
      /\ creating \in Requests \cup {Edited!Nobody} /\ unsure \in BOOLEAN
      /\ q.op # "none" => q # Edited!NoJob
      /\ unsure /\ q.op # "none" => q.op = "load"
  BY UnderWay
<1>2. /\ q.at = "write" /\ q.op = "create" /\ n < LastItem
      /\ UNCHANGED <<displayed, edit, creating, drafts, unsure>>
  BY DEF Edited!Create
<1>3. Agrees(displayed, rows) /\ q.ok
      /\ \A i \in Edited!Children(rows, q.parent) : rows[i].order < q.last
  BY <1>1, <1>2 DEF Relies, EditsTruth, Steady, ComesLast
<1>4. CASE Edited!Exists(q.parent)
  <2> DEFINE a == [parent |-> q.parent, order |-> q.last]
             j == [q EXCEPT !.at = "answer", !.id = n + 1]
  <2>1. rows' = Append(rows, a) /\ requested' = [requested EXCEPT ![h] = j]
    BY <1>4 DEF Edited!Create, Edited!GoOn
  <2>2. a \in R /\ q.parent \in Edited!Parents /\ q.last \in Nat
    BY <1>1, CurriculumAssumption DEF EditJobs, Edited!Parents, Edited!Course, Edited!Gone
  <2> HIDE DEF R, a
  <2>3. /\ rows' \in Seq(R) /\ Len(rows') = n + 1 /\ DOMAIN rows' = 1..(n + 1)
        /\ \A i \in 1..n : rows'[i] = rows[i]
        /\ rows'[n + 1] = a
    BY <1>1, <2>1, <2>2, AppendProperties
  <2>4. displayed' \in Views(n + 1)
    BY <1>1, <1>2, MoreItems
  <2>5. edit' \in [open : BOOLEAN, id : 0..(n + 1), parent : Edited!Parents, order : Nat,
                   draft : Nat]
    BY <1>1, <1>2
  <2>6. EditJobs(n) \subseteq EditJobs(n + 1)
    BY <1>1, MoreItems
  <2>7. j \in EditJobs(n + 1) /\ j.op = "create" /\ j.at = "answer" /\ j.ok
    <3>1. q \in EditJobs(n + 1) /\ n + 1 \in 0..(n + 1)
      BY <1>1, <2>6
    <3> QED
      BY <1>2, <1>3, <3>1 DEF EditJobs
  <2> HIDE DEF j
  <2>8. Relies(j, displayed', rows')
    BY <2>7 DEF Relies, Steady, EditsTruth, OrdersShown, LoadsTruth, ComesLast
  <2>9. Edited!PlacesDiffer'
    <3>1. SUFFICES ASSUME NEW i \in 1..(n + 1), NEW l \in 1..(n + 1), i < l,
                          rows'[i].parent = rows'[l].parent,
                          rows'[i].parent \notin {Edited!Course, Edited!Gone}
                   PROVE  rows'[i].order # rows'[l].order
      BY <1>1, <2>3 DEF Edited!PlacesDiffer
    <3>2. i \in 1..n /\ rows'[i] = rows[i]
      BY <1>1, <2>3, <3>1
    <3>3. CASE l = n + 1
      <4>1. i \in Edited!Children(rows, q.parent)
        BY <1>1, <2>3, <3>1, <3>2, <3>3 DEF Edited!Children, a
      <4>2. rows[i].order < q.last /\ rows'[l].order = q.last /\ rows[i].order \in Nat
        <5>1. rows'[l].order = q.last
          BY <2>3, <3>3 DEF a
        <5>2. rows[i] \in R
          BY <1>1, <3>2
        <5> QED
          BY <1>3, <4>1, <5>1, <5>2 DEF R
      <4> QED
        BY <2>2, <3>2, <4>2
    <3>4. CASE l # n + 1
      <4>1. l \in 1..n /\ rows'[l] = rows[l]
        BY <1>1, <2>3, <3>4
      <4> QED
        BY <1>1, <3>1, <3>2, <4>1 DEF EditInv, Edited!PlacesDiffer
    <3> QED
      BY <3>3, <3>4
  <2>10. /\ Len(rows') <= LastItem /\ n <= Len(rows')
         /\ (j.op = "load" /\ j.at = "answer" => j.seen \in Views(Len(rows')))
         /\ (unsure' /\ j.op # "none" => j.op = "load")
         /\ (j.op = "none" /\ ~unsure' => Agrees(displayed', rows'))
         /\ creating' \in Requests \cup {Edited!Nobody} /\ unsure' \in BOOLEAN
         /\ drafts' = drafts /\ q # Edited!NoJob
    BY <1>1, <1>2, <2>3, <2>7, CurriculumAssumption
  <2> QED
    BY <2>1, <2>3, <2>4, <2>5, <2>7, <2>8, <2>9, <2>10, RequestSteps DEF R
<1>5. CASE ~Edited!Exists(q.parent)
  <2> DEFINE j == [q EXCEPT !.at = "answer", !.ok = FALSE]
  <2>1. Edited!GoOn(h, j) /\ rows' = rows
    BY <1>5 DEF Edited!Create, Edited!Answer
  <2>2. j \in EditJobs(n) /\ j.op = q.op /\ j.at = "answer" /\ ~j.ok
    BY <1>1 DEF EditJobs
  <2> HIDE DEF j
  <2>3. Relies(j, displayed, rows)
    BY <1>2, <1>3, <2>2 DEF Relies, Steady, EditsTruth, OrdersShown, LoadsTruth, ComesLast
  <2> QED
    BY <1>2, <2>1, <2>2, <2>3, RequestReads
<1> QED
  BY <1>4, <1>5

\* A request writes to items that there are, and is answered.
LEMMA RequestWrites ==
  ASSUME EditInv, NEW h \in Requests, requested[h].op # "none", requested[h].op # "load",
         NEW j, Edited!GoOn(h, j), j.op = requested[h].op, j.at = "answer",
         UNCHANGED <<displayed, edit, creating, drafts, unsure>>,
         NEW F, rows' = [i \in DOMAIN rows |-> F[i]],
         \A i \in DOMAIN rows : F[i] \in [parent : Edited!Gone..LastItem, order : Nat],
         j \in EditJobs(Len(rows)), Relies(j, displayed, rows'), Edited!PlacesDiffer'
  PROVE  EditInv'
<1> DEFINE n == Len(rows)
           R == [parent : Edited!Gone..LastItem, order : Nat]
<1>1. /\ n \in Nat /\ DOMAIN rows = 1..n /\ n <= LastItem
      /\ displayed \in Views(n)
      /\ edit \in [open : BOOLEAN, id : 0..n, parent : Edited!Parents, order : Nat, draft : Nat]
      /\ creating \in Requests \cup {Edited!Nobody} /\ unsure \in BOOLEAN
      /\ requested[h] # Edited!NoJob
      /\ ~unsure
  BY UnderWay
<1>2. rows' \in Seq(R) /\ Len(rows') = n
  <2>1. rows' \in [1..n -> R]
    BY <1>1
  <2> HIDE DEF R
  <2> QED
    BY <1>1, <2>1
<1>3. /\ Len(rows') <= LastItem /\ n <= Len(rows')
      /\ displayed' \in Views(Len(rows'))
      /\ edit' \in [open : BOOLEAN, id : 0..Len(rows'), parent : Edited!Parents, order : Nat,
                    draft : Nat]
      /\ creating' \in Requests \cup {Edited!Nobody} /\ drafts' = drafts /\ unsure' \in BOOLEAN
      /\ j \in EditJobs(Len(rows'))
      /\ (j.op = "load" /\ j.at = "answer" => j.seen \in Views(Len(rows')))
      /\ Relies(j, displayed', rows')
      /\ (unsure' /\ j.op # "none" => j.op = "load")
      /\ (j.op = "none" /\ ~unsure' => Agrees(displayed', rows'))
      /\ requested' = [requested EXCEPT ![h] = j]
  BY <1>1, <1>2 DEF Edited!GoOn
<1> QED
  BY <1>1, <1>2, <1>3, RequestSteps

LEMMA UpdateKeeps == ASSUME EditInv, NEW h \in Requests, Edited!Update(h) PROVE EditInv'
<1> DEFINE q == requested[h]
           n == Len(rows)
           R == [parent : Edited!Gone..LastItem, order : Nat]
           there == rows[q.id].parent # Edited!Gone /\ Edited!Exists(q.parent)
           a == [parent |-> q.parent,
                 order |-> IF q.parent = Edited!Course THEN q.order ELSE q.last]
           j == [q EXCEPT !.at = "answer", !.ok = there]
           F == [i \in DOMAIN rows |-> IF there /\ i = q.id THEN a ELSE rows[i]]
<1>1. /\ q \in EditJobs(n) /\ Relies(q, displayed, rows)
      /\ n \in Nat /\ DOMAIN rows = 1..n /\ rows \in Seq(R) /\ \A i \in 1..n : rows[i] \in R
  BY UnderWay
<1>2. /\ q.at = "write" /\ q.op = "update"
      /\ UNCHANGED <<displayed, edit, creating, drafts, unsure>>
      /\ rows' = IF ~there THEN rows ELSE [rows EXCEPT ![q.id] = a]
      /\ Edited!GoOn(h, j)
  BY DEF Edited!Update, Edited!Answer
<1>3. there \in BOOLEAN
  OBVIOUS
<1> HIDE DEF there
<1>4. /\ Agrees(displayed, rows) /\ q.ok
      /\ (q.parent # Edited!Course
            => \A i \in Edited!Children(rows, q.parent) : rows[i].order < q.last)
  BY <1>1, <1>2 DEF Relies, EditsTruth, Steady, ComesLast
<1>5. a \in R /\ q.last \in Nat
  BY <1>1, CurriculumAssumption DEF EditJobs, Edited!Parents, Edited!Course, Edited!Gone
<1>6. j \in EditJobs(n) /\ j.op = "update" /\ j.at = "answer" /\ j.ok = there
  BY <1>1, <1>2, <1>3 DEF EditJobs
<1>a. a.parent = q.parent /\ (q.parent # Edited!Course => a.order = q.last)
  OBVIOUS
<1> HIDE DEF j, a
<1>7. rows' = [i \in DOMAIN rows |-> F[i]] /\ \A i \in DOMAIN rows : F[i] \in R
  <2>1. rows = [i \in 1..n |-> rows[i]]
    BY ONLY <1>1, LenProperties
  <2> HIDE DEF R
  <2> QED
    BY <1>1, <1>2, <1>5, <2>1
<1>8. Relies(j, displayed, rows')
  <2>1. ~there => rows' = rows
    BY <1>2
  <2> QED
    BY <1>4, <1>6, <2>1 DEF Relies, Steady, EditsTruth, OrdersShown, LoadsTruth, ComesLast
<1>9. Edited!PlacesDiffer'
  <2>1. DOMAIN rows' = 1..n /\ \A i \in 1..n : rows'[i] = IF there /\ i = q.id THEN a ELSE rows[i]
    BY <1>1, <1>7
  <2>2. ASSUME NEW i \in 1..n, NEW l \in 1..n, i # l, rows'[i].parent = rows'[l].parent,
               rows'[i].parent \notin {Edited!Course, Edited!Gone}
        PROVE  rows'[i].order # rows'[l].order
    <3>1. rows[i].order \in Nat /\ rows[l].order \in Nat
      BY <1>1
    <3>2. CASE ~(there /\ i = q.id) /\ ~(there /\ l = q.id)
      BY <1>1, <2>1, <2>2, <3>2 DEF EditInv, Edited!PlacesDiffer
    <3>3. CASE there /\ i = q.id
      <4>1. rows'[i] = a /\ rows'[l] = rows[l]
        BY <2>1, <2>2, <3>3
      <4>2. l \in Edited!Children(rows, q.parent) /\ q.parent # Edited!Course
        BY <1>1, <1>a, <2>2, <4>1 DEF Edited!Children
      <4> QED
        BY <1>4, <1>5, <1>a, <3>1, <4>1, <4>2
    <3>4. CASE there /\ l = q.id
      <4>1. rows'[l] = a /\ rows'[i] = rows[i]
        BY <2>1, <2>2, <3>4
      <4>2. i \in Edited!Children(rows, q.parent) /\ q.parent # Edited!Course
        BY <1>1, <1>a, <2>2, <4>1 DEF Edited!Children
      <4> QED
        BY <1>4, <1>5, <1>a, <3>1, <4>1, <4>2
    <3> QED
      BY <3>2, <3>3, <3>4
  <2> QED
    BY <2>1, <2>2 DEF Edited!PlacesDiffer
<1> HIDE DEF F
<1>10. q.op # "none" /\ q.op # "load" /\ j.op = q.op
  BY <1>2, <1>6
<1> QED
  BY <1>2, <1>6, <1>7, <1>8, <1>9, <1>10, RequestWrites

LEMMA EraseKeeps == ASSUME EditInv, NEW h \in Requests, Edited!Erase(h) PROVE EditInv'
<1> DEFINE q == requested[h]
           n == Len(rows)
           R == [parent : Edited!Gone..LastItem, order : Nat]
           j == [q EXCEPT !.at = "answer", !.ok = rows[q.id].parent # Edited!Gone]
           F == [i \in DOMAIN rows |->
                    IF q.id \in {i, rows[i].parent} THEN [rows[i] EXCEPT !.parent = Edited!Gone]
                    ELSE rows[i]]
<1>1. /\ q \in EditJobs(n) /\ Relies(q, displayed, rows)
      /\ n \in Nat /\ DOMAIN rows = 1..n /\ rows \in Seq(R) /\ \A i \in 1..n : rows[i] \in R
  BY UnderWay
<1>2. /\ q.at = "write" /\ q.op = "delete"
      /\ UNCHANGED <<displayed, edit, creating, drafts, unsure>>
      /\ rows' = F /\ Edited!GoOn(h, j)
  BY DEF Edited!Erase, Edited!Answer
<1>3. rows[q.id].parent # Edited!Gone
  BY <1>1, <1>2 DEF Relies, EditsTruth
<1>4. j \in EditJobs(n) /\ j.op = "delete" /\ j.at = "answer" /\ j.ok
  BY <1>1, <1>2, <1>3 DEF EditJobs
<1> HIDE DEF j
<1>5. \A i \in DOMAIN rows : F[i] \in R
  BY <1>1, CurriculumAssumption DEF Edited!Gone
<1>6. Relies(j, displayed, rows')
  BY <1>4 DEF Relies, Steady, EditsTruth, OrdersShown, LoadsTruth, ComesLast
<1>7. /\ DOMAIN rows' = DOMAIN rows
      /\ \A i \in DOMAIN rows : rows'[i].parent = Edited!Gone \/ rows'[i] = rows[i]
  BY <1>1, <1>2
<1>8. Edited!PlacesDiffer'
  BY <1>7 DEF EditInv, Edited!PlacesDiffer
<1>9. rows' = [i \in DOMAIN rows |-> F[i]]
  BY <1>2
<1> HIDE DEF F
<1> QED
  BY <1>2, <1>4, <1>5, <1>6, <1>8, <1>9, RequestWrites

\* How many places are before the k-th.
LEMMA PlacesBefore ==
  ASSUME NEW k \in Nat, k > 0
  PROVE  Edited!Cardinality(1..(k - 1)) = k - 1
<1>1. Cardinality(1..(k - 1)) = k - 1
  BY FS_Interval
<1> QED
  BY <1>1 DEF Cardinality, Edited!Cardinality

LEMMA ReorderKeeps == ASSUME EditInv, NEW h \in Requests, Edited!Reorder(h) PROVE EditInv'
<1> DEFINE q == requested[h]
           n == Len(rows)
           R == [parent : Edited!Gone..LastItem, order : Nat]
           p == q.parent
           ids == q.ids
           C == Edited!Children(rows, p)
           clean == {k \in DOMAIN ids : ids[k] \in q.owned}
           whole == \A k \in clean : rows[ids[k]].parent # Edited!Gone
           At(i) == {k \in clean : ids[k] = i}
           Place(i) == Edited!Cardinality({l \in clean : \A k \in At(i) : l < k})
           j == [q EXCEPT !.at = "answer", !.ok = whole]
           G(i) == IF At(i) # {} THEN [rows[i] EXCEPT !.order = Place(i)] ELSE rows[i]
           F == [i \in DOMAIN rows |-> G(i)]
           v == displayed
           m == Len(v[p])
<1>1. /\ q \in EditJobs(n) /\ Relies(q, v, rows)
      /\ n \in Nat /\ DOMAIN rows = 1..n /\ rows \in Seq(R) /\ (\A i \in 1..n : rows[i] \in R)
      /\ v \in Views(n)
  BY UnderWay
<1>2. /\ q.at = "write" /\ q.op = "reorder"
      /\ UNCHANGED <<displayed, edit, creating, drafts, unsure>>
      /\ rows' = (IF ~whole THEN rows ELSE F) /\ Edited!GoOn(h, j)
  BY DEF Edited!Reorder, Edited!Answer
<1>3. p \in Edited!Parents /\ p # Edited!Gone
  BY <1>1, CurriculumAssumption DEF EditJobs, Edited!Parents, Edited!Course, Edited!Gone
<1>4. /\ ShowsAll(v, rows) /\ (\A o \in Edited!Parents \ {p} : InOrder(v, rows, o))
      /\ ids = [k \in DOMAIN v[p] |-> v[p][k].id] /\ q.owned = C /\ q.ok
  BY <1>1, <1>2 DEF Relies, OrdersShown, Steady
<1>5. m \in Nat /\ DOMAIN v[p] = 1..m
  BY <1>1, <1>3, LenProperties DEF Views
<1> HIDE DEF m
<1>6. /\ ids = [k \in 1..m |-> v[p][k].id]
      /\ (\A k, l \in 1..m : ids[k] = ids[l] => k = l)
      /\ {ids[k] : k \in 1..m} = C
  BY <1>3, <1>4, <1>5 DEF ShowsAll
<1> HIDE DEF ids
<1>7. clean = 1..m
  <2>1. DOMAIN ids = 1..m /\ \A k \in 1..m : ids[k] \in C
    BY ONLY <1>6
  <2>2. \A k \in 1..m : ids[k] \in q.owned
    BY <1>4, <2>1
  <2> QED
    BY ONLY <2>1, <2>2
<1>8. C \subseteq 1..n /\ \A i \in 1..n : i \in C <=> rows[i].parent = p
  BY <1>1 DEF Edited!Children
<1> HIDE DEF C
<1>9. whole
  BY <1>3, <1>6, <1>7, <1>8
<1> HIDE DEF whole
<1>10. ASSUME NEW k \in 1..m
       PROVE  At(ids[k]) = {k} /\ Place(ids[k]) = k - 1
  <2>1. At(ids[k]) = {k}
    BY <1>6, <1>7
  <2>2. {l \in clean : \A o \in At(ids[k]) : l < o} = 1..(k - 1)
    BY <1>5, <1>7, <2>1
  <2>3. k \in Nat /\ k > 0
    BY <1>5
  <2>4. Place(ids[k]) = Edited!Cardinality(1..(k - 1))
    BY ONLY <2>2
  <2> HIDE DEF Place, At
  <2> QED
    BY <2>1, <2>3, <2>4, PlacesBefore
<1>11. ASSUME NEW i \in 1..n, i \notin C
       PROVE  At(i) = {}
  BY <1>6, <1>7, <1>11
<1> HIDE DEF At, Place, clean
<1>12. /\ \A k \in 1..m : ids[k] \in C /\ G(ids[k]) = [rows[ids[k]] EXCEPT !.order = k - 1]
       /\ \A i \in 1..n : i \notin C => G(i) = rows[i]
       /\ \A i \in C : \E k \in 1..m : i = ids[k]
  BY <1>6, <1>10, <1>11
<1> HIDE DEF G
<1>13. \A i \in 1..n : G(i) \in R /\ G(i).parent = rows[i].parent
  <2>1. ASSUME NEW k \in 1..m
        PROVE  G(ids[k]) \in R /\ G(ids[k]).parent = rows[ids[k]].parent
    <3>1. rows[ids[k]] \in R /\ k - 1 \in Nat
      <4>1. ids[k] \in 1..n
        BY <1>8, <1>12
      <4>2. k - 1 \in Nat
        BY <1>5
      <4> HIDE DEF R
      <4> QED
        BY <1>1, <4>1, <4>2
    <3> QED
      BY <1>12, <3>1
  <2> HIDE DEF R
  <2> QED
    BY <1>1, <1>12, <2>1
<1>14. /\ rows' = [i \in DOMAIN rows |-> F[i]] /\ DOMAIN rows' = 1..n
       /\ \A i \in 1..n : rows'[i] = G(i) /\ F[i] = G(i)
  BY <1>1, <1>2, <1>9
<1> HIDE DEF F
<1>15. \A k \in 1..m : rows'[ids[k]].order = k - 1
  <2>1. ASSUME NEW k \in 1..m PROVE rows'[ids[k]].order = k - 1
    <3>1. ids[k] \in 1..n /\ rows[ids[k]] \in R
      BY <1>1, <1>8, <1>12
    <3> QED
      BY <1>12, <1>14, <3>1
  <2> QED
    BY <2>1
<1>16. ShowsAll(v, rows')
  <2>1. \A o : Edited!Children(rows', o) = Edited!Children(rows, o)
    BY <1>1, <1>13, <1>14 DEF Edited!Children
  <2> QED
    BY <1>4, <2>1 DEF ShowsAll
<1>17. ASSUME NEW o \in Edited!Parents PROVE InOrder(v, rows', o)
  <2>1. CASE o = p
    <3>1. \A k \in 1..m : v[p][k].id = ids[k]
      BY <1>6
    <3> QED
      BY <1>5, <1>15, <2>1, <3>1 DEF InOrder
  <2>2. CASE o # p
    <3>1. \A k \in DOMAIN v[o] : v[o][k].id \in Edited!Children(rows, o)
      BY <1>4 DEF ShowsAll
    <3>2. \A k \in DOMAIN v[o] : rows'[v[o][k].id] = rows[v[o][k].id]
      <4>1. ASSUME NEW k \in DOMAIN v[o]
            PROVE  v[o][k].id \in 1..n /\ v[o][k].id \notin C
        BY <1>1, <1>8, <2>2, <3>1 DEF Edited!Children
      <4> QED
        BY <1>12, <1>14, <4>1
    <3> QED
      BY <1>4, <2>2, <3>2 DEF InOrder
  <2> QED
    BY <2>1, <2>2
<1>18. Agrees(displayed, rows')
  BY <1>16, <1>17 DEF Agrees
<1>19. j \in EditJobs(n) /\ j.op = "reorder" /\ j.at = "answer" /\ j.ok
  BY <1>1, <1>2, <1>9 DEF EditJobs
<1> HIDE DEF j
<1>20. Relies(j, displayed, rows')
  BY <1>18, <1>19 DEF Relies, Steady, EditsTruth, OrdersShown, LoadsTruth, ComesLast
<1>21. Edited!PlacesDiffer'
  <2>1. ASSUME NEW i \in 1..n, NEW l \in 1..n, i # l, rows'[i].parent = rows'[l].parent,
               rows'[i].parent \notin {Edited!Course, Edited!Gone}
        PROVE  rows'[i].order # rows'[l].order
    <3>1. CASE i \in C
      <4>1. l \in C
        BY <1>8, <1>13, <1>14, <2>1, <3>1
      <4>2. PICK k \in 1..m, o \in 1..m : i = ids[k] /\ l = ids[o]
        BY <1>12, <3>1, <4>1
      <4> QED
        BY <1>15, <2>1, <4>2
    <3>2. CASE i \notin C
      <4>1. l \notin C
        BY <1>8, <1>13, <1>14, <2>1, <3>2
      <4>2. rows'[i] = rows[i] /\ rows'[l] = rows[l]
        BY <1>12, <1>14, <3>2, <4>1
      <4> QED
        BY <1>1, <2>1, <4>2 DEF EditInv, Edited!PlacesDiffer
    <3> QED
      BY <3>1, <3>2
  <2> QED
    BY <1>14, <2>1 DEF Edited!PlacesDiffer
<1>22. q.op # "none" /\ q.op # "load" /\ j.op = q.op /\ \A i \in DOMAIN rows : F[i] \in R
  BY <1>1, <1>2, <1>13, <1>14, <1>19
<1> QED
  BY <1>2, <1>14, <1>19, <1>20, <1>21, <1>22, RequestWrites

-----------------------------------------------------------------------------
(* Answers *)

\* A step that leaves the tables alone, after which the request is over, or loads.
LEMMA RequestEnds ==
  ASSUME EditInv, NEW h \in Requests, requested[h].op # "none",
         NEW j, j \in {Edited!NoJob, Edited!Load}, Edited!GoOn(h, j), UNCHANGED <<rows, drafts>>,
         displayed' \in Views(Len(rows)),
         edit' \in [open : BOOLEAN, id : 0..Len(rows), parent : Edited!Parents, order : Nat,
                    draft : Nat],
         creating' \in Requests \cup {Edited!Nobody}, unsure' \in BOOLEAN,
         j = Edited!NoJob /\ ~unsure' => Agrees(displayed', rows)
  PROVE  EditInv'
<1>1. /\ Len(rows) \in Nat /\ Len(rows) <= LastItem
      /\ rows \in Seq([parent : Edited!Gone..LastItem, order : Nat])
      /\ requested[h] # Edited!NoJob
  BY UnderWay
<1>2. /\ j \in EditJobs(Len(rows)) /\ Relies(j, displayed', rows)
      /\ j.op \in {"none", "load"} /\ j.at # "answer" /\ (j.op = "none" => j = Edited!NoJob)
  BY <1>1, NothingRelied
<1>3. Edited!PlacesDiffer'
  BY DEF EditInv, Edited!PlacesDiffer
<1>4. /\ rows' \in Seq([parent : Edited!Gone..LastItem, order : Nat])
      /\ Len(rows') <= LastItem /\ Len(rows) <= Len(rows')
      /\ displayed' \in Views(Len(rows'))
      /\ edit' \in [open : BOOLEAN, id : 0..Len(rows'), parent : Edited!Parents, order : Nat,
                    draft : Nat]
      /\ j \in EditJobs(Len(rows'))
      /\ (j.op = "load" /\ j.at = "answer" => j.seen \in Views(Len(rows')))
      /\ Relies(j, displayed', rows')
      /\ (unsure' /\ j.op # "none" => j.op = "load")
      /\ (j.op = "none" /\ ~unsure' => Agrees(displayed', rows'))
      /\ drafts' = drafts
  BY <1>1, <1>2
<1>5. requested' = [requested EXCEPT ![h] = j]
  BY DEF Edited!GoOn
<1> QED
  BY <1>1, <1>3, <1>4, <1>5, RequestSteps

LEMMA AnswersKeep ==
  ASSUME EditInv, NEW h \in Requests, Edited!Told(h) \/ Edited!Show(h) \/ Edited!Fail(h)
  PROVE  EditInv'
<1> DEFINE q == requested[h]
           n == Len(rows)
           E == [open : BOOLEAN, id : 0..n, parent : Edited!Parents, order : Nat, draft : Nat]
<1>1. /\ q \in EditJobs(n) /\ Relies(q, displayed, rows) /\ n \in Nat
      /\ displayed \in Views(n) /\ edit \in E
      /\ creating \in Requests \cup {Edited!Nobody} /\ unsure \in BOOLEAN
      /\ (unsure /\ q.op # "none" => q.op = "load")
  BY UnderWay
<1>2. q.at = "answer" \/ q # Edited!NoJob => q.op # "none"
  BY <1>1, NothingRelied DEF Relies, Steady
<1>3. CASE Edited!Told(h)
  <2>1. /\ q.at = "answer" /\ q.ok /\ q.op # "load" /\ edit' = Edited!Dialog(h)
        /\ creating' = (IF creating = h THEN Edited!Nobody ELSE creating)
        /\ UNCHANGED <<rows, displayed, drafts, unsure>>
    BY <1>3 DEF Edited!Told
  <2>2. PICK j \in {Edited!NoJob, Edited!Load} :
           /\ Edited!GoOn(h, j) /\ (j = Edited!NoJob => q.op = "reorder")
    <3>1. CASE q.op = "reorder"
      BY <1>3, <3>1 DEF Edited!Told
    <3>2. CASE q.op # "reorder"
      BY <1>3, <3>2, NothingRelied DEF Edited!Told
    <3> QED
      BY <3>1, <3>2
  <2>3. edit' \in E
    <3>1. Edited!Closed \in E
      BY <1>1, CurriculumAssumption DEF Edited!Closed, Edited!Parents, Edited!Course
    <3>2. [edit EXCEPT !.id = q.id] \in E
      BY <1>1 DEF EditJobs
    <3> HIDE DEF E
    <3> QED
      BY <1>1, <2>1, <3>1, <3>2 DEF Edited!Dialog
  <2>4. j = Edited!NoJob => Agrees(displayed, rows)
    BY <1>1, <2>1, <2>2 DEF Relies, OrdersShown
  <2>5. creating' \in Requests \cup {Edited!Nobody}
    BY <1>1, <2>1
  <2> QED
    BY <1>1, <1>2, <2>1, <2>2, <2>3, <2>4, <2>5, RequestEnds
<1>4. CASE Edited!Show(h)
  <2>1. /\ q.at = "answer" /\ q.op = "load" /\ displayed' = q.seen /\ unsure' = FALSE
        /\ Edited!GoOn(h, Edited!NoJob) /\ UNCHANGED <<rows, edit, creating, drafts>>
    BY <1>4 DEF Edited!Show
  <2>2. q.seen \in Views(n)
    BY <2>1 DEF EditInv, EditTypes
  <2>3. Agrees(displayed', rows)
    BY <1>1, <2>1 DEF Relies, LoadsTruth
  <2> QED
    BY <1>1, <1>2, <2>1, <2>2, <2>3, RequestEnds
<1>5. CASE Edited!Fail(h)
  <2> DEFINE j == IF q.op = "reorder" THEN Edited!Load ELSE Edited!NoJob
  <2>1. /\ q # Edited!NoJob /\ Edited!GoOn(h, j)
        /\ creating' = (IF creating = h THEN Edited!Nobody ELSE creating)
        /\ unsure' = (unsure \/ q.op = "load" \/ Edited!Done(h))
        /\ UNCHANGED <<rows, displayed, edit, drafts>>
    BY <1>5 DEF Edited!Fail, Edited!Failed
  <2>2. j \in {Edited!NoJob, Edited!Load} /\ (j = Edited!NoJob => q.op # "reorder")
    BY NothingRelied
  <2> HIDE DEF j
  <2>3. j = Edited!NoJob /\ ~unsure' => Agrees(displayed, rows)
    <3>1. q.op \in {"none", "load", "create", "update", "delete", "reorder"}
      BY <1>1 DEF EditJobs
    <3> QED
      BY <1>1, <1>2, <2>1, <2>2, <3>1 DEF Relies, EditsTruth, Edited!Done
  <2>4. creating' \in Requests \cup {Edited!Nobody} /\ unsure' \in BOOLEAN
    BY <1>1, <2>1 DEF Edited!Done
  <2> QED
    BY <1>1, <1>2, <2>1, <2>2, <2>3, <2>4, RequestEnds
<1> QED
  BY <1>3, <1>4, <1>5

LEMMA CourseNext == ASSUME EditInv, [Edited!Next]_(Edited!vars) PROVE EditInv'
<1>1. CASE Edited!Cancel
  <2>1. Edited!Course \in Edited!Parents
    BY CurriculumAssumption DEF Edited!Course, Edited!Parents
  <2> QED
    BY <1>1, <2>1, PageSteps
<1>2. ASSUME NEW p \in Edited!Parents,
             Edited!OpenNew(p) \/ Edited!Move(p) \/ \E k \in 1..LastItem : Edited!Open(p, k)
      PROVE  EditInv'
  BY <1>2, PageSteps
<1>3. ASSUME NEW h \in Requests, Edited!Save(h) \/ Edited!Upload(h) \/ Edited!Refresh(h)
      PROVE  EditInv'
  BY <1>3, SaveKeeps, UploadKeeps, RefreshKeeps
<1>4. ASSUME NEW h \in Requests, NEW p \in Edited!Parents, NEW k \in 1..LastItem,
             Edited!Delete(h, p, k)
      PROVE  EditInv'
  BY <1>4, DeleteKeeps
<1>5. ASSUME NEW h \in Requests, NEW p \in Edited!Parents, NEW from \in 1..LastItem,
             NEW to \in 1..LastItem, Edited!Drag(h, p, from, to)
      PROVE  EditInv'
  BY <1>5, DragKeeps
<1>6. ASSUME NEW h \in Requests,
             Edited!ReadLast(h) \/ Edited!Create(h) \/ Edited!Update(h) \/ Edited!Erase(h)
      PROVE  EditInv'
  BY <1>6, ReadLastKeeps, CreateKeeps, UpdateKeeps, EraseKeeps
<1>7. ASSUME NEW h \in Requests, Edited!ReadOwned(h) \/ Edited!Reorder(h) \/ Edited!Look(h)
      PROVE  EditInv'
  BY <1>7, ReadOwnedKeeps, ReorderKeeps, LookKeeps
<1>8. ASSUME NEW h \in Requests, Edited!Told(h) \/ Edited!Show(h) \/ Edited!Fail(h)
      PROVE  EditInv'
  BY <1>8, AnswersKeep
<1>9. CASE UNCHANGED Edited!vars
  BY <1>9 DEF Edited!vars, EditInv, EditTypes, OneEdit, UnsureLoads, PageAgrees, Edited!AtRest,
              Edited!PlacesDiffer
<1> QED
  BY <1>1, <1>2, <1>3, <1>4, <1>5, <1>6, <1>7, <1>8, <1>9 DEF Edited!Next

\* What the invariant says of a module, or of the course: a module is an item.
LEMMA PageShowsSaved ==
  ASSUME EditInv
  PROVE  Edited!OrderIsSaved /\ Edited!TypeOK
<1> DEFINE n == Len(rows)
           R == [parent : Edited!Gone..LastItem, order : Nat]
<1>1. /\ n \in Nat /\ DOMAIN rows = 1..n /\ n <= LastItem
      /\ \A i \in 1..n : rows[i] \in R
  BY LenProperties, ElementOfSeq DEF EditInv, EditTypes
<1>2. ASSUME Edited!AtRest, ~unsure,
             NEW p \in {Edited!Course} \cup {i \in DOMAIN rows : rows[i].parent = Edited!Course}
      PROVE  /\ {displayed[p][k].id : k \in DOMAIN displayed[p]}
                   = {i \in DOMAIN rows : rows[i].parent = p}
             /\ \A k, l \in DOMAIN displayed[p] :
                   k < l => rows[displayed[p][k].id].order <= rows[displayed[p][l].id].order
  <2>1. p \in Edited!Parents
    BY <1>1, CurriculumAssumption DEF Edited!Parents, Edited!Course
  <2>2. Agrees(displayed, rows)
    BY <1>2 DEF EditInv, PageAgrees
  <2> QED
    BY <2>1, <2>2 DEF Agrees, ShowsAll, InOrder, Edited!Children
<1>3. Edited!OrderIsSaved
  BY <1>2 DEF Edited!OrderIsSaved, Edited!ShownIsSaved, EditInv
<1>4. ASSUME NEW p \in Edited!Parents, NEW k \in DOMAIN displayed[p]
      PROVE  displayed[p][k].id \in DOMAIN rows
  <2>1. displayed[p][k] \in [id : 1..n, order : Nat]
    BY ElementOfSeq, LenProperties DEF EditInv, EditTypes, Views
  <2> QED
    BY <1>1, <2>1
<1>5. DOMAIN displayed = Edited!Parents
  BY DEF EditInv, EditTypes, Views
<1>6. \A h \in Requests : requested[h].at \in {"idle", "read", "write", "answer"}
  BY DEF EditInv, EditTypes, EditJobs
<1>7. /\ edit.id \in 0..n /\ edit.parent \in Edited!Parents
      /\ creating \in Requests \cup {Edited!Nobody}
  BY DEF EditInv, EditTypes
<1> QED
  BY <1>1, <1>3, <1>4, <1>5, <1>6, <1>7 DEF Edited!TypeOK

\* At rest, and unless it was not told of something, the page shows the modules and
\* lessons that are saved, in their order, and no two lessons of a module have one
\* place, whatever was dragged, moved, created or deleted and whatever of it failed
\* (CourseContentManager.tsx, courseContent.service.ts).
THEOREM OrderStaysSaved == Edited!Spec => []OrderIsSaved
<1>1. Edited!Init => EditInv
  BY CourseInit
<1>2. EditInv /\ [Edited!Next]_(Edited!vars) => EditInv'
  BY CourseNext
<1>3. EditInv => OrderIsSaved
  BY PageShowsSaved DEF OrderIsSaved
<1> QED
  BY <1>1, <1>2, <1>3, PTL DEF Edited!Spec

-----------------------------------------------------------------------------
(* The mass send *)

USE DEF jobVars, history

-----------------------------------------------------------------------------
(* Types *)

\* There is a number of recipients.
LEMMA RecipientsCounted == Cardinality(Recipients) \in Nat
BY BroadcastAssumption, FS_CardinalityType

\* The types and the hand hold at first.
LEMMA TypeInvInit == Init => TypeInv
BY BroadcastAssumption DEF Init, TypeInv, TypeOK, RecipientInHand, Off, Loop, RunnerPoint,
     RecipientStatus, Holding,
       Lifecycle!JobStatus, Lifecycle!Live, Lifecycle!Ended

\* A step of a loop keeps the types.
LEMMA RunnerStepKeepsType ==
  ASSUME TypeInv, NEW p \in Processes, RunnerStep(p)
  PROVE  TypeInv'
<1> USE DEF TypeInv, TypeOK, RecipientInHand, Loop, Off, Goto, Return, RunnerPoint, Holding,
            RecipientStatus, Lifecycle!JobStatus, Lifecycle!Live, Lifecycle!Ended
<1>1. CASE Load(p)
  BY <1>1 DEF Load
<1>2. CASE ReadStatus(p)
  BY <1>2 DEF ReadStatus
<1>3. CASE Find(p)
  BY <1>3 DEF Find
<1>4. CASE Claim(p)
  BY <1>4 DEF Claim
<1>5. CASE CheckPhone(p)
  BY <1>5 DEF CheckPhone
<1>6. CASE EnsureCoupon(p)
  BY <1>6 DEF EnsureCoupon
<1>7. CASE Text(p)
  BY <1>7 DEF Text
<1>8. CASE Mark(p)
  BY <1>8 DEF Mark
<1>9. CASE Count(p)
  BY <1>9 DEF Count
<1>10. CASE Close(p)
  BY <1>10, RecipientsCounted DEF Close
<1>11. CASE RunnerFails(p)
  BY <1>11 DEF RunnerFails
<1> QED
  BY <1>1, <1>2, <1>3, <1>4, <1>5, <1>6, <1>7, <1>8, <1>9, <1>10, <1>11 DEF RunnerStep

\* Any step keeps the types.
LEMMA TypeInvNext == TypeInv /\ [Next]_vars => TypeInv'
<1> SUFFICES ASSUME TypeInv, [Next]_vars PROVE TypeInv'
  OBVIOUS
<1> USE DEF TypeInv, TypeOK, RecipientInHand, Loop, Off, Return, Launch, RunnerPoint, Holding,
            RecipientStatus, Control, Lifecycle!JobStatus, Lifecycle!Live, Lifecycle!Ended
<1>1. ASSUME NEW p \in Processes, NEW channels \in SUBSET {"whatsapp", "push"},
             CreateJob(p, channels)
      PROVE  TypeInv'
  BY <1>1 DEF CreateJob
<1>2. ASSUME NEW p \in Processes, CreateRecipients(p) PROVE TypeInv'
  BY <1>2 DEF CreateRecipients
<1>3. ASSUME NEW p \in Processes, Resume(p) PROVE TypeInv'
  BY <1>3 DEF Resume
<1>4. ASSUME NEW p \in Processes, Crash(p) PROVE TypeInv'
  BY <1>4, BroadcastAssumption DEF Crash
<1>5. ASSUME NEW p \in Processes, Boot(p) PROVE TypeInv'
  BY <1>5 DEF Boot
<1>6. CASE Pause
  BY <1>6 DEF Pause
<1>7. CASE Stop
  BY <1>7 DEF Stop
<1>8. ASSUME NEW p \in Processes, RunnerStep(p) PROVE TypeInv'
  BY <1>8, RunnerStepKeepsType
<1>9. CASE UNCHANGED vars
  BY <1>9 DEF vars
<1> QED
  BY <1>1, <1>2, <1>3, <1>4, <1>5, <1>6, <1>7, <1>8, <1>9 DEF Next

\* The tables hold what they can hold, for any number of everything.
THEOREM BroadcastTypes == Spec => []TypeOK
<1>1. TypeInv => TypeOK
  BY DEF TypeInv
<1> QED
  BY <1>1, TypeInvInit, TypeInvNext, PTL DEF Spec

-----------------------------------------------------------------------------
(* Who is texted *)

\* Nothing was sent at first.
LEMMA SendInvInit == Init => SendInv
<1> SUFFICES ASSUME Init PROVE SendInv
  OBVIOUS
<1>1. TypeInv
  BY TypeInvInit
<1> QED
  BY <1>1 DEF Init, SendInv, ClaimedIsSending, OneClaim, WaitingUntexted, HandUntexted, InsertedOnce,
              PushedAtEnd, MessagedOnce, Off, Loop, Claiming

\* What a loop does keeps who was sent what.
LEMMA RunnerStepKeepsSend ==
  ASSUME SendInv, NEW p \in Processes, RunnerStep(p)
  PROVE  SendInv'
<1>0. TypeInv'
  BY RunnerStepKeepsType DEF SendInv
<1>t. /\ runner \in [Processes -> [at : RunnerPoint, to : Recipients \cup {None}]]
      /\ recipient \in [Recipients -> RecipientStatus]
      /\ texted \in [Recipients -> Nat]
      /\ RecipientInHand
  BY DEF SendInv, TypeInv, TypeOK
<1> USE <1>t DEF SendInv, ClaimedIsSending, OneClaim, WaitingUntexted, HandUntexted, InsertedOnce,
        PushedAtEnd, MessagedOnce, RecipientInHand, Loop, Off, Goto, Return, Holding, Claiming
<1>1. CASE Load(p)
  BY <1>0, <1>1 DEF Load
<1>2. CASE ReadStatus(p)
  BY <1>0, <1>2 DEF ReadStatus
<1>3. CASE Find(p)
  BY <1>0, <1>3 DEF Find
<1>4. CASE Claim(p)
  BY <1>0, <1>4 DEF Claim
<1>5. CASE CheckPhone(p)
  BY <1>0, <1>5 DEF CheckPhone
<1>6. CASE EnsureCoupon(p)
  BY <1>0, <1>6 DEF EnsureCoupon
<1>7. CASE Text(p)
  BY <1>0, <1>7 DEF Text
<1>8. CASE Mark(p)
  BY <1>0, <1>8 DEF Mark
<1>9. CASE Count(p)
  BY <1>0, <1>9 DEF Count
<1>10. CASE Close(p)
  BY <1>0, <1>10 DEF Close
<1>11. CASE RunnerFails(p)
  BY <1>0, <1>11 DEF RunnerFails
<1> QED
  BY <1>1, <1>2, <1>3, <1>4, <1>5, <1>6, <1>7, <1>8, <1>9, <1>10, <1>11 DEF RunnerStep

\* Any step keeps who was sent what.
LEMMA SendInvNext == SendInv /\ [Next]_vars => SendInv'
<1> SUFFICES ASSUME SendInv, [Next]_vars PROVE SendInv'
  OBVIOUS
<1>0. TypeInv'
  BY TypeInvNext DEF SendInv
<1>t. /\ runner \in [Processes -> [at : RunnerPoint, to : Recipients \cup {None}]]
      /\ recipient \in [Recipients -> RecipientStatus]
      /\ texted \in [Recipients -> Nat]
      /\ RecipientInHand
  BY DEF SendInv, TypeInv, TypeOK
<1> USE <1>t DEF SendInv, ClaimedIsSending, OneClaim, WaitingUntexted, HandUntexted, InsertedOnce,
        PushedAtEnd, MessagedOnce, RecipientInHand, Loop, Off, Return, Launch, Control,
        Holding, Claiming
<1>1. ASSUME NEW p \in Processes, NEW channels \in SUBSET {"whatsapp", "push"},
             CreateJob(p, channels)
      PROVE  SendInv'
  BY <1>0, <1>1 DEF CreateJob
<1>2. ASSUME NEW p \in Processes, CreateRecipients(p) PROVE SendInv'
  <2>1. /\ \A r \in Recipients : recipient[r] = "absent" /\ texted[r] = 0
        /\ job # "none"
    BY <1>2, BroadcastAssumption DEF CreateRecipients
  <2>2. \A q \in Processes : runner[q].at \notin Claiming
    BY <2>1
  <2>3. \A q \in Processes : runner'[q].at \notin Claiming
    BY <1>2, <2>2 DEF CreateRecipients
  <2> QED
    BY <1>0, <1>2, <2>1, <2>3, BroadcastAssumption DEF CreateRecipients
<1>3. ASSUME NEW p \in Processes, Resume(p) PROVE SendInv'
  BY <1>0, <1>3 DEF Resume
<1>4. ASSUME NEW p \in Processes, Crash(p) PROVE SendInv'
  BY <1>0, <1>4, BroadcastAssumption DEF Crash
<1>5. ASSUME NEW p \in Processes, Boot(p) PROVE SendInv'
  BY <1>0, <1>5 DEF Boot
<1>6. CASE Pause
  BY <1>0, <1>6 DEF Pause
<1>7. CASE Stop
  BY <1>0, <1>7 DEF Stop
<1>8. ASSUME NEW p \in Processes, RunnerStep(p) PROVE SendInv'
  BY <1>8, RunnerStepKeepsSend
<1>9. CASE UNCHANGED vars
  BY <1>0, <1>9 DEF vars
<1> QED
  BY <1>1, <1>2, <1>3, <1>4, <1>5, <1>6, <1>7, <1>8, <1>9 DEF Next

\* Nobody is texted twice and the push goes out once, whatever number of
\* processes run the loop, die and take it up again (the claim; the close).
THEOREM BroadcastMessagedOnce == Spec => []MessagedOnce
<1>1. SendInv => MessagedOnce
  BY DEF SendInv
<1> QED
  BY <1>1, SendInvInit, SendInvNext, PTL DEF Spec

-----------------------------------------------------------------------------
(* What the panel sees *)

\* A step of a loop is one of the job's or leaves it alone.
LEMMA RunnerStepSeen ==
  ASSUME NEW p \in Processes, RunnerStep(p)
  PROVE  [Lifecycle!Next]_job
<1> USE DEF Lifecycle!Next, Lifecycle!Fail, Lifecycle!Finish, Lifecycle!Live
<1>1. CASE Close(p)
  BY <1>1 DEF Close
<1>2. CASE RunnerFails(p)
  BY <1>2 DEF RunnerFails
<1>3. CASE \/ Load(p) \/ ReadStatus(p) \/ Find(p) \/ Claim(p) \/ CheckPhone(p)
           \/ EnsureCoupon(p) \/ Text(p) \/ Mark(p) \/ Count(p)
  BY <1>3 DEF Load, ReadStatus, Find, Claim, CheckPhone, EnsureCoupon, Text, Mark, Count
<1> QED
  BY <1>1, <1>2, <1>3 DEF RunnerStep

\* Every step is one of the job's or leaves it alone.
LEMMA StepSeen == [Next]_vars => [Lifecycle!Next]_job
<1> SUFFICES ASSUME [Next]_vars PROVE [Lifecycle!Next]_job
  OBVIOUS
<1> USE DEF Control, Lifecycle!Next, Lifecycle!Launch, Lifecycle!Pause, Lifecycle!Resume,
            Lifecycle!Stop, Lifecycle!Live
<1>1. ASSUME NEW p \in Processes, NEW channels \in SUBSET {"whatsapp", "push"},
             CreateJob(p, channels)
      PROVE  [Lifecycle!Next]_job
  BY <1>1 DEF CreateJob
<1>2. ASSUME NEW p \in Processes, CreateRecipients(p) \/ Crash(p) \/ Boot(p)
      PROVE  [Lifecycle!Next]_job
  BY <1>2 DEF CreateRecipients, Crash, Boot
<1>3. ASSUME NEW p \in Processes, Resume(p) PROVE [Lifecycle!Next]_job
  BY <1>3 DEF Resume
<1>4. CASE Pause
  BY <1>4 DEF Pause
<1>5. CASE Stop
  BY <1>5 DEF Stop
<1>6. ASSUME NEW p \in Processes, RunnerStep(p) PROVE [Lifecycle!Next]_job
  BY <1>6, RunnerStepSeen
<1>7. CASE UNCHANGED vars
  BY <1>7 DEF vars
<1> QED
  BY <1>1, <1>2, <1>3, <1>4, <1>5, <1>6, <1>7 DEF Next

\* Seen from the panel the job is that of BroadcastJob: no loop that read an
\* older status and no resume brings an ended job back.
THEOREM BroadcastImplementsJob == Spec => ImplementsLifecycle
<1>1. Init => Lifecycle!Init
  BY DEF Init, Lifecycle!Init
<1>2. [Next]_vars => [Lifecycle!Next]_job
  BY StepSeen
<1> QED
  BY <1>1, <1>2, PTL DEF Spec, ImplementsLifecycle, Lifecycle!Spec

-----------------------------------------------------------------------------
(* Side by side *)

\* A step of the composite is of each part a step of its own, or none.
LEMMA PartsMove ==
  ASSUME [MCNext]_<<part, messageVars, accountVars>>
  PROVE  /\ [Next]_vars /\ [Delivery!Next]_(Delivery!vars) /\ [Panel!Next]_(Panel!vars)
         /\ [Group!Next]_(Group!vars) /\ [Asked!Next]_(Asked!vars)
         /\ [Signed!Next]_(Signed!vars) /\ [Reset!Next]_(Reset!vars)
         /\ [Tenant!Next]_(Tenant!vars) /\ [Edited!Next]_(Edited!vars)
<1>1. [Next]_vars
  BY DEF MCNext, messageVars, accountVars
<1>2. [Delivery!Next]_(Delivery!vars)
  BY DEF MCNext, messageVars, deliveryVars, Delivery!vars, Delivery!rows, Delivery!passwords,
         Delivery!history
<1>3. [Panel!Next]_(Panel!vars)
  BY DEF MCNext, messageVars, panelVars, Panel!vars, Panel!pageVars, Panel!keyVars,
         Panel!netVars
<1>4. [Group!Next]_(Group!vars)
  BY DEF MCNext, messageVars, groupVars, Group!vars
<1>5. [Asked!Next]_(Asked!vars)
  BY DEF MCNext, messageVars, surveyVars, Asked!vars, Asked!handlers, Asked!history
<1>6. [Signed!Next]_(Signed!vars)
  BY DEF MCNext, accountVars, sessionVars, Signed!vars, Signed!signedVars
<1>7. [Reset!Next]_(Reset!vars)
  BY DEF MCNext, accountVars, resetVars, Reset!vars
<1>8. [Tenant!Next]_(Tenant!vars)
  BY DEF MCNext, accountVars, tenantVars, Tenant!vars
<1>9. [Edited!Next]_(Edited!vars)
  BY DEF MCNext, accountVars, courseVars, Edited!vars
<1> QED
  BY <1>1, <1>2, <1>3, <1>4, <1>5, <1>6, <1>7, <1>8, <1>9

\* So that a behaviour of the composite is one of each part.
LEMMA PartsRun ==
  MCSpec => /\ Spec /\ Delivery!Spec /\ Panel!Spec /\ Group!Spec /\ Asked!Spec
            /\ Signed!Spec /\ Reset!Spec /\ Tenant!Spec /\ Edited!Spec
<1>1. MCInit => /\ Init /\ Delivery!Init /\ Panel!Init /\ Group!Init /\ Asked!Init
                /\ Signed!Init /\ Reset!Init /\ Tenant!Init /\ Edited!Init
  BY DEF MCInit
<1>2. [MCNext]_<<part, messageVars, accountVars>>
      => /\ [Next]_vars /\ [Delivery!Next]_(Delivery!vars) /\ [Panel!Next]_(Panel!vars)
         /\ [Group!Next]_(Group!vars) /\ [Asked!Next]_(Asked!vars)
         /\ [Signed!Next]_(Signed!vars) /\ [Reset!Next]_(Reset!vars)
         /\ [Tenant!Next]_(Tenant!vars) /\ [Edited!Next]_(Edited!vars)
  BY PartsMove
<1> QED
  BY <1>1, <1>2, PTL
     DEF MCSpec, Spec, Delivery!Spec, Panel!Spec, Group!Spec, Asked!Spec, Signed!Spec,
         Reset!Spec, Tenant!Spec, Edited!Spec

\* The composite that TLC checks is well typed and keeps all of its promises, for every
\* value of its constants: if one process sweeps the surveys, no grant is served during
\* another and, as MCServices has it (Prompt, Punctual), the next broadcast is sent with
\* no answer under way and no suggestion falls due while a no to the polls is handled.
THEOREM ServicesHold ==
  ASSUME OneSweeper, ~Overlapping
  PROVE  MCSpec => [](/\ MCTypeOK
                      /\ MessagedOnce /\ NobodyLockedOut /\ EndToldOnce /\ PostedOnce
                      /\ MannersKept /\ SessionsFollowAccount /\ CodesRunOut
                      /\ TenantFollowsAccount /\ OrderIsSaved)
<1>1. Spec => [](TypeOK /\ MessagedOnce)
  BY BroadcastTypes, BroadcastMessagedOnce, PTL
<1>2. Delivery!Spec => [](Delivery!TypeOK /\ NobodyLockedOut)
  <2>1. DeliveryInv => Delivery!TypeOK /\ NobodyLockedOut
    BY DEF DeliveryInv, DeliveryTypes
  <2>2. DeliveryInv /\ [Delivery!Next]_(Delivery!vars) => DeliveryInv'
    BY DeliveryNext
  <2> QED
    BY <2>1, <2>2, DeliveryInit, PTL DEF Delivery!Spec
<1>3. Panel!Spec => [](Panel!TypeOK /\ EndToldOnce)
  <2>1. PanelInv => Panel!TypeOK
    BY DEF PanelInv
  <2> QED
    BY <2>1, PanelInit, PanelStays, EndIsToldOnce, PTL DEF Panel!Spec
<1>4. Group!Spec => [](Group!TypeOK /\ PostedOnce)
  BY GroupTyped, GroupPostedOnce, PTL
<1>5. Asked!Spec => [](Asked!TypeOK /\ MannersKept)
  <2>1. SurveyInv /\ [Asked!Next]_(Asked!vars) => SurveyInv'
    BY SurveyNext
  <2>2. Asked!Spec => []MannersKept
    BY MannersAreKept
  <2> QED
    BY <2>1, <2>2, SurveyInit, SurveyTyped, PTL DEF Asked!Spec
<1>6. Signed!Spec => [](Signed!TypeOK /\ SessionsFollowAccount)
  <2>1. SessionInv => Signed!TypeOK
    BY DEF SessionInv
  <2> QED
    BY <2>1, SessionInit, SessionNext, SessionsFollow, PTL DEF Signed!Spec
<1>7. Reset!Spec => [](Reset!TypeOK /\ CodesRunOut)
  BY ResetInit, ResetNext, ResetTyped, CodesAndLinksRunOut, PTL DEF Reset!Spec
<1>8. Tenant!Spec => [](Tenant!TypeOK /\ TenantFollowsAccount)
  <2>1. TenantInv => Tenant!TypeOK
    BY DEF TenantInv, TenantTypes
  <2>2. TenantInv /\ [Tenant!Next]_(Tenant!vars) => TenantInv'
    BY TenantNext
  <2>3. Tenant!Spec => []TenantFollowsAccount
    BY TenantFollows
  <2> QED
    BY <2>1, <2>2, <2>3, TenantInit, PTL DEF Tenant!Spec
<1>9. Edited!Spec => [](Edited!TypeOK /\ OrderIsSaved)
  <2>1. EditInv => Edited!TypeOK /\ OrderIsSaved
    BY PageShowsSaved DEF OrderIsSaved
  <2>2. EditInv /\ [Edited!Next]_(Edited!vars) => EditInv'
    BY CourseNext
  <2> QED
    BY <2>1, <2>2, CourseInit, PTL DEF Edited!Spec
<1>10. /\ TypeOK /\ Delivery!TypeOK /\ Panel!TypeOK /\ Group!TypeOK /\ Asked!TypeOK
       /\ Signed!TypeOK /\ Reset!TypeOK /\ Tenant!TypeOK /\ Edited!TypeOK
       => MCTypeOK
  BY DEF MCTypeOK
<1> QED
  BY <1>1, <1>2, <1>3, <1>4, <1>5, <1>6, <1>7, <1>8, <1>9, <1>10, PartsRun, PTL
=============================================================================
