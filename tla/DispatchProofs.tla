--------------------------- MODULE DispatchProofs ---------------------------
(***************************************************************************)
(* What holds of the dispatches for any number of them, of contacts, of    *)
(* processes and of faults. The recovery at boot takes a row for an orphan *)
(* when it is five minutes old, so that most of it needs pauses shorter    *)
(* than that (~LongDelay), and the cursor needs the modes that keep it.    *)
(***************************************************************************)
EXTENDS Dispatch, TLAPS

USE DEF history

\* A contact is in hand only when one is left.
ContactInHand ==
    \A n \in Nodes, d \in Dispatches :
        run[<<n, d>>].at \in {"send", "save", "pause"} => run[<<n, d>>].done < Contacts

TypeInv == TypeOK /\ ContactInHand

\* What Become leaves in the table of runs.
LEMMA BecomeRun ==
  ASSUME NEW n \in Nodes, NEW d \in Dispatches, NEW r \in Run,
         run \in [Nodes \X Dispatches -> Run], Become(n, d, r)
  PROVE  /\ run' \in [Nodes \X Dispatches -> Run]
         /\ run'[<<n, d>>] = r
         /\ \A m \in Nodes, e \in Dispatches :
               <<m, e>> # <<n, d>> => run'[<<m, e>>] = run[<<m, e>>]
BY DEF Become

\* A run that holds a contact only when one is left may take any place.
LEMMA BecomeHeld ==
  ASSUME TypeInv, NEW n \in Nodes, NEW d \in Dispatches, NEW s \in Run,
         s.at \in {"send", "save", "pause"} => s.done < Contacts,
         Become(n, d, s)
  PROVE  run' \in [Nodes \X Dispatches -> Run] /\ ContactInHand'
<1>1. /\ run' \in [Nodes \X Dispatches -> Run]
      /\ run'[<<n, d>>] = s
      /\ \A m \in Nodes, e \in Dispatches :
            <<m, e>> # <<n, d>> => run'[<<m, e>>] = run[<<m, e>>]
  BY BecomeRun DEF TypeInv, TypeOK
<1> SUFFICES ASSUME NEW m \in Nodes, NEW e \in Dispatches,
                    run'[<<m, e>>].at \in {"send", "save", "pause"}
             PROVE  run'[<<m, e>>].done < Contacts
  BY <1>1 DEF ContactInHand
<1>2. CASE <<m, e>> = <<n, d>>
  BY <1>1, <1>2
<1>3. CASE <<m, e>> # <<n, d>>
  BY <1>1, <1>3 DEF TypeInv, ContactInHand
<1> QED BY <1>2, <1>3

\* One more call of one contact.
LEMMA CallsStep ==
  ASSUME NEW f \in [1..Contacts -> Nat], NEW i \in 1..Contacts
  PROVE  [f EXCEPT ![i] = @ + 1] \in [1..Contacts -> Nat]
OBVIOUS

\* The counters stay counters and go up with every contact.
LEMMA TallyStep ==
  ASSUME NEW d \in Dispatches, NEW t \in Tally, NEW o \in Outcomes(d)
  PROVE  /\ Add(t, o) \in Tally
         /\ Counted(t) \in Nat /\ Counted(Add(t, o)) \in Nat
         /\ Counted(Add(t, o)) >= Counted(t) + 1
         /\ Counted(o) \in {1, 2}
<1>1. /\ o.sent \in Nat /\ o.failed \in Nat
      /\ o.sent + o.failed \in {1, 2}
  BY DEF Outcomes, Counted
<1>2. t.sent \in Nat /\ t.failed \in Nat
  BY DEF Tally
<1> QED BY <1>1, <1>2 DEF Tally, Counted, Add

\* The types and the hand hold at first.
LEMMA TypeInvInit == Init => TypeInv
BY DispatchAssumption
   DEF Init, TypeInv, TypeOK, ContactInHand, Status, Tally, Point, Run, Stopped

\* The step of a run: the record it leaves is a run's, and the rows keep
\* their types.
LEMMA RunStepKeepsType ==
  ASSUME TypeInv, NEW n \in Nodes, NEW d \in Dispatches, RunStep(n, d)
  PROVE  TypeInv'
<1> DEFINE r == run[<<n, d>>]
<1> DEFINE Held(s) == s \in Run /\ (s.at \in {"send", "save", "pause"} => s.done < Contacts)
<1>0. /\ Held(r)
      /\ Stopped \in Run /\ Held(Stopped)
      /\ Contacts \in Nat \ {0}
  BY DispatchAssumption DEF TypeInv, TypeOK, ContactInHand, Run, Stopped, Point, Tally
<1>1. ASSUME NEW s, Held(s), Become(n, d, s)
      PROVE  (run \in [Nodes \X Dispatches -> Run])' /\ ContactInHand'
  BY <1>1, BecomeHeld
<1>2. CASE Claim(n, d)
  <2>1. Held([r EXCEPT !.at = "setup"])
    BY <1>0 DEF Run, Point
  <2> QED BY <1>1, <1>2, <2>1
       DEF Claim, Claimable, Goto, Touch, TypeInv, TypeOK, Status, faults
<1>3. CASE Resume(n, d)
  <2>1. Held([at |-> "check", done |-> cursor[d], tally |-> tally[d]])
    BY DEF TypeInv, TypeOK, Run, Point
  <2> QED BY <1>1, <1>3, <2>1 DEF Resume, Persisted, TypeInv, TypeOK, row, faults
<1>4. CASE FailSetup(n, d)
  BY <1>0, <1>1, <1>4 DEF FailSetup, Touch, TypeInv, TypeOK, Status, faults
<1>5. CASE CheckCancelled(n, d)
  <2>1. CASE r.done < Contacts /\ status[d] = "cancelled"
    BY <1>0, <1>1, <1>5, <2>1 DEF CheckCancelled, Stops, Touch, TypeInv, TypeOK, Run, faults
  <2>2. CASE ~(r.done < Contacts /\ status[d] = "cancelled")
    <3>1. Held([r EXCEPT !.at = IF r.done < Contacts THEN "send" ELSE "finish"])
      BY <1>0 DEF Run, Point
    <3> QED BY <1>1, <1>5, <2>2, <3>1 DEF CheckCancelled, Stops, Goto, TypeInv, TypeOK, faults
  <2> QED BY <2>1, <2>2
<1>6. ASSUME NEW o \in Outcomes(d), Send(n, d, o) PROVE TypeInv'
  <2> DEFINE s == [at |-> "save", done |-> r.done, tally |-> Add(r.tally, o)]
  <2>1. r.at = "send" /\ r.done < Contacts /\ r.done \in 0..Contacts /\ r.tally \in Tally
    BY <1>0, <1>6 DEF Send, Run
  <2>2. Add(r.tally, o) \in Tally
    BY <2>1, TallyStep
  <2>3. Held(s) /\ Become(n, d, s)
    BY <1>6, <2>1, <2>2 DEF Run, Point, Send
  <2>4. r.done + 1 \in 1..Contacts
    BY <1>0, <2>1
  <2>5. (calls \in [Dispatches -> [1..Contacts -> Nat]])'
    <3>1. calls[d] \in [1..Contacts -> Nat]
      BY DEF TypeInv, TypeOK
    <3>2. [calls[d] EXCEPT ![r.done + 1] = @ + 1] \in [1..Contacts -> Nat]
      BY <2>4, <3>1, CallsStep
    <3>3. calls' = [calls EXCEPT ![d] = [calls[d] EXCEPT ![r.done + 1] = @ + 1]]
      BY <1>6 DEF Send, TypeInv, TypeOK
    <3> QED BY <3>2, <3>3 DEF TypeInv, TypeOK
  <2>6. (late \in [Dispatches -> Nat])'
    BY <1>6 DEF Send, TypeInv, TypeOK
  <2>7. errors' \in 0..MaxErrors /\ UNCHANGED <<crashes, saved, row, up, cancelling>>
    <3>1. Counted(o) \in {1, 2}
      BY <2>1, TallyStep
    <3>2. /\ errors' = errors + Counted(o) - 1 /\ errors' <= MaxErrors
          /\ UNCHANGED <<crashes, saved, row, up, cancelling>>
      BY <1>6 DEF Send
    <3>3. errors \in Nat /\ MaxErrors \in Nat
      BY DispatchAssumption DEF TypeInv, TypeOK
    <3> QED BY <3>1, <3>2, <3>3
  <2> HIDE DEF s
  <2> QED BY <1>1, <2>3, <2>5, <2>6, <2>7 DEF TypeInv, TypeOK, row
<1>7. CASE SaveProgress(n, d)
  <2> DEFINE s == [at |-> IF r.done + 1 < Contacts THEN "pause" ELSE "check",
                   done |-> r.done + 1, tally |-> r.tally]
  <2>1. r.done < Contacts /\ r.done \in 0..Contacts /\ r.tally \in Tally
    BY <1>0, <1>7 DEF SaveProgress, Passed, Run
  <2>2. Held(s)
    BY <1>0, <2>1 DEF Run, Point
  <2>3. Become(n, d, s)
    BY <1>7 DEF SaveProgress, Passed
  <2>4. (cursor \in [Dispatches -> 0..Contacts] /\ saved \in [Dispatches -> 0..Contacts]
          /\ tally \in [Dispatches -> Tally])'
    BY <1>0, <1>7, <2>1 DEF SaveProgress, Passed, TypeInv, TypeOK
  <2> HIDE DEF s
  <2> QED BY <1>1, <1>7, <2>2, <2>3, <2>4
       DEF SaveProgress, Passed, Touch, TypeInv, TypeOK, faults
<1>8. CASE Wake(n, d)
  <2>1. Held([r EXCEPT !.at = "check"])
    BY <1>0 DEF Run, Point
  <2> QED BY <1>1, <1>8, <2>1 DEF Wake, Goto, TypeInv, TypeOK, row, faults
<1>9. CASE Finish(n, d)
  BY <1>0, <1>1, <1>9 DEF Finish, Touch, TypeInv, TypeOK, Run, Status, faults
<1> QED BY <1>2, <1>3, <1>4, <1>5, <1>6, <1>7, <1>8, <1>9 DEF RunStep

\* Every step keeps the types and the hand.
LEMMA TypeInvStep == TypeInv /\ [Next]_vars => TypeInv'
<1> SUFFICES ASSUME TypeInv, [Next]_vars PROVE TypeInv'
  OBVIOUS
<1>0. Stopped \in Run /\ Stopped.at = "idle"
  BY DispatchAssumption DEF Run, Stopped, Point, Tally
<1>1. ASSUME NEW n \in Nodes, Crash(n) PROVE TypeInv'
  BY <1>0, <1>1, DispatchAssumption DEF Crash, row, TypeInv, TypeOK, ContactInHand
<1>2. ASSUME NEW n \in Nodes, Boot(n) PROVE TypeInv'
  BY <1>2 DEF Boot, Orphan, faults, TypeInv, TypeOK, ContactInHand, Status
<1>3. ASSUME NEW n \in Nodes, NEW d \in Dispatches, RunStep(n, d) PROVE TypeInv'
  BY <1>3, RunStepKeepsType
<1>4. ASSUME NEW n \in Nodes, NEW d \in Dispatches, Abort(n, d) PROVE TypeInv'
  <2>1. (run \in [Nodes \X Dispatches -> Run])' /\ ContactInHand'
    BY <1>0, <1>4, BecomeHeld DEF Abort
  <2> QED BY <1>4, <2>1, DispatchAssumption DEF Abort, row, TypeInv, TypeOK
<1>5. ASSUME NEW d \in Dispatches, RequestCancel(d) \/ Cancel(d) \/ Age(d) PROVE TypeInv'
  BY <1>5 DEF RequestCancel, Cancel, Age, Touch, row, faults, TypeInv, TypeOK,
              ContactInHand, Status
<1>6. CASE UNCHANGED vars
  BY <1>6 DEF vars, row, faults, TypeInv, TypeOK, ContactInHand
<1> QED BY <1>1, <1>2, <1>3, <1>4, <1>5, <1>6 DEF Next

\* The types of the rows, runs and counters hold for every number of
\* dispatches, contacts, processes and faults.
THEOREM DispatchTypes == Spec => []TypeOK
<1>1. TypeInv => TypeOK
  BY DEF TypeInv
<1> QED BY <1>1, TypeInvInit, TypeInvStep, PTL DEF Spec

-----------------------------------------------------------------------------
(* One sender *)

Active(n, d) == ~At(n, d, "idle")

\* The dispatch of a run looks alive: recently written, and claimed.
RunsLookAlive ==
    \A n \in Nodes, d \in Dispatches : Active(n, d) => d \in recent /\ status[d] # "pending"

SenderInv == TypeInv /\ RunsLookAlive /\ SingleSender

\* A run that goes on or stops touches no other run, and at most writes its
\* own row, which stays recent and is not made pending.
LEMMA RunStepIsLocal ==
  ASSUME TypeInv, NEW n \in Nodes, NEW d \in Dispatches,
         RunStep(n, d) \/ Abort(n, d), ~Claim(n, d)
  PROVE  /\ Active(n, d)
         /\ \A m \in Nodes, e \in Dispatches :
               <<m, e>> # <<n, d>> => run'[<<m, e>>] = run[<<m, e>>]
         /\ recent \subseteq recent'
         /\ \A e \in Dispatches : status'[e] = status[e] \/ status'[e] \in Final
<1> USE DEF Active, At, Final, TypeInv, TypeOK
<1>0. ASSUME NEW s, Become(n, d, s)
      PROVE  \A m \in Nodes, e \in Dispatches :
               <<m, e>> # <<n, d>> => run'[<<m, e>>] = run[<<m, e>>]
  BY <1>0 DEF Become
<1>1. CASE Resume(n, d) \/ Wake(n, d) \/ Abort(n, d)
  BY <1>0, <1>1 DEF Resume, Persisted, Wake, Abort, Goto, row
<1>2. CASE FailSetup(n, d) \/ Finish(n, d)
  BY <1>0, <1>2 DEF FailSetup, Finish, Touch
<1>3. CASE CheckCancelled(n, d)
  BY <1>0, <1>3 DEF CheckCancelled, Stops, Goto, Touch
<1>4. ASSUME NEW o \in Outcomes(d), Send(n, d, o)
      PROVE  /\ Active(n, d)
             /\ \A m \in Nodes, e \in Dispatches :
                   <<m, e>> # <<n, d>> => run'[<<m, e>>] = run[<<m, e>>]
             /\ UNCHANGED <<recent, status>>
  BY <1>0, <1>4 DEF Send, row
<1>5. CASE SaveProgress(n, d)
  BY <1>0, <1>5 DEF SaveProgress, Passed, Touch
<1> QED BY <1>1, <1>2, <1>3, <1>4, <1>5 DEF RunStep

\* With pauses under five minutes no step gives a dispatch a second sender.
LEMMA SenderInvStep ==
  ASSUME ~LongDelay, SenderInv, [Next]_vars
  PROVE  SenderInv'
<1>0. TypeInv'
  BY TypeInvStep DEF SenderInv
<1> SUFFICES RunsLookAlive' /\ SingleSender'
  BY <1>0 DEF SenderInv
<1> USE DEF SenderInv, RunsLookAlive, SingleSender, Active, At
<1>1. ASSUME NEW n \in Nodes, Crash(n) PROVE RunsLookAlive' /\ SingleSender'
  BY <1>1 DEF Crash, row, Stopped
<1>2. ASSUME NEW n \in Nodes, Boot(n) PROVE RunsLookAlive' /\ SingleSender'
  BY <1>2 DEF Boot, Orphan, TypeInv, TypeOK
<1>3. ASSUME NEW n \in Nodes, NEW d \in Dispatches, Claim(n, d)
      PROVE  RunsLookAlive' /\ SingleSender'
  <2>1. /\ \A m \in Nodes : run[<<m, d>>].at = "idle"
        /\ \A m \in Nodes, e \in Dispatches :
              <<m, e>> # <<n, d>> => run'[<<m, e>>] = run[<<m, e>>]
    BY <1>3 DEF Claim, Claimable, Goto, Become, TypeInv, TypeOK
  <2>2. /\ recent' = recent \cup {d}
        /\ status'[d] = "running"
        /\ \A e \in Dispatches : e # d => status'[e] = status[e]
    BY <1>3 DEF Claim, Claimable, Touch, TypeInv, TypeOK
  <2> QED BY <2>1, <2>2
<1>4. ASSUME NEW n \in Nodes, NEW d \in Dispatches,
             RunStep(n, d) \/ Abort(n, d), ~Claim(n, d)
      PROVE  RunsLookAlive' /\ SingleSender'
  <2>1. /\ Active(n, d)
        /\ \A m \in Nodes, e \in Dispatches :
              <<m, e>> # <<n, d>> => run'[<<m, e>>] = run[<<m, e>>]
        /\ recent \subseteq recent'
        /\ \A e \in Dispatches : status'[e] = status[e] \/ status'[e] \in Final
    BY <1>4, RunStepIsLocal
  <2>2. \A m \in Nodes, e \in Dispatches : ~At(m, e, "idle")' => ~At(m, e, "idle")
    BY <2>1
  <2> QED BY <2>1, <2>2 DEF Final
<1>5. ASSUME NEW d \in Dispatches, RequestCancel(d) \/ Cancel(d) \/ Age(d)
      PROVE  RunsLookAlive' /\ SingleSender'
  BY <1>5 DEF RequestCancel, Cancel, Age, Touch, row, TypeInv, TypeOK
<1>6. CASE UNCHANGED vars
  BY <1>6 DEF vars, row
<1> QED BY <1>1, <1>2, <1>3, <1>4, <1>5, <1>6 DEF Next

\* Nothing runs at first.
LEMMA SenderInvInit == Init => SenderInv
BY TypeInvInit DEF Init, SenderInv, RunsLookAlive, SingleSender, Active, At, Stopped

\* With pauses under five minutes a dispatch never has two senders, however
\* many replicas crash, boot and claim (the claim and the recovery at boot).
THEOREM OneSender == ASSUME ~LongDelay PROVE Spec => []SingleSender
<1>1. SenderInv /\ [Next]_vars => SenderInv'
  BY SenderInvStep
<1>2. SenderInv => SingleSender
  BY DEF SenderInv
<1> QED BY <1>1, <1>2, SenderInvInit, PTL DEF Spec

\* What is over is not taken up again: the claim takes only pending rows and
\* the recovery only running ones.
THEOREM OverStaysOver == Spec => OverIsOver
<1>1. ASSUME TypeInv, [Next]_vars, NEW d \in Dispatches, status[d] \in Final
      PROVE  status'[d] \in Final
  <2> USE <1>1 DEF Final, TypeInv, TypeOK
  <2>1. ASSUME NEW n \in Nodes, Crash(n) \/ Boot(n) PROVE status'[d] \in Final
    BY <2>1 DEF Crash, Boot, Orphan, row
  <2>2. ASSUME NEW n \in Nodes, NEW e \in Dispatches, RunStep(n, e) \/ Abort(n, e)
        PROVE  status'[d] \in Final
    <3>1. CASE Claim(n, e)
      BY <3>1 DEF Claim, Claimable
    <3>2. CASE ~Claim(n, e)
      BY <2>2, <3>2, RunStepIsLocal
    <3> QED BY <3>1, <3>2
  <2>3. ASSUME NEW e \in Dispatches, RequestCancel(e) \/ Cancel(e) \/ Age(e)
        PROVE  status'[d] \in Final
    BY <2>3 DEF RequestCancel, Cancel, Age, row
  <2>4. CASE UNCHANGED vars
    BY <2>4 DEF vars, row
  <2> QED BY <2>1, <2>2, <2>3, <2>4 DEF Next
<1>2. TypeInv /\ [Next]_vars =>
        [\A d \in Dispatches : status[d] \in Final => status'[d] \in Final]_vars
  BY <1>1
<1> QED BY <1>2, TypeInvInit, TypeInvStep, PTL DEF Spec, OverIsOver

-----------------------------------------------------------------------------
(* Progress: the cursor and the counters agree *)

\* The row: as many contacts are counted as the cursor has passed, and each
\* of them was made.
RowProgress ==
    \A d \in Dispatches :
        /\ saved[d] = cursor[d]
        /\ Counted(tally[d]) >= cursor[d]
        /\ \A i \in 1..cursor[d] : calls[d][i] > 0
        /\ status[d] = "completed" => cursor[d] = Contacts

\* The run: it stands where the cursor does, one contact further when it has
\* not saved the last one yet.
RunProgress ==
    \A n \in Nodes, d \in Dispatches :
        LET r == run[<<n, d>>]
        IN  /\ r.at \notin {"idle", "setup"} =>
                 /\ r.done = cursor[d]
                 /\ Counted(r.tally) >= r.done + (IF r.at = "save" THEN 1 ELSE 0)
            /\ r.at = "save" => calls[d][r.done + 1] > 0
            /\ r.at = "finish" => r.done = Contacts

ProgressInv == SenderInv /\ RowProgress /\ RunProgress

\* Nothing is sent or counted at first.
LEMMA ProgressInvInit == Init => ProgressInv
BY SenderInvInit, DispatchAssumption
   DEF Init, ProgressInv, RowProgress, RunProgress, Counted, Stopped

\* A step of a run keeps cursor, counters and calls together.
LEMMA RunStepKeepsProgress ==
  ASSUME SdrDispatches = {}, ProgressInv, SingleSender',
         NEW n \in Nodes, NEW d \in Dispatches, RunStep(n, d)
  PROVE  RowProgress' /\ RunProgress'
<1> DEFINE r == run[<<n, d>>]
<1> DEFINE After(s) ==
             /\ s.at \notin {"idle", "setup"} =>
                  /\ s.done = cursor'[d]
                  /\ Counted(s.tally) >= s.done + (IF s.at = "save" THEN 1 ELSE 0)
             /\ s.at = "save" => calls'[d][s.done + 1] > 0
             /\ s.at = "finish" => s.done = Contacts
<1> USE DEF ProgressInv, SenderInv, TypeInv
<1>0. /\ r \in Run /\ (r.at \in {"send", "save", "pause"} => r.done < Contacts)
      /\ r.at \in Point /\ r.done \in 0..Contacts /\ r.tally \in Tally
      /\ Contacts \in Nat \ {0}
      /\ cursor[d] \in 0..Contacts /\ tally[d] \in Tally
      /\ calls[d] \in [1..Contacts -> Nat]
  BY DispatchAssumption DEF TypeOK, ContactInHand, Run
<1>. Counted(r.tally) \in Nat /\ Counted(tally[d]) \in Nat
  BY <1>0 DEF Tally, Counted
<1>1. /\ r.at \notin {"idle", "setup"} =>
           /\ r.done = cursor[d]
           /\ Counted(r.tally) >= r.done + (IF r.at = "save" THEN 1 ELSE 0)
      /\ r.at = "save" => calls[d][r.done + 1] > 0
      /\ r.at = "finish" => r.done = Contacts
      /\ saved[d] = cursor[d] /\ Counted(tally[d]) >= cursor[d]
      /\ \A i \in 1..cursor[d] : calls[d][i] > 0
      /\ status[d] = "completed" => cursor[d] = Contacts
  BY DEF RunProgress, RowProgress
\* The other runs of the dispatch are idle, and other dispatches untouched.
<1>2. ASSUME NEW s, Become(n, d, s), s \in Run, After(s),
             \A e \in Dispatches : e # d => cursor'[e] = cursor[e] /\ calls'[e] = calls[e],
             s.at # "idle" \/ (cursor'[d] = cursor[d] /\ calls'[d] = calls[d])
      PROVE  RunProgress'
  <2>1. /\ run'[<<n, d>>] = s
        /\ \A m \in Nodes, e \in Dispatches :
              <<m, e>> # <<n, d>> => run'[<<m, e>>] = run[<<m, e>>]
    BY <1>2, BecomeRun DEF TypeOK
  <2> SUFFICES ASSUME NEW m \in Nodes, NEW e \in Dispatches
               PROVE  LET q == run'[<<m, e>>]
                      IN  /\ q.at \notin {"idle", "setup"} =>
                               /\ q.done = cursor'[e]
                               /\ Counted(q.tally) >= q.done + (IF q.at = "save" THEN 1 ELSE 0)
                          /\ q.at = "save" => calls'[e][q.done + 1] > 0
                          /\ q.at = "finish" => q.done = Contacts
    BY DEF RunProgress
  <2>2. CASE <<m, e>> = <<n, d>>
    BY <1>2, <2>1, <2>2
  <2>3. CASE e # d
    BY <1>2, <2>1, <2>3 DEF RunProgress
  <2>4. CASE e = d /\ m # n
    <3>1. CASE s.at = "idle"
      BY <1>2, <2>1, <2>4, <3>1 DEF RunProgress
    <3>2. CASE s.at # "idle"
      <4>1. run'[<<m, d>>].at = "idle"
        BY <2>1, <2>4, <3>2 DEF SingleSender, At
      <4> QED BY <2>4, <4>1
    <3> QED BY <3>1, <3>2
  <2> QED BY <2>2, <2>3, <2>4
<1>3. CASE Claim(n, d)
  <2> DEFINE s == [r EXCEPT !.at = "setup"]
  <2>1. s \in Run /\ s.at = "setup" /\ Become(n, d, s)
    BY <1>0, <1>3 DEF Claim, Claimable, Goto, Run, Point
  <2>2. RunProgress'
    BY <1>2, <1>3, <2>1 DEF Claim, Claimable
  <2>3. RowProgress'
    BY <1>3 DEF Claim, Claimable, RowProgress, TypeOK
  <2> QED BY <2>2, <2>3
<1>4. CASE Resume(n, d)
  <2> DEFINE s == [at |-> "check", done |-> cursor[d], tally |-> tally[d]]
  <2>1. s \in Run /\ Become(n, d, s)
    BY <1>0, <1>4 DEF Resume, Persisted, Run, Point
  <2>2. UNCHANGED <<status, cursor, tally, calls, saved>>
    BY <1>4 DEF Resume, Persisted, row
  <2>3. After(s)
    BY <1>0, <1>1, <2>2
  <2>4. RunProgress'
    BY <1>2, <2>1, <2>2, <2>3
  <2> QED BY <2>2, <2>4 DEF RowProgress
<1>5. CASE FailSetup(n, d)
  <2>1. Stopped \in Run /\ After(Stopped) /\ Become(n, d, Stopped)
    BY <1>0, <1>5 DEF FailSetup, Stopped, Run, Point, Tally
  <2>2. RunProgress'
    BY <1>2, <1>5, <2>1 DEF FailSetup
  <2> QED BY <1>5, <2>2 DEF FailSetup, RowProgress, TypeOK
<1>6. CASE CheckCancelled(n, d)
  <2>1. r.at = "check" /\ UNCHANGED <<status, cursor, calls, saved>>
    BY <1>6 DEF CheckCancelled, Stops
  <2>2. CASE r.done < Contacts /\ status[d] = "cancelled"
    <3>1. Stopped \in Run /\ After(Stopped) /\ Become(n, d, Stopped)
      BY <1>0, <1>6, <2>2 DEF CheckCancelled, Stops, Stopped, Run, Point, Tally
    <3>2. tally' = [tally EXCEPT ![d] = r.tally]
      BY <1>6, <2>2 DEF CheckCancelled, Stops
    <3>3. RunProgress'
      BY <1>2, <2>1, <3>1
    <3> QED BY <1>1, <2>1, <3>2, <3>3 DEF RowProgress, TypeOK
  <2>3. CASE ~(r.done < Contacts /\ status[d] = "cancelled")
    <3> DEFINE s == [r EXCEPT !.at = IF r.done < Contacts THEN "send" ELSE "finish"]
    <3>1. s \in Run /\ Become(n, d, s)
      BY <1>0, <1>6, <2>3 DEF CheckCancelled, Stops, Goto, Run, Point
    <3>2. s.done = r.done /\ s.tally = r.tally
          /\ s.at = IF r.done < Contacts THEN "send" ELSE "finish"
      BY <1>0 DEF Run
    <3>3. After(s)
      BY <1>0, <1>1, <2>1, <3>2
    <3>4. tally' = tally
      BY <1>6, <2>3 DEF CheckCancelled, Stops
    <3>5. RunProgress'
      BY <1>2, <2>1, <3>1, <3>3
    <3> QED BY <2>1, <3>4, <3>5 DEF RowProgress
  <2> QED BY <2>2, <2>3
<1>7. ASSUME NEW o \in Outcomes(d), Send(n, d, o)
      PROVE  RowProgress' /\ RunProgress'
  <2> DEFINE s == [at |-> "save", done |-> r.done, tally |-> Add(r.tally, o)]
  <2>1. /\ r.at = "send" /\ UNCHANGED <<status, cursor, tally, saved>>
        /\ Become(n, d, s)
        /\ calls' = [calls EXCEPT ![d][r.done + 1] = @ + 1]
    BY <1>7 DEF Send, row
  <2>2. Add(r.tally, o) \in Tally
        /\ Counted(Add(r.tally, o)) \in Nat
        /\ Counted(Add(r.tally, o)) >= Counted(r.tally) + 1
    BY <1>0, TallyStep
  <2>3. r.done + 1 \in 1..Contacts
    BY <1>0, <2>1
  <2>4. /\ \A e \in Dispatches : e # d => calls'[e] = calls[e]
        /\ calls'[d][r.done + 1] = calls[d][r.done + 1] + 1
        /\ \A i \in 1..Contacts : i # r.done + 1 => calls'[d][i] = calls[d][i]
    BY <2>1, <2>3 DEF TypeOK
  <2>5. calls[d][r.done + 1] \in Nat
    BY <1>0, <2>3
  <2>6. s \in Run /\ After(s)
    <3>1. s \in Run
      BY <1>0, <2>2 DEF Run, Point
    <3>2. s.at = "save" /\ s.done = r.done /\ Counted(s.tally) >= Counted(r.tally) + 1
      BY <2>2
    <3>3. r.done = cursor'[d] /\ Counted(r.tally) >= r.done
      BY <1>0, <1>1, <2>1
    <3>4. calls'[d][r.done + 1] > 0
      BY <2>4, <2>5
    <3>5. Counted(s.tally) >= s.done + 1
      BY <1>0, <2>2, <3>2, <3>3
    <3> HIDE DEF s
    <3> QED BY <3>1, <3>2, <3>3, <3>4, <3>5
  <2>7. RunProgress'
    BY <1>2, <2>1, <2>4, <2>6
  <2>8. RowProgress'
    <3> SUFFICES ASSUME NEW e \in Dispatches
                 PROVE  /\ saved'[e] = cursor'[e]
                        /\ Counted(tally'[e]) >= cursor'[e]
                        /\ \A i \in 1..cursor'[e] : calls'[e][i] > 0
                        /\ status'[e] = "completed" => cursor'[e] = Contacts
      BY DEF RowProgress
    <3>1. CASE e # d
      BY <2>1, <2>4, <3>1 DEF RowProgress
    <3>2. CASE e = d
      <4>1. \A i \in 1..cursor[d] : i # r.done + 1 /\ i \in 1..Contacts
        BY <1>0, <1>1, <2>1
      <4> QED BY <1>1, <2>1, <2>4, <3>2, <4>1
    <3> QED BY <3>1, <3>2
  <2> QED BY <2>7, <2>8
<1>8. CASE SaveProgress(n, d)
  <2> DEFINE s == [at |-> IF r.done + 1 < Contacts THEN "pause" ELSE "check",
                   done |-> r.done + 1, tally |-> r.tally]
  <2>1. /\ r.at = "save" /\ UNCHANGED <<status, calls>>
        /\ Become(n, d, s)
        /\ cursor' = [cursor EXCEPT ![d] = r.done + 1]
        /\ tally' = [tally EXCEPT ![d] = r.tally]
        /\ saved' = [saved EXCEPT ![d] = r.done + 1]
    BY <1>8 DEF SaveProgress, Passed
  <2>2. s \in Run
    BY <1>0, <2>1 DEF Run, Point
  <2>3. /\ cursor'[d] = r.done + 1 /\ saved'[d] = r.done + 1 /\ tally'[d] = r.tally
        /\ \A e \in Dispatches : e # d =>
              cursor'[e] = cursor[e] /\ saved'[e] = saved[e] /\ tally'[e] = tally[e]
    BY <2>1 DEF TypeOK
  <2>4. After(s)
    BY <1>0, <1>1, <2>1, <2>3
  <2>5. RunProgress'
    BY <1>2, <2>1, <2>2, <2>3, <2>4
  <2>6. RowProgress'
    <3> SUFFICES ASSUME NEW e \in Dispatches
                 PROVE  /\ saved'[e] = cursor'[e]
                        /\ Counted(tally'[e]) >= cursor'[e]
                        /\ \A i \in 1..cursor'[e] : calls'[e][i] > 0
                        /\ status'[e] = "completed" => cursor'[e] = Contacts
      BY DEF RowProgress
    <3>1. CASE e # d
      BY <2>1, <2>3, <3>1 DEF RowProgress
    <3>2. CASE e = d
      <4>1. r.done = cursor[d] /\ r.done < Contacts /\ Counted(r.tally) >= r.done + 1
        BY <1>0, <1>1, <2>1
      <4>2. \A i \in 1..(r.done + 1) : i \in 1..cursor[d] \/ i = r.done + 1
        BY <1>0, <4>1
      <4> QED BY <1>0, <1>1, <2>1, <2>3, <3>2, <4>1, <4>2
    <3> QED BY <3>1, <3>2
  <2> QED BY <2>5, <2>6
<1>9. CASE Wake(n, d)
  <2> DEFINE s == [r EXCEPT !.at = "check"]
  <2>1. r.at = "pause" /\ UNCHANGED <<status, cursor, tally, calls, saved>> /\ Become(n, d, s)
    BY <1>9 DEF Wake, At, Goto, row
  <2>2. s \in Run /\ s.at = "check" /\ s.done = r.done /\ s.tally = r.tally
    BY <1>0 DEF Run, Point
  <2>3. After(s)
    BY <1>0, <1>1, <2>1, <2>2
  <2>4. RunProgress'
    BY <1>2, <2>1, <2>2, <2>3
  <2> QED BY <2>1, <2>4 DEF RowProgress
<1>10. CASE Finish(n, d)
  <2>1. r.at = "finish" /\ UNCHANGED <<cursor, calls, saved>> /\ Become(n, d, Stopped)
        /\ tally' = [tally EXCEPT ![d] = r.tally]
        /\ \A e \in Dispatches : e # d => status'[e] = status[e]
    BY <1>10 DEF Finish
  <2>2. Stopped \in Run /\ After(Stopped)
    BY <1>0 DEF Stopped, Run, Point, Tally
  <2>3. RunProgress'
    BY <1>2, <2>1, <2>2
  <2> QED BY <1>1, <2>1, <2>3 DEF RowProgress, TypeOK
<1> QED BY <1>3, <1>4, <1>5, <1>6, <1>7, <1>8, <1>9, <1>10 DEF RunStep

\* Every step keeps cursor, counters and calls together.
LEMMA ProgressInvStep ==
  ASSUME ~LongDelay, SdrDispatches = {}, ProgressInv, [Next]_vars
  PROVE  ProgressInv'
<1>0. SenderInv'
  BY SenderInvStep DEF ProgressInv
<1> SUFFICES RowProgress' /\ RunProgress'
  BY <1>0 DEF ProgressInv
<1> USE DEF ProgressInv, SenderInv, TypeInv
<1>1. ASSUME NEW n \in Nodes, Crash(n) PROVE RowProgress' /\ RunProgress'
  BY <1>1 DEF Crash, row, RowProgress, RunProgress, Stopped
<1>2. ASSUME NEW n \in Nodes, Boot(n) PROVE RowProgress' /\ RunProgress'
  BY <1>2 DEF Boot, Orphan, RowProgress, RunProgress
<1>3. ASSUME NEW n \in Nodes, NEW d \in Dispatches, RunStep(n, d)
      PROVE  RowProgress' /\ RunProgress'
  BY <1>0, <1>3, RunStepKeepsProgress
<1>4. ASSUME NEW n \in Nodes, NEW d \in Dispatches, Abort(n, d)
      PROVE  RowProgress' /\ RunProgress'
  BY <1>4 DEF Abort, Become, Stopped, row, RowProgress, RunProgress, TypeOK
<1>5. ASSUME NEW d \in Dispatches, RequestCancel(d) \/ Cancel(d) \/ Age(d)
      PROVE  RowProgress' /\ RunProgress'
  BY <1>5 DEF RequestCancel, Cancel, Age, row, RowProgress, RunProgress, TypeOK
<1>6. CASE UNCHANGED vars
  BY <1>6 DEF vars, row, RowProgress, RunProgress
<1> QED BY <1>1, <1>2, <1>3, <1>4, <1>5, <1>6 DEF Next

\* With pauses under five minutes and modes that keep the cursor, a completed
\* dispatch contacted everyone and its counters add up.
THEOREM CompletedWhole ==
  ASSUME ~LongDelay, SdrDispatches = {}
  PROVE  Spec => []CompletedIsWhole
<1>1. ProgressInv /\ [Next]_vars => ProgressInv'
  BY ProgressInvStep
<1>2. ProgressInv => CompletedIsWhole
  BY DispatchAssumption DEF ProgressInv, RowProgress, CompletedIsWhole
<1> QED BY <1>1, <1>2, ProgressInvInit, PTL DEF Spec

\* Under the same premises a contact counted in the persisted progress is
\* never contacted again, over any number of crashes and resumptions.
THEOREM CountedOnce ==
  ASSUME ~LongDelay, SdrDispatches = {}
  PROVE  Spec => NeverResent
<1>1. ASSUME ProgressInv, [Next]_vars, NEW d \in Dispatches, NEW i \in 1..Contacts,
             i <= saved[d]
      PROVE  calls'[d][i] = calls[d][i]
  <2> USE <1>1 DEF ProgressInv, SenderInv, TypeInv
  <2>1. ASSUME NEW n \in Nodes, NEW e \in Dispatches, NEW o \in Outcomes(e), Send(n, e, o)
        PROVE  calls'[d][i] = calls[d][i]
    <3> DEFINE r == run[<<n, e>>]
    <3>1. /\ r.at = "send" /\ calls' = [calls EXCEPT ![e][r.done + 1] = @ + 1]
      BY <2>1 DEF Send
    <3>2. r.done = cursor[e] /\ saved[e] = cursor[e]
      BY <3>1 DEF RunProgress, RowProgress
    <3>3. e # d \/ i # r.done + 1
      <4>1. cursor[e] \in Nat /\ i \in Nat
        BY DispatchAssumption DEF TypeOK
      <4>2. i <= saved[d]
        BY <1>1
      <4> HIDE DEF r
      <4> QED BY <3>2, <4>1, <4>2
    <3>4. calls[d] \in [1..Contacts -> Nat]
      BY DEF TypeOK
    <3>5. r.done + 1 \in 1..Contacts
      <4>1. r \in Run /\ r.done < Contacts
        BY <3>1 DEF ContactInHand, TypeOK
      <4> QED BY <4>1, DispatchAssumption DEF Run
    <3>6. CASE e # d
      BY <3>1, <3>6 DEF TypeOK
    <3>7. CASE e = d
      <4>1. calls'[d] = [calls[d] EXCEPT ![r.done + 1] = @ + 1]
        BY <3>1, <3>7 DEF TypeOK
      <4> QED BY <3>3, <3>4, <3>5, <3>7, <4>1
    <3> QED BY <3>6, <3>7
  <2>2. ASSUME NEW n \in Nodes, NEW e \in Dispatches, RunStep(n, e) \/ Abort(n, e),
               ~\E o \in Outcomes(e) : Send(n, e, o)
        PROVE  calls' = calls
    BY <2>2 DEF RunStep, Abort, Claim, Resume, FailSetup, CheckCancelled, SaveProgress,
                Wake, Finish
  <2>3. ASSUME NEW n \in Nodes, Crash(n) \/ Boot(n) PROVE calls' = calls
    BY <2>3 DEF Crash, Boot, Orphan
  <2>4. ASSUME NEW e \in Dispatches, RequestCancel(e) \/ Cancel(e) \/ Age(e)
        PROVE  calls' = calls
    BY <2>4 DEF RequestCancel, Cancel, Age
  <2>5. CASE UNCHANGED vars
    BY <2>5 DEF vars
  <2> QED BY <2>1, <2>2, <2>3, <2>4, <2>5 DEF Next
<1>2. ProgressInv /\ [Next]_vars =>
        [\A d \in Dispatches : \A i \in 1..Contacts :
            i <= saved[d] => calls'[d][i] = calls[d][i]]_vars
  BY <1>1
<1>3. ProgressInv /\ [Next]_vars => ProgressInv'
  BY ProgressInvStep
<1> QED BY <1>2, <1>3, ProgressInvInit, PTL DEF Spec, NeverResent

-----------------------------------------------------------------------------
(* Cancellation *)

\* Once a contact was made of a cancelled dispatch, its run is past that
\* contact and has the cancelled status before it.
LateInv ==
    \A d \in Dispatches :
        \/ late[d] = 0
        \/ /\ late[d] = 1
           /\ status[d] \in Final
           /\ \A n \in Nodes : \/ At(n, d, "idle") \/ At(n, d, "finish")
                              \/ /\ run[<<n, d>>].at \in {"save", "pause", "check"}
                                 /\ status[d] = "cancelled"

\* A step of a run keeps the late contacts of its dispatch at most one.
LEMMA RunStepKeepsLate ==
  ASSUME SenderInv, LateInv, SenderInv', NEW n \in Nodes, NEW d \in Dispatches,
         RunStep(n, d) \/ Abort(n, d)
  PROVE  LateInv'
<1> DEFINE r == run[<<n, d>>]
<1> USE DEF SenderInv, TypeInv
<1>0. /\ r.at \in Point
      /\ late \in [Dispatches -> Nat] /\ status \in [Dispatches -> Status]
      /\ run \in [Nodes \X Dispatches -> Run]
  BY DEF TypeOK, Run
<1>1. ASSUME NEW s, Become(n, d, s),
             \A e \in Dispatches : e # d => status'[e] = status[e] /\ late'[e] = late[e],
             \/ late'[d] = 0
             \/ /\ late'[d] = 1 /\ status'[d] \in Final
                /\ \/ s.at \in {"idle", "finish"}
                   \/ s.at \in {"save", "pause", "check"} /\ status'[d] = "cancelled",
             \A m \in Nodes : m # n => run[<<m, d>>].at = "idle"
      PROVE  LateInv'
  <2>1. /\ run'[<<n, d>>] = s
        /\ \A m \in Nodes, e \in Dispatches :
              <<m, e>> # <<n, d>> => run'[<<m, e>>] = run[<<m, e>>]
    BY <1>0, <1>1 DEF Become
  <2> SUFFICES ASSUME NEW e \in Dispatches
               PROVE  \/ late'[e] = 0
                      \/ /\ late'[e] = 1
                         /\ status'[e] \in Final
                         /\ \A m \in Nodes :
                               \/ run'[<<m, e>>].at \in {"idle", "finish"}
                               \/ /\ run'[<<m, e>>].at \in {"save", "pause", "check"}
                                  /\ status'[e] = "cancelled"
    BY DEF LateInv, At
  <2>2. CASE e # d
    BY <1>1, <2>1, <2>2 DEF LateInv, At
  <2>3. CASE e = d
    <3>1. \A m \in Nodes : m # n => run'[<<m, d>>].at = "idle"
      BY <1>1, <2>1
    <3> QED BY <1>1, <2>1, <2>3, <3>1
  <2> QED BY <2>2, <2>3
<1>2. CASE ~At(n, d, "idle")
  <2>0. \A m \in Nodes : m # n => run[<<m, d>>].at = "idle"
    BY <1>2 DEF SingleSender, At
  <2>1. \/ late[d] = 0
        \/ /\ late[d] = 1 /\ status[d] \in Final
           /\ \/ r.at = "finish"
              \/ r.at \in {"save", "pause", "check"} /\ status[d] = "cancelled"
    BY <1>2 DEF LateInv, At
  <2>2. CASE Resume(n, d) \/ Wake(n, d)
    BY <1>0, <1>1, <2>0, <2>1, <2>2 DEF Resume, Persisted, Wake, At, Goto, row, Run
  <2>3. CASE FailSetup(n, d) \/ Finish(n, d)
    BY <1>0, <1>1, <2>0, <2>1, <2>3 DEF FailSetup, Finish, At, Stopped, Final
  <2>4. CASE CheckCancelled(n, d)
    <3>1. CASE r.done < Contacts /\ status[d] = "cancelled"
      BY <1>1, <2>0, <2>1, <2>4, <3>1 DEF CheckCancelled, Stops, Stopped
    <3>2. CASE ~(r.done < Contacts /\ status[d] = "cancelled")
      <4> DEFINE s == [r EXCEPT !.at = IF r.done < Contacts THEN "send" ELSE "finish"]
      <4>1. Become(n, d, s) /\ UNCHANGED <<status, late>>
        BY <2>4, <3>2 DEF CheckCancelled, Stops, Goto
      <4>2. late[d] = 1 => s.at = "finish"
        BY <1>0, <2>1, <2>4, <3>2 DEF CheckCancelled, Stops, Run
      <4> QED BY <1>1, <2>0, <2>1, <4>1, <4>2
    <3> QED BY <3>1, <3>2
  <2>5. ASSUME NEW o \in Outcomes(d), Send(n, d, o) PROVE LateInv'
    <3> DEFINE s == [at |-> "save", done |-> r.done,
                     tally |-> Add(r.tally, o)]
    <3>1. r.at = "send" /\ Become(n, d, s) /\ s.at = "save" /\ UNCHANGED status
          /\ late' = IF status[d] = "cancelled" THEN [late EXCEPT ![d] = @ + 1] ELSE late
      BY <2>5 DEF Send, row
    <3>2. late[d] = 0
      BY <2>1, <3>1
    <3>3. \/ late'[d] = 0
          \/ late'[d] = 1 /\ status'[d] = "cancelled"
      BY <1>0, <3>1, <3>2
    <3>4. \A e \in Dispatches : e # d => status'[e] = status[e] /\ late'[e] = late[e]
      BY <1>0, <3>1
    <3> HIDE DEF s
    <3> QED BY <1>1, <2>0, <3>1, <3>3, <3>4 DEF Final
  <2>6. CASE SaveProgress(n, d)
    BY <1>1, <2>0, <2>1, <2>6 DEF SaveProgress, Passed
  <2>7. CASE Abort(n, d)
    BY <1>1, <2>0, <2>1, <2>7 DEF Abort, Stopped, row
  <2>8. CASE Claim(n, d)
    BY <1>2, <2>8 DEF Claim, Claimable
  <2> QED BY <2>2, <2>3, <2>4, <2>5, <2>6, <2>7, <2>8 DEF RunStep
<1>3. CASE At(n, d, "idle")
  <2>1. Claim(n, d)
    BY <1>3 DEF RunStep, Abort, Resume, FailSetup, CheckCancelled, Send, SaveProgress, Wake,
                Finish, At
  <2>2. late[d] = 0
    BY <2>1 DEF Claim, Claimable, LateInv, Final
  <2>3. \A m \in Nodes : run[<<m, d>>].at = "idle"
    BY <2>1 DEF Claim, Claimable, RunsLookAlive, Active, At
  <2> QED BY <1>0, <1>1, <2>1, <2>2, <2>3 DEF Claim, Claimable, Goto
<1> QED BY <1>2, <1>3

\* Every step keeps the late contacts of every dispatch at most one.
LEMMA LateInvStep ==
  ASSUME ~LongDelay, SenderInv, LateInv, [Next]_vars
  PROVE  LateInv'
<1>0. SenderInv'
  BY SenderInvStep
<1>1. ASSUME NEW n \in Nodes, Crash(n) \/ Boot(n) PROVE LateInv'
  <2>1. CASE Crash(n)
    <3>1. /\ UNCHANGED <<status, late>>
          /\ \A m \in Nodes, d \in Dispatches :
                run'[<<m, d>>] = run[<<m, d>>] \/ run'[<<m, d>>].at = "idle"
      BY <2>1 DEF Crash, row, Stopped
    <3> QED BY <3>1 DEF LateInv, At
  <2>2. CASE Boot(n)
    <3>1. /\ UNCHANGED <<run, late>>
          /\ \A d \in Dispatches : status[d] \in Final => status'[d] = status[d]
      BY <2>2 DEF Boot, Orphan, Final
    <3> QED BY <3>1 DEF LateInv, At
  <2> QED BY <1>1, <2>1, <2>2
<1>2. ASSUME NEW n \in Nodes, NEW d \in Dispatches, RunStep(n, d) \/ Abort(n, d)
      PROVE  LateInv'
  BY <1>0, <1>2, RunStepKeepsLate
<1>3. ASSUME NEW d \in Dispatches, RequestCancel(d) \/ Cancel(d) \/ Age(d) PROVE LateInv'
  BY <1>3 DEF RequestCancel, Cancel, Age, row, LateInv, At, Final, SenderInv, TypeInv, TypeOK
<1>4. CASE UNCHANGED vars
  BY <1>4 DEF vars, row, LateInv, At
<1> QED BY <1>1, <1>2, <1>3, <1>4 DEF Next

\* With pauses under five minutes a cancelled dispatch makes at most the one
\* contact it had in hand (the check between two contacts).
THEOREM CancelledStops == ASSUME ~LongDelay PROVE Spec => []CancelStops
<1> DEFINE Inv == SenderInv /\ LateInv
<1>1. Init => Inv
  BY SenderInvInit DEF Init, LateInv
<1>2. Inv /\ [Next]_vars => Inv'
  BY SenderInvStep, LateInvStep
<1>3. Inv => CancelStops
  BY DEF LateInv, CancelStops
<1> QED BY <1>1, <1>2, <1>3, PTL DEF Spec
=============================================================================
