--------------------------- MODULE SupportSession ---------------------------
(***************************************************************************)
(* The first message of a support session alerts the team and is answered  *)
(* by the program (notifyNewSupportSession, chat.routes.ts). There is no   *)
(* row for a session: it is what the member's messages of the last hours   *)
(* say. The work is done after the message was answered for, so that the   *)
(* member can write again before it.                                       *)
(***************************************************************************)
EXTENDS Integers, FiniteSets

CONSTANTS Messages,        \* messages of one member
          LastSession      \* bound: how often the member falls silent

VARIABLES
    session,        \* counts the silences of more than rearmHours
    written,        \* the session in which each message was written, or Never
    deleted,        \* messages the member deleted again
    unnotified,     \* messages whose notification is still to run
    alerting,       \* messages that were found to open a session, to be told
    alerts          \* alerts sent for each session (history)

vars == <<session, written, deleted, unnotified, alerting, alerts>>

Never == 0
Sessions == 1..LastSession

Init ==
    /\ session = 1
    /\ written = [m \in Messages |-> Never]
    /\ deleted = {}
    /\ unnotified = {}
    /\ alerting = {}
    /\ alerts = [s \in Sessions |-> 0]

Write(m) ==
    /\ written[m] = Never
    /\ written' = [written EXCEPT ![m] = session]
    /\ unnotified' = unnotified \cup {m}
    /\ UNCHANGED <<session, deleted, alerting, alerts>>

Delete(m) ==
    /\ written[m] # Never
    /\ deleted' = deleted \cup {m}
    /\ UNCHANGED <<session, written, unnotified, alerting, alerts>>

\* Mutant: a session is open once its alert was sent.
AlertedOthers(m) == {k \in Messages \ {m} : written[k] = session /\ alerts[session] > 0}

\* The member's other messages of these hours, the later ones too.
Others(m) == {k \in Messages \ (deleted \cup {m}) : written[k] = session}

\* The member was silent until this message if there is no other. The hours do not
\* pass between the message and this look.
Notify(m) ==
    /\ m \in unnotified
    /\ unnotified' = unnotified \ {m}
    /\ alerting' = IF Others(m) = {} THEN alerting \cup {m} ELSE alerting
    /\ UNCHANGED <<session, written, deleted, alerts>>

\* The alert to the team, or its failure, which stops nothing; and the answer.
Alert(m) ==
    /\ m \in alerting
    /\ alerting' = alerting \ {m}
    /\ alerts' = [alerts EXCEPT ![written[m]] = @ + 1]
    /\ UNCHANGED <<session, written, deleted, unnotified>>

FallSilent ==
    /\ session < LastSession
    /\ unnotified = {} /\ alerting = {}
    /\ session' = session + 1
    /\ UNCHANGED <<written, deleted, unnotified, alerting, alerts>>

Next ==
    \/ \E m \in Messages : Write(m) \/ Delete(m) \/ Notify(m) \/ Alert(m)
    \/ FallSilent

Spec == Init /\ [][Next]_vars

-----------------------------------------------------------------------------
(* Properties *)

\* The state is what the table and the notifications can hold.
TypeOK ==
    /\ session \in Sessions
    /\ written \in [Messages -> 0..LastSession]
    /\ deleted \subseteq Messages
    /\ unnotified \subseteq Messages
    /\ alerting \subseteq Messages
    /\ alerts \in [Sessions -> Nat]

WrittenIn(s) == {m \in Messages : written[m] = s}

\* The team is alerted once in a session, and once more for every message of it
\* that was deleted, however fast the messages follow each other.
AlertedOnce == \A s \in Sessions : alerts[s] <= 1 + Cardinality(WrittenIn(s) \cap deleted)

\* The team is alerted of every session (chat.routes.ts, line 474).
EverySessionAlerted ==
    \A s \in Sessions :
        WrittenIn(s) # {} /\ WrittenIn(s) \cap (unnotified \cup alerting) = {}
            => alerts[s] > 0 \/ WrittenIn(s) \cap deleted # {}
=============================================================================
