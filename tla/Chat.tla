-------------------------------- MODULE Chat --------------------------------
(***************************************************************************)
(* A member's page of the support chat (chat/page.tsx) and the server's    *)
(* side of it (chat.routes.ts). The page is fed by a stream that reads the *)
(* last messages again and again and pushes them when they look changed,   *)
(* by the same messages asked for while the stream is down, and by the     *)
(* answers to what the member does.                                        *)
(* A message is its number, in the order of createdAt. Reactions are those *)
(* of the administrators; the member's own are put on the page at once.    *)
(***************************************************************************)
EXTENDS Integers, FiniteSets, Sequences

CONSTANTS Emojis,
          Window,          \* messages a snapshot holds: 50
          LastMessage,     \* bound on the messages
          MaxAsked,        \* bound on the snapshots asked for at once
          MaxPushed        \* bound on the snapshots on their way in the stream

VARIABLES
    sent,           \* messages created so far
    existing,       \* those not deleted
    reactions,      \* reactions to each
    stream,         \* the stream is connected
    signature,      \* lastSig of the stream
    pushed,         \* snapshots on their way in the stream, oldest first
    asked,          \* snapshots on their way as answers to a GET
    posting,        \* the member's message: "no", "asked", or "told" and its number
    view,           \* messages on the page; one may be there twice
    told            \* the member's own messages that were put on the page (history)

server == <<sent, existing, reactions>>
transport == <<stream, signature, pushed, asked>>
vars == <<server, transport, posting, view, told>>

Numbers == 1..LastMessage
NotPosting == [at |-> "no", number |-> 0]
Shown(m, copy) == [id |-> m, reactions |-> reactions[m], copy |-> copy]

Init ==
    /\ sent = 0
    /\ existing = {}
    /\ reactions = [m \in Numbers |-> {}]
    /\ stream = FALSE
    /\ signature = {}
    /\ pushed = <<>>
    /\ asked = {}
    /\ posting = NotPosting
    /\ view = {}
    /\ told = {}

-----------------------------------------------------------------------------
(* The server *)

LastMessages == {m \in existing : Cardinality({k \in existing : k > m}) < Window}
Snapshot == {Shown(m, 1) : m \in LastMessages}

\* What the stream compares: of the reactions only their number.
SignatureOf(snapshot) == {<<shown.id, Cardinality(shown.reactions)>> : shown \in snapshot}

Create == sent < LastMessage /\ sent' = sent + 1 /\ existing' = existing \cup {sent + 1}

Answer ==
    /\ Create
    /\ UNCHANGED <<reactions, transport, posting, view, told>>

\* An administrator reacts, or takes a reaction back.
React(m) ==
    /\ m \in existing
    /\ \E emoji \in Emojis :
        reactions' = [reactions EXCEPT ![m] = IF emoji \in @ THEN @ \ {emoji} ELSE @ \cup {emoji}]
    /\ UNCHANGED <<sent, existing, transport, posting, view, told>>

DeleteElsewhere(m) ==
    /\ m \in existing
    /\ existing' = existing \ {m}
    /\ UNCHANGED <<sent, reactions, transport, posting, view, told>>

-----------------------------------------------------------------------------
(* Snapshots *)

Connect ==
    /\ ~stream
    /\ stream' = TRUE
    /\ signature' = SignatureOf(Snapshot)
    /\ pushed' = IF Snapshot = {} THEN <<>> ELSE <<Snapshot>>
    /\ UNCHANGED <<server, asked, posting, view, told>>

Tick ==
    /\ stream
    /\ SignatureOf(Snapshot) # signature
    /\ Len(pushed) < MaxPushed
    /\ signature' = SignatureOf(Snapshot)
    /\ pushed' = Append(pushed, Snapshot)
    /\ UNCHANGED <<server, stream, asked, posting, view, told>>

\* The page closes the stream, asks every four seconds instead, and connects again.
Disconnect ==
    /\ stream
    /\ stream' = FALSE
    /\ pushed' = <<>>
    /\ UNCHANGED <<server, signature, asked, posting, view, told>>

\* A snapshot is asked for when the page opens and while it has no stream; what
\* was asked may be answered when it has one.
Ask ==
    /\ ~stream
    /\ Cardinality(asked) < MaxAsked
    /\ asked' = asked \cup {Snapshot}
    /\ UNCHANGED <<server, stream, signature, pushed, posting, view, told>>

Ids(messages) == {shown.id : shown \in messages}
Oldest(snapshot) == CHOOSE m \in Ids(snapshot) : \A k \in Ids(snapshot) : m <= k

\* Mutant: the snapshot is the page.
Replace(snapshot) == snapshot

\* applySync: the snapshot, and what the page has that is not in it and not older.
Merge(snapshot) ==
    snapshot \cup {shown \in view : /\ shown.id \notin Ids(snapshot)
                                    /\ snapshot # {} => shown.id >= Oldest(snapshot)}

ReceivePushed ==
    /\ pushed # <<>>
    /\ view' = Merge(Head(pushed))
    /\ pushed' = Tail(pushed)
    /\ UNCHANGED <<server, stream, signature, asked, posting, told>>

ReceiveAsked ==
    /\ \E snapshot \in asked :
        \/ view' = Merge(snapshot) /\ asked' = asked \ {snapshot}
        \/ asked' = asked \ {snapshot} /\ UNCHANGED view
    /\ UNCHANGED <<server, stream, signature, pushed, posting, told>>

-----------------------------------------------------------------------------
(* The member *)

Post ==
    /\ posting = NotPosting
    /\ posting' = [NotPosting EXCEPT !.at = "asked"]
    /\ UNCHANGED <<server, transport, view, told>>

\* The server may refuse, out of its hours for one thing, or never be reached.
Refuse ==
    /\ posting.at = "asked"
    /\ posting' = NotPosting
    /\ UNCHANGED <<server, transport, view, told>>

Accept ==
    /\ posting.at = "asked"
    /\ Create
    /\ posting' = [at |-> "told", number |-> sent + 1]
    /\ UNCHANGED <<reactions, transport, view, told>>

\* The answer is put at the end of the page, on which a snapshot may have put it
\* before; it has no reactions yet.
Told ==
    /\ posting.at = "told"
    /\ LET m == posting.number
           copies == {shown \in view : shown.id = m}
       IN  view' = view \cup {[id |-> m, reactions |-> {}, copy |-> Cardinality(copies) + 1]}
    /\ told' = told \cup {posting.number}
    /\ posting' = NotPosting
    /\ UNCHANGED <<server, transport>>

\* The answer is lost: the page says so, and the message is there all the same.
NotTold ==
    /\ posting.at = "told"
    /\ posting' = NotPosting
    /\ UNCHANGED <<server, transport, view, told>>

\* The member deletes a message; the answer takes it off the page.
DeleteOwn(m) ==
    /\ m \in existing \cap Ids(view)
    /\ existing' = existing \ {m}
    /\ view' = {shown \in view : shown.id # m}
    /\ UNCHANGED <<sent, reactions, transport, posting, told>>

Next ==
    \/ Answer
    \/ \E m \in Numbers : React(m) \/ DeleteElsewhere(m) \/ DeleteOwn(m)
    \/ Connect \/ Tick \/ Disconnect \/ Ask
    \/ ReceivePushed \/ ReceiveAsked
    \/ Post \/ Refuse \/ Accept \/ Told \/ NotTold

Spec == Init /\ [][Next]_vars

-----------------------------------------------------------------------------
(* Properties *)

Shows == [id : Numbers, reactions : SUBSET Emojis, copy : 1..2]

\* The state is what the tables, the connections and the page can hold.
TypeOK ==
    /\ sent \in 0..LastMessage
    /\ existing \subseteq 1..sent
    /\ reactions \in [Numbers -> SUBSET Emojis]
    /\ stream \in BOOLEAN
    /\ signature \subseteq Numbers \X Nat
    /\ pushed \in Seq(SUBSET Shows)
    /\ asked \subseteq SUBSET Shows
    /\ posting \in [at : {"no", "asked", "told"}, number : 0..LastMessage]
    /\ view \subseteq Shows
    /\ told \subseteq 1..sent

\* A message the member saw go out stays on the page while it exists and fewer
\* than a window of messages were written after it, whatever snapshot, however
\* old, is put on the page meanwhile.
SentStaysVisible ==
    \A m \in told \cap existing : sent - m < Window => m \in Ids(view)

\* Nothing on its way and nothing to push: the page shows what the server has of
\* the last messages, and no other.
PageAgrees ==
    (stream /\ pushed = <<>> /\ asked = {} /\ posting = NotPosting
        /\ signature = SignatureOf(Snapshot)) => Ids(view) = LastMessages
=============================================================================
