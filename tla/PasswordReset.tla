--------------------------- MODULE PasswordReset ---------------------------
(***************************************************************************)
(* The codes and links by which one account sets a new password            *)
(* (otp.service.ts; the forgot-password and password routes of             *)
(* auth.routes.ts), query by query. Codes are of one purpose: the other    *)
(* one has rows of its own, handled by the same two functions.             *)
(***************************************************************************)
EXTENDS Integers, Sequences, FiniteSets

CONSTANTS Handlers,        \* requests under way
          MaxAttempts,     \* MAX_ATTEMPTS
          Links,           \* links that can be e-mailed
          LastCode,        \* bound: codes requested
          MaxTyped         \* bound: wrong codes typed

VARIABLES
    codes,      \* the rows of otpCode, by time of creation
    links,      \* the rows of passwordResetToken
    job,        \* requests under way
    typed,      \* wrong codes typed so far
    spent,      \* codes and links that set a password, as often as they did (history)
    overtaken   \* codes that set a password after a newer one existed (history)

vars == <<codes, links, job, typed, spent, overtaken>>

NoCode == 0
Codes == 1..LastCode
Idle == [at |-> "idle", code |-> NoCode, row |-> NoCode, link |-> "none",
         gone |-> {}, newest |-> NoCode]

Init ==
    /\ codes = <<>>
    /\ links = [l \in Links |-> "none"]
    /\ job = [h \in Handlers |-> Idle]
    /\ typed = 0
    /\ spent = [t \in Codes \cup Links |-> 0]
    /\ overtaken = {}

\* The request begins. What was spent by then must stay so.
Begin(h, point, code, link) ==
    /\ job[h] = Idle
    /\ job' = [job EXCEPT ![h] =
                 [at |-> point, code |-> code, row |-> NoCode, link |-> link,
                  gone |-> {t \in Codes \cup Links : spent[t] > 0},
                  newest |-> Len(codes)]]

Goto(h, point) == job' = [job EXCEPT ![h].at = point]
Finish(h) == job' = [job EXCEPT ![h] = Idle]

-----------------------------------------------------------------------------
(* A code is requested *)

Request(h) ==
    /\ Begin(h, "drop", NoCode, "none")
    /\ UNCHANGED <<codes, links, typed, spent, overtaken>>

\* Earlier codes are marked as consumed.
Drop(h) ==
    /\ job[h].at = "drop"
    /\ codes' = [i \in DOMAIN codes |-> [codes[i] EXCEPT !.live = FALSE]]
    /\ Goto(h, "create")
    /\ UNCHANGED <<links, typed, spent, overtaken>>

\* The row is created, and the code is sent.
Create(h) ==
    /\ job[h].at = "create"
    /\ Len(codes) < LastCode
    /\ codes' = Append(codes, [live |-> TRUE, expired |-> FALSE, attempts |-> 0])
    /\ Finish(h)
    /\ UNCHANGED <<links, typed, spent, overtaken>>

Expire(c) ==
    /\ c \in DOMAIN codes
    /\ codes' = [codes EXCEPT ![c].expired = TRUE]
    /\ UNCHANGED <<links, job, typed, spent, overtaken>>

-----------------------------------------------------------------------------
(* A code is presented: verifyOtp, then the new password *)

\* A code that was sent, or a wrong one. The checks of the account, the number and
\* the current password only read what the others do not write.
Present(h, code) ==
    /\ code \in DOMAIN codes \/ (code = NoCode /\ typed < MaxTyped)
    /\ Begin(h, "find", code, "none")
    /\ typed' = IF code = NoCode THEN typed + 1 ELSE typed
    /\ UNCHANGED <<codes, links, spent, overtaken>>

NewestLive ==
    LET live == {c \in DOMAIN codes : codes[c].live}
    IN  IF live = {} THEN NoCode ELSE CHOOSE c \in live : \A d \in live : d <= c

\* The newest unconsumed code is found and compared with the one typed.
Find(h) ==
    /\ job[h].at = "find"
    /\ LET row == NewestLive
       IN  job' = [job EXCEPT ![h] =
             IF row = NoCode \/ codes[row].expired \/ codes[row].attempts >= MaxAttempts
             THEN Idle
             ELSE [@ EXCEPT !.at = IF job[h].code = row THEN "consume" ELSE "count",
                            !.row = row]]
    /\ UNCHANGED <<codes, links, typed, spent, overtaken>>

Count(h) ==
    /\ job[h].at = "count"
    /\ codes' = [codes EXCEPT ![job[h].row].attempts = @ + 1]
    /\ Finish(h)
    /\ UNCHANGED <<links, typed, spent, overtaken>>

\* Mutant: a code serves until it expires.
ConsumeNothing(h) ==
    /\ job[h].at = "consume"
    /\ Goto(h, "set")
    /\ UNCHANGED <<codes, links, typed, spent, overtaken>>

\* The update names the row only: what another request did to it is not looked at.
Consume(h) ==
    /\ job[h].at = "consume"
    /\ codes' = [codes EXCEPT ![job[h].row].live = FALSE]
    /\ Goto(h, "set")
    /\ UNCHANGED <<links, typed, spent, overtaken>>

\* The new password is hashed and written.
SetByCode(h) ==
    /\ job[h].at = "set"
    /\ spent' = [spent EXCEPT ![job[h].row] = @ + 1]
    /\ overtaken' = IF job[h].row < job[h].newest THEN overtaken \cup {job[h].row}
                    ELSE overtaken
    /\ Finish(h)
    /\ UNCHANGED <<codes, links, typed>>

-----------------------------------------------------------------------------
(* A link by e-mail *)

SendLink(l) ==
    /\ links[l] = "none"
    /\ links' = [links EXCEPT ![l] = "live"]
    /\ UNCHANGED <<codes, job, typed, spent, overtaken>>

ExpireLink(l) ==
    /\ links[l] = "live"
    /\ links' = [links EXCEPT ![l] = "expired"]
    /\ UNCHANGED <<codes, job, typed, spent, overtaken>>

\* The row is read and must be unused and in time; the password is hashed then.
Follow(h, l) ==
    /\ links[l] = "live"
    /\ Begin(h, "redeem", NoCode, l)
    /\ UNCHANGED <<codes, links, typed, spent, overtaken>>

\* One transaction: the password and the mark. It does not look at the row again.
Redeem(h) ==
    /\ job[h].at = "redeem"
    /\ links' = [links EXCEPT ![job[h].link] = "used"]
    /\ spent' = [spent EXCEPT ![job[h].link] = @ + 1]
    /\ Finish(h)
    /\ UNCHANGED <<codes, typed, overtaken>>

\* A query fails: 500, and nothing is undone.
Break(h) ==
    /\ job[h] # Idle
    /\ Finish(h)
    /\ UNCHANGED <<codes, links, typed, spent, overtaken>>

Next ==
    \/ \E h \in Handlers :
          \/ Request(h) \/ Drop(h) \/ Create(h)
          \/ \E c \in {NoCode} \cup Codes : Present(h, c)
          \/ Find(h) \/ Count(h) \/ Consume(h) \/ SetByCode(h)
          \/ \E l \in Links : Follow(h, l)
          \/ Redeem(h) \/ Break(h)
    \/ \E c \in Codes : Expire(c)
    \/ \E l \in Links : SendLink(l) \/ ExpireLink(l)

Spec == Init /\ [][Next]_vars

-----------------------------------------------------------------------------
(* Properties *)

\* The rows and the requests are what they can be.
TypeOK ==
    /\ Len(codes) <= LastCode
    /\ \A i \in DOMAIN codes :
          codes[i] \in [live : BOOLEAN, expired : BOOLEAN, attempts : Nat]
    /\ links \in [Links -> {"none", "live", "used", "expired"}]
    /\ \A h \in Handlers : job[h].row \in {NoCode} \cup DOMAIN codes
    /\ spent \in [Codes \cup Links -> Nat]

\* A code or link that has set a password sets none for a request that begins
\* later: neither repeats, nor failures half way, nor newer codes bring it back.
SpentIsSpent ==
    \A h \in Handlers :
        /\ job[h].at = "set" => job[h].row \notin job[h].gone
        /\ job[h].at = "redeem" => job[h].link \notin job[h].gone

\* Attempts at a code are limited (otp.service.ts, line 97), but for the requests that were
\* under way when the last one was counted.
AttemptsLimited ==
    \A i \in DOMAIN codes : codes[i].attempts < MaxAttempts + Cardinality(Handlers)

\* Codes and links run out, by use and by attempts.
CodesRunOut == SpentIsSpent /\ AttemptsLimited

\* "Codes are 6 digits, expire in 10 minutes, single-use" (otp.service.ts, line 8).
SingleUse == \A c \in Codes : spent[c] <= 1

\* "Invalidates any previous unconsumed code for the same pair first so only the
\* latest code is valid" (otp.service.ts, lines 30-31): no code sets a password for a
\* request that began when a newer code had been created.
OnlyLatest == overtaken = {}
=============================================================================
