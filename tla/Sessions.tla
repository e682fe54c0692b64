------------------------------ MODULE Sessions ------------------------------
(***************************************************************************)
(* The sessions of one account (auth.routes.ts, auth.middleware.ts). A     *)
(* session token carries the version of the account at its issue and is    *)
(* refused when the version has moved on. Every process keeps the account  *)
(* for some seconds, and whoever signs in is looked at before some awaits. *)
(* Who holds a session can have a new one made of it, for another origin:  *)
(* by a link to the app, or by a code for the members' area.               *)
(***************************************************************************)
EXTENDS Integers, FiniteSets

CONSTANTS Processes,       \* replicas of the backend
          Handlers,        \* requests under way
          Ttl,             \* USER_CACHE_TTL_MS, in ticks
          LastPassword,    \* bound: passwords set
          MaxIssued,       \* bound: sessions, and links and codes together
          LastTime         \* bound: ticks

VARIABLES
    now,
    password,     \* the current password: they are numbered
    account,      \* isActive and tokenVersion of the row
    served,       \* passwords that were current under this version (history)
    changedAt,    \* time of the last change of the account (history)
    rotatedAt,    \* time of the last change of its version (history)
    cache,        \* userCache of every process
    job,          \* requests under way
    tokens,       \* sessions issued, with what they go back to (history)
    mail,         \* the links for signing in that were made, likewise
    codes         \* the codes for the members' area: the session they were asked with,
                  \* and when it was accepted (history)

signedVars == <<cache, job, tokens, mail, codes>>
vars == <<now, password, account, served, changedAt, rotatedAt, signedVars>>

Passwords == 0..LastPassword
Accounts == [active : BOOLEAN, version : Passwords]
Times == 0..LastTime

\* What a session or link goes back to: the password it was opened with, and the
\* time at which its holder was last let through to a later version (0: never).
Credentials == [version : Passwords, password : Passwords, crossed : Times]
NoOne == [version |-> 0, password |-> 0, crossed |-> 0]
Codes == [holder : Credentials, asked : Times]

Empty == [account |-> [active |-> FALSE, version |-> 0], expires |-> 0]
Idle == [op |-> "idle", process |-> CHOOSE p \in Processes : TRUE, since |-> 0,
         read |-> Empty.account, holder |-> NoOne]

Init ==
    /\ now = 1
    /\ password = 0
    /\ account = [active |-> TRUE, version |-> 0]
    /\ served = {0}
    /\ changedAt = 0 /\ rotatedAt = 0
    /\ cache = [p \in Processes |-> Empty]
    /\ job = [h \in Handlers |-> Idle]
    /\ tokens = {}
    /\ mail = {} /\ codes = {}

Tick ==
    /\ now < LastTime
    /\ now' = now + 1
    /\ UNCHANGED <<password, account, served, changedAt, rotatedAt, signedVars>>

-----------------------------------------------------------------------------
(* The account changes *)

SetPassword ==
    /\ password < LastPassword
    /\ password' = password + 1
    /\ UNCHANGED <<now, signedVars>>

\* The member changes or resets the password, by code, link or /resgate: one update
\* writes it and raises the version, which ends all sessions.
ChangePassword ==
    /\ SetPassword
    /\ account' = [account EXCEPT !.version = @ + 1]
    /\ served' = {password'}
    /\ changedAt' = now /\ rotatedAt' = now

\* An administrator or the credential queue sets a new password and sends it: the
\* version stays.
ReplacePassword ==
    /\ SetPassword
    /\ served' = served \cup {password'}
    /\ UNCHANGED <<account, changedAt, rotatedAt>>

\* The account is blocked or let in again (see Membership).
Switch ==
    /\ account' = [account EXCEPT !.active = ~@]
    /\ changedAt' = now
    /\ UNCHANGED <<now, password, served, rotatedAt, signedVars>>

accountVars == <<now, password, account, served, changedAt, rotatedAt>>

-----------------------------------------------------------------------------
(* Signing in *)

\* The row was read and found right: after the look at the courses the token carries
\* the version that was read.
Admitted(h, holder) ==
    job' = [job EXCEPT ![h] = [Idle EXCEPT !.op = "sign", !.read = account, !.holder = holder]]

\* The password typed is compared with the one of the row that is read.
Login(h, typed) ==
    /\ job[h] = Idle
    /\ typed = password /\ account.active
    /\ Admitted(h, [version |-> account.version, password |-> typed, crossed |-> 0])
    /\ UNCHANGED <<accountVars, cache, tokens, mail, codes>>

\* The message with the credentials holds a link of the account's version.
SendLink ==
    /\ mail = {}
    /\ mail' = {[version |-> account.version, password |-> password, crossed |-> 0]}
    /\ UNCHANGED <<accountVars, cache, job, tokens, codes>>

\* The button of that message: the link must be of the version that is read.
AutoLogin(h, link) ==
    /\ job[h] = Idle
    /\ account.active /\ link.version = account.version
    /\ Admitted(h, link)
    /\ UNCHANGED <<accountVars, cache, tokens, mail, codes>>

Issue(h, version) ==
    /\ job[h].op = "sign" /\ Cardinality(tokens) < MaxIssued
    /\ tokens' = tokens \cup {[job[h].holder EXCEPT !.version = version]}
    /\ job' = [job EXCEPT ![h] = Idle]
    /\ UNCHANGED <<accountVars, cache, mail, codes>>

Sign(h) == Issue(h, job[h].read.version)

-----------------------------------------------------------------------------
(* authMiddleware *)

Fresh(p) == cache[p].expires > now

\* The request goes on to its route, accepted at a time with a session.
Passes(h, token, asked) ==
    job' = [job EXCEPT ![h] = [Idle EXCEPT !.op = "pass", !.holder = token, !.since = asked]]

\* What is kept of the account decides.
Accept(h, p, token) ==
    /\ job[h] = Idle
    /\ Fresh(p) /\ cache[p].account.active /\ cache[p].account.version = token.version
    /\ Passes(h, token, now)
    /\ UNCHANGED <<accountVars, cache, tokens, mail, codes>>

Enter(h, p) ==
    /\ job[h] = Idle
    /\ ~Fresh(p)
    /\ job' = [job EXCEPT ![h] = [@ EXCEPT !.op = "read", !.process = p, !.since = now]]
    /\ UNCHANGED <<accountVars, cache, tokens, mail, codes>>

ReadAccount(h) ==
    /\ job[h].op = "read"
    /\ job' = [job EXCEPT ![h] = [@ EXCEPT !.op = "fill", !.read = account]]
    /\ UNCHANGED <<accountVars, cache, tokens, mail, codes>>

\* What the account read is kept for, and whether the request goes on. An active
\* account is kept only when its token was of its version; whether one is, is the
\* caller's choice.
Keep(h, from) ==
    /\ job[h].op = "fill"
    /\ \/ /\ cache' = [cache EXCEPT ![job[h].process] =
                           [account |-> job[h].read, expires |-> from + Ttl]]
          /\ \/ job' = [job EXCEPT ![h] = Idle]
             \/ \E token \in tokens :
                   /\ job[h].read.active /\ token.version = job[h].read.version
                   /\ Passes(h, token, job[h].since)
       \/ /\ job[h].read.active /\ UNCHANGED cache
          /\ job' = [job EXCEPT ![h] = Idle]
    /\ UNCHANGED <<accountVars, tokens, mail, codes>>

\* Mutant: the seconds count from the answer of the database.
FillFromNow(h) == Keep(h, now)

\* The seconds count from before the read.
Fill(h) == Keep(h, job[h].since)

-----------------------------------------------------------------------------
(* From one origin to the other *)

\* What is made of a session that was accepted: it is of the version of now.
Passed(holder, asked) ==
    [version |-> account.version, password |-> holder.password,
     crossed |-> IF holder.version = account.version THEN holder.crossed ELSE asked]

\* The bound on what is made.
Room == Cardinality(mail) + Cardinality(codes) < MaxIssued

\* A link to the app, for who comes from the members' area. It is read by AutoLogin.
AppLink(h) ==
    /\ job[h].op = "pass" /\ Room
    /\ mail' = mail \cup {Passed(job[h].holder, job[h].since)}
    /\ job' = [job EXCEPT ![h] = Idle]
    /\ UNCHANGED <<accountVars, cache, tokens, codes>>

\* A code for the members' area: it names the account and no version.
MembersSso(h) ==
    /\ job[h].op = "pass" /\ Room
    /\ codes' = codes \cup {[holder |-> job[h].holder, asked |-> job[h].since]}
    /\ job' = [job EXCEPT ![h] = Idle]
    /\ UNCHANGED <<accountVars, cache, tokens, mail>>

\* The code is exchanged for a session, once, or more often while Redis is out. Its
\* minute is left open.
Exchange(h, code) ==
    /\ job[h] = Idle
    /\ account.active
    /\ Admitted(h, Passed(code.holder, code.asked))
    /\ codes' \in {codes, codes \ {code}}
    /\ UNCHANGED <<accountVars, cache, tokens, mail>>

Next ==
    \/ Tick \/ ChangePassword \/ ReplacePassword \/ Switch \/ SendLink
    \/ \E h \in Handlers :
          \/ \E typed \in Passwords : Login(h, typed)
          \/ \E link \in mail : AutoLogin(h, link)
          \/ \E code \in codes : Exchange(h, code)
          \/ Sign(h) \/ ReadAccount(h) \/ Fill(h) \/ AppLink(h) \/ MembersSso(h)
          \/ \E p \in Processes :
                Enter(h, p) \/ \E token \in tokens : Accept(h, p, token)

Spec == Init /\ [][Next]_vars

-----------------------------------------------------------------------------
(* Properties *)

\* The row, the caches and the requests are what they can be.
TypeOK ==
    /\ now \in 1..LastTime
    /\ password \in Passwords
    /\ account \in Accounts
    /\ served \subseteq Passwords /\ password \in served
    /\ cache \in [Processes -> [account : Accounts, expires : 0..(LastTime + Ttl)]]
    /\ tokens \subseteq Credentials /\ mail \subseteq Credentials /\ codes \subseteq Codes
    /\ rotatedAt \in Times
    /\ \A h \in Handlers : job[h].op \in {"idle", "sign", "read", "fill", "pass"}

\* A process goes by what an account was no longer than the seconds of its cache
\* after the change (auth.middleware.ts, lines 18-20: "desativação/upgrade pega no tick
\* seguinte"), however slow the database was.
RevokedInTime ==
    \A p \in Processes :
        Fresh(p) /\ cache[p].account # account => now < changedAt + Ttl

\* A session that is still accepted was opened with a password of the account's
\* version, or goes back to one that was accepted before the seconds of the cache were
\* over after the password was changed: who signs in while it changes gets a dead
\* session, and what an old session can be turned into ends with the caches
\* (lib/authToken.ts, lines 5-8; auth.middleware.ts, lines 62-68).
SessionsFollowPassword ==
    \A t \in tokens :
        t.version = account.version =>
            t.password \in served \/ (t.crossed > 0 /\ t.crossed < rotatedAt + Ttl)

\* "um bump (troca/reset de senha, logout forçado) invalida na hora todos os tokens já
\* emitidos" (lib/authToken.ts, lines 6-8): none of them is turned into a session of the
\* new version.
OldSessionsDie ==
    \A t \in tokens : t.version = account.version => t.password \in served

\* What a change of the account does to its sessions, however slow the database was
\* and whoever signed in meanwhile.
SessionsFollowAccount == RevokedInTime /\ SessionsFollowPassword

\* "se a senha for trocada, o link morre" (lib/autoLoginToken.ts, line 13).
LinkDiesWithPassword ==
    \A link \in mail : link.password # password => link.version # account.version
=============================================================================
