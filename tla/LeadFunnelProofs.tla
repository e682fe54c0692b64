--------------------------- MODULE LeadFunnelProofs ---------------------------
(*************************************************************************)
(* What holds of the funnel whatever the number of people, processes, visits, *)
(* lost outcomes and batches that break.                                 *)
(*************************************************************************)
EXTENDS MCLeadFunnel, SequenceTheorems, TLAPS

-----------------------------------------------------------------------------
(* What a row may be *)

Row == [status : Statuses, source : {"", "content", "reels"}, stage : Stages, quiet : BOOLEAN,
        welcome : {"no", "waits", "due", "sent"}]

\* A row the remarketing looks for, once it is quiet.
IsOpen(row) ==
    \/ row.stage = "checkout_pending"
    \/ row.status \in {"lead", "student"} /\ row.source = "" /\ row.stage = "none"

\* Who is written to has the message and not yet the stage; who waits is in a batch.
Written(l) == \E p \in Processes : sent[p] /\ Head(batch[p]).who = l
Waits(l) == \E p \in Processes : \E i \in 1..Len(batch[p]) : batch[p][i].who = l

\* One message more may go out to l.
Owed(l) == ~Written(l) /\ (IsOpen(lead[l]) \/ Waits(l))

\* Who is greeted has the welcome and not yet its mark.
Greeted(l) == \E t \in WelcomeTicks : greeted[t] /\ greeting[t] = l

\* One process runs the remarketing: it has one batch at a time.
OneProcess == \A p, q \in Processes : p = q

-----------------------------------------------------------------------------
(* The inductive invariant *)

FunnelTypes ==
    /\ TypeOK
    /\ \A p \in Processes : sent[p] => batch[p] # <<>>
    /\ \A l \in People : ~Exists(l) => lead[l].welcome = "no"
    /\ \A t \in WelcomeTicks : greeting[t] # None => Exists(greeting[t])
    /\ \A t \in WelcomeTicks : greeted[t] => greeting[t] # None

\* A person is in a batch once.
NoneTwice ==
    \A p \in Processes : \A i, k \in 1..Len(batch[p]) :
        batch[p][i].who = batch[p][k].who => i = k

\* There is a visit to the funnel for every message, and for the one that is owed.
VisitsSuffice ==
    \A l \in People : contacts[l] + (IF Owed(l) THEN 1 ELSE 0) <= asked[l] + unsure[l]

\* One reader is found at a time and is due, and who is yet to be welcomed has a
\* welcome left.
WelcomesSuffice ==
    /\ \A t, u \in WelcomeTicks : greeting[t] # None /\ greeting[u] # None => t = u
    /\ \A t \in WelcomeTicks : greeting[t] # None => lead[greeting[t]].welcome = "due"
    /\ \A l \in People :
          welcomes[l] + (IF lead[l].welcome = "sent" \/ Greeted(l) THEN 0 ELSE 1) <= 1 + unsure[l]

FunnelInv == FunnelTypes /\ NoneTwice /\ VisitsSuffice /\ WelcomesSuffice

-----------------------------------------------------------------------------
(* Batches *)

\* Those who are taken are of those who were found, each once and no more than n.
LEMMA NewestAreSome ==
  ASSUME NEW people, people \in SUBSET Int, NEW n \in Nat, NEW s \in Newest(people, n)
  PROVE  /\ s \in Seq(people) /\ Len(s) \in 0..n
         /\ \A i, k \in 1..Len(s) : s[i] = s[k] => i = k
<1>1. PICK m \in 0..n : s \in [1..m -> people]
  BY DEF Newest, NewestFirst, SeqOf
<1>2. Len(s) = m /\ DOMAIN s = 1..m /\ s \in Seq(people)
  BY <1>1
<1>3. \A i, k \in 1..m : i < k => s[i] > s[k]
  BY <1>1 DEF Newest, NewestFirst
<1>4. \A i, k \in 1..m : s[i] = s[k] => i = k
  <2> SUFFICES ASSUME NEW i \in 1..m, NEW k \in 1..m, s[i] = s[k], i # k PROVE FALSE
    OBVIOUS
  <2>1. s[i] \in Int /\ s[k] \in Int
    BY <1>1
  <2>2. i < k \/ k < i
    OBVIOUS
  <2> QED
    BY <1>3, <2>1, <2>2
<1> QED
  BY <1>1, <1>2, <1>4

Contact == [who : People, kind : {"visitor", "checkout"}]

\* A list of contacts is as long as the list of people.
LEMMA ListIsWhole ==
  ASSUME NEW people, people \subseteq People, NEW kind \in {"visitor", "checkout"},
         NEW s \in Seq(people)
  PROVE  /\ As(kind, s) \in Seq(Contact) /\ Len(As(kind, s)) = Len(s)
         /\ \A i \in 1..Len(s) : As(kind, s)[i].who = s[i] /\ s[i] \in people
<1>1. /\ Len(s) \in Nat /\ DOMAIN s = 1..Len(s)
      /\ \A i \in 1..Len(s) : s[i] \in people
  OBVIOUS
<1>2. \A i \in 1..Len(s) : [who |-> s[i], kind |-> kind] \in Contact
  BY <1>1 DEF Contact
<1>3. As(kind, s) = [i \in 1..Len(s) |-> [who |-> s[i], kind |-> kind]]
  BY <1>1 DEF As
<1>4. As(kind, s) \in Seq(Contact) /\ Len(As(kind, s)) = Len(s)
  <2> HIDE DEF Contact
  <2> QED
    BY <1>1, <1>2, <1>3
<1>5. \A i \in 1..Len(s) : As(kind, s)[i].who = s[i]
  BY <1>3
<1> QED
  BY <1>1, <1>4, <1>5

\* A batch of people the remarketing looks for, each once.
IsBatch(b) ==
    /\ b \in SeqOf(Contact, PerRun)
    /\ \A i \in 1..Len(b) : b[i].who \in People /\ IsOpen(lead[b[i].who])
    /\ \A i, k \in 1..Len(b) : b[i].who = b[k].who => i = k

\* What is put together of the two lists is one: they have nobody in common.
LEMMA BatchIsWhole ==
  ASSUME NEW first \in Newest(Checkouts, PerRun), NEW others \in Newest(Visitors, PerRun - Len(first))
  PROVE  IsBatch(As("checkout", first) \o As("visitor", others))
<1> USE FunnelAssumption DEF FunnelAssumption
<1> DEFINE some == Checkouts
           rest == Visitors
           b == As("checkout", first) \o As("visitor", others)
<1>0. /\ some \subseteq People /\ rest \subseteq People /\ some \cap rest = {}
      /\ \A l \in some \cup rest : IsOpen(lead[l])
  BY DEF Checkouts, Visitors, IsOpen
<1>a. first \in Newest(some, PerRun) /\ others \in Newest(rest, PerRun - Len(first))
  OBVIOUS
<1> HIDE DEF some, rest
<1>1. some \in SUBSET Int /\ rest \in SUBSET Int
  BY <1>0 DEF People
<1>2. /\ first \in Seq(some) /\ Len(first) \in 0..PerRun
      /\ \A i, k \in 1..Len(first) : first[i] = first[k] => i = k
  BY <1>1, <1>a, NewestAreSome
<1>3. PICK left \in Nat : left = PerRun - Len(first)
  BY <1>2
<1>4. /\ others \in Seq(rest) /\ Len(others) \in 0..left
      /\ \A i, k \in 1..Len(others) : others[i] = others[k] => i = k
  <2>1. others \in Newest(rest, left) /\ rest \in SUBSET Int
    BY <1>1, <1>3, <1>a
  <2> QED
    BY <2>1, NewestAreSome
<1> DEFINE head == As("checkout", first)
           tail == As("visitor", others)
<1>5. /\ head \in Seq(Contact) /\ Len(head) = Len(first)
      /\ \A i \in 1..Len(first) : head[i].who = first[i] /\ first[i] \in some
  BY <1>0, <1>2, ListIsWhole
<1>6. /\ tail \in Seq(Contact) /\ Len(tail) = Len(others)
      /\ \A i \in 1..Len(others) : tail[i].who = others[i] /\ others[i] \in rest
  BY <1>0, <1>4, ListIsWhole
<1> HIDE DEF head, tail
<1>7. b = head \o tail
  BY DEF head, tail
<1> HIDE DEF b
<1>8. /\ b \in Seq(Contact) /\ Len(b) = Len(head) + Len(tail)
      /\ \A i \in 1..Len(head) : b[i] = head[i]
      /\ \A i \in (Len(head) + 1)..(Len(head) + Len(tail)) : b[i] = tail[i - Len(head)]
  <2>1. /\ b \in Seq(Contact) /\ Len(b) = Len(head) + Len(tail)
        /\ \A i \in 1..(Len(head) + Len(tail)) :
              b[i] = IF i <= Len(head) THEN head[i] ELSE tail[i - Len(head)]
    <3>1. head \in Seq(Contact) /\ tail \in Seq(Contact)
      BY <1>5, <1>6
    <3> HIDE DEF Contact
    <3> QED
      BY <1>7, <3>1, ConcatProperties
  <2>2. Len(head) \in Nat /\ Len(tail) \in Nat
    BY <1>5, <1>6
  <2> QED
    BY <2>1, <2>2
<1>9. b \in SeqOf(Contact, PerRun)
  <2>1. Len(b) \in 0..PerRun
    BY <1>2, <1>3, <1>4, <1>5, <1>6, <1>8
  <2>2. b \in [1..Len(b) -> Contact]
    BY <1>8, LenProperties
  <2> QED
    BY <2>1, <2>2 DEF SeqOf
<1>10. ASSUME NEW i \in 1..Len(b)
       PROVE  \/ i \in 1..Len(first) /\ b[i].who = first[i] /\ first[i] \in some
              \/ /\ i - Len(first) \in 1..Len(others)
                 /\ b[i].who = others[i - Len(first)]
                 /\ others[i - Len(first)] \in rest
  <2>1. Len(first) \in Nat /\ Len(others) \in Nat /\ i \in 1..(Len(first) + Len(others))
    BY <1>2, <1>4, <1>5, <1>6, <1>8
  <2>2. CASE i \in 1..Len(first)
    BY <1>5, <1>8, <2>2
  <2>3. CASE i \notin 1..Len(first)
    <3>1. /\ i \in (Len(first) + 1)..(Len(first) + Len(others))
          /\ i - Len(first) \in 1..Len(others)
      BY <2>1, <2>3
    <3>2. b[i] = tail[i - Len(first)]
      BY <1>5, <1>6, <1>8, <3>1
    <3> QED
      BY <1>6, <3>1, <3>2
  <2> QED
    BY <2>2, <2>3
<1>11. \A i \in 1..Len(b) : b[i].who \in some \cup rest
  BY <1>10
<1>12. ASSUME NEW i \in 1..Len(b), NEW k \in 1..Len(b), b[i].who = b[k].who
       PROVE  i = k
  <2>1. CASE b[i].who \in some
    <3>1. i \in 1..Len(first) /\ k \in 1..Len(first) /\ first[i] = first[k]
      BY <1>0, <1>10, <1>12, <2>1
    <3> QED
      BY <1>2, <3>1
  <2>2. CASE b[i].who \in rest
    <3>1. /\ i - Len(first) \in 1..Len(others) /\ k - Len(first) \in 1..Len(others)
          /\ others[i - Len(first)] = others[k - Len(first)]
      BY <1>0, <1>10, <1>12, <2>2
    <3>2. i - Len(first) = k - Len(first)
      BY <1>4, <3>1
    <3>3. i \in Int /\ k \in Int /\ Len(first) \in Int
      BY <1>2, <1>8
    <3> QED
      BY <3>2, <3>3
  <2> QED
    BY <1>11, <2>1, <2>2
<1>13. IsBatch(b)
  BY <1>0, <1>9, <1>11, <1>12 DEF IsBatch
<1> QED
  BY <1>13 DEF b

-----------------------------------------------------------------------------
(* People *)

\* What a person may make of the row of l: it is of somebody who exists, is due to be
\* welcomed only if it was, and if no visit is counted it is not opened.
MayBecome(l, row, invites) ==
    /\ row \in Row
    /\ row.status # "none"
    /\ invites \/ (IsOpen(row) => IsOpen(lead[l]))
    /\ \/ row.welcome = lead[l].welcome
       \/ lead[l].welcome = "no" /\ row.welcome = "waits"

\* Whatever a person does, and a cancellation, saves one such row.
LEMMA PersonSaves ==
  ASSUME FunnelTypes, NEW l \in People, Person(l) \/ OrderCancelled(l)
  PROVE  \E row, invites : invites \in BOOLEAN /\ MayBecome(l, row, invites) /\ Save(l, row, invites)
<1>1. lead[l] \in Row /\ (~Exists(l) => lead[l].welcome = "no")
  BY DEF FunnelTypes, TypeOK, Row
<1> USE DEF Exists, MayAppear, Nobody
<1>2. CASE SalesForm(l)
  <2>1. ASSUME MayAppear(l), Save(l, [Nobody EXCEPT !.status = "lead"],
                     TRUE)
        PROVE  \E row, invites :
                  invites \in BOOLEAN /\ MayBecome(l, row, invites) /\ Save(l, row, invites)
    <3>1. MayBecome(l, [Nobody EXCEPT !.status = "lead"], TRUE)
      BY <1>1, <2>1 DEF MayBecome, Row, Statuses, Stages, IsOpen
    <3> QED
      BY <2>1, <3>1
  <2>2. ASSUME Exists(l), Save(l, [lead[l] EXCEPT !.stage = "none"],
                     lead[l].stage # "none")
        PROVE  \E row, invites :
                  invites \in BOOLEAN /\ MayBecome(l, row, invites) /\ Save(l, row, invites)
    <3>1. MayBecome(l, [lead[l] EXCEPT !.stage = "none"], lead[l].stage # "none")
      BY <1>1, <2>2 DEF MayBecome, Row, Statuses, Stages, IsOpen
    <3> QED
      BY <2>2, <3>1
  <2> QED
    BY <1>2, <2>1, <2>2 DEF SalesForm
<1>3. CASE CheckoutClick(l)
  <2>1. ASSUME Exists(l), Save(l, [lead[l] EXCEPT !.stage = "checkout_pending"],
                     lead[l].stage # "checkout_pending")
        PROVE  \E row, invites :
                  invites \in BOOLEAN /\ MayBecome(l, row, invites) /\ Save(l, row, invites)
    <3>1. MayBecome(l, [lead[l] EXCEPT !.stage = "checkout_pending"], lead[l].stage # "checkout_pending")
      BY <1>1, <2>1 DEF MayBecome, Row, Statuses, Stages, IsOpen
    <3> QED
      BY <2>1, <3>1
  <2> QED
    BY <1>3, <2>1 DEF CheckoutClick
<1>4. CASE OrderCancelled(l)
  <2>1. ASSUME MayAppear(l), Save(l, [Nobody EXCEPT !.status = "lead", !.stage = "checkout_pending"],
                     TRUE)
        PROVE  \E row, invites :
                  invites \in BOOLEAN /\ MayBecome(l, row, invites) /\ Save(l, row, invites)
    <3>1. MayBecome(l, [Nobody EXCEPT !.status = "lead", !.stage = "checkout_pending"], TRUE)
      BY <1>1, <2>1 DEF MayBecome, Row, Statuses, Stages, IsOpen
    <3> QED
      BY <2>1, <3>1
  <2>2. ASSUME Exists(l), Save(l, [lead[l] EXCEPT !.stage = "checkout_pending"],
                     lead[l].stage # "checkout_pending")
        PROVE  \E row, invites :
                  invites \in BOOLEAN /\ MayBecome(l, row, invites) /\ Save(l, row, invites)
    <3>1. MayBecome(l, [lead[l] EXCEPT !.stage = "checkout_pending"], lead[l].stage # "checkout_pending")
      BY <1>1, <2>2 DEF MayBecome, Row, Statuses, Stages, IsOpen
    <3> QED
      BY <2>2, <3>1
  <2> QED
    BY <1>4, <2>1, <2>2 DEF OrderCancelled
<1>5. CASE ContentForm(l)
  <2>1. ASSUME MayAppear(l), Save(l, [Nobody EXCEPT !.status = "lead", !.source = "content",
       !.welcome = "waits"],
                     FALSE)
        PROVE  \E row, invites :
                  invites \in BOOLEAN /\ MayBecome(l, row, invites) /\ Save(l, row, invites)
    <3>1. MayBecome(l, [Nobody EXCEPT !.status = "lead", !.source = "content",
         !.welcome = "waits"], FALSE)
      BY <1>1, <2>1 DEF MayBecome, Row, Statuses, Stages, IsOpen
    <3> QED
      BY <2>1, <3>1
  <2>2. ASSUME Exists(l), Save(l, [lead[l] EXCEPT !.stage = "none",
                 !.source = IF @ = "" THEN "content" ELSE @,
                 !.welcome = IF @ = "no" THEN "waits" ELSE @],
                     FALSE)
        PROVE  \E row, invites :
                  invites \in BOOLEAN /\ MayBecome(l, row, invites) /\ Save(l, row, invites)
    <3>1. MayBecome(l, [lead[l] EXCEPT !.stage = "none",
                 !.source = IF @ = "" THEN "content" ELSE @,
                 !.welcome = IF @ = "no" THEN "waits" ELSE @], FALSE)
      BY <1>1, <2>2 DEF MayBecome, Row, Statuses, Stages, IsOpen
    <3> QED
      BY <2>2, <3>1
  <2> QED
    BY <1>5, <2>1, <2>2 DEF ContentForm
<1>6. CASE ReelsForm(l)
  <2>1. ASSUME MayAppear(l), Save(l, [Nobody EXCEPT !.status = "lead", !.source = "reels"],
                     FALSE)
        PROVE  \E row, invites :
                  invites \in BOOLEAN /\ MayBecome(l, row, invites) /\ Save(l, row, invites)
    <3>1. MayBecome(l, [Nobody EXCEPT !.status = "lead", !.source = "reels"], FALSE)
      BY <1>1, <2>1 DEF MayBecome, Row, Statuses, Stages, IsOpen
    <3> QED
      BY <2>1, <3>1
  <2>2. ASSUME Exists(l), Save(l, [lead[l] EXCEPT !.source = IF @ = "" THEN "reels" ELSE @],
                     FALSE)
        PROVE  \E row, invites :
                  invites \in BOOLEAN /\ MayBecome(l, row, invites) /\ Save(l, row, invites)
    <3>1. MayBecome(l, [lead[l] EXCEPT !.source = IF @ = "" THEN "reels" ELSE @], FALSE)
      BY <1>1, <2>2 DEF MayBecome, Row, Statuses, Stages, IsOpen
    <3> QED
      BY <2>2, <3>1
  <2> QED
    BY <1>6, <2>1, <2>2 DEF ReelsForm
<1>7. CASE BuysCourse(l)
  <2>1. ASSUME MayAppear(l), Save(l, [Nobody EXCEPT !.status = "student"],
                     TRUE)
        PROVE  \E row, invites :
                  invites \in BOOLEAN /\ MayBecome(l, row, invites) /\ Save(l, row, invites)
    <3>1. MayBecome(l, [Nobody EXCEPT !.status = "student"], TRUE)
      BY <1>1, <2>1 DEF MayBecome, Row, Statuses, Stages, IsOpen
    <3> QED
      BY <2>1, <3>1
  <2> QED
    BY <1>7, <2>1 DEF BuysCourse
<1>8. CASE Pays(l)
  <2>1. ASSUME Exists(l) \/ MayAppear(l), Save(l, [lead[l] EXCEPT !.status = "active", !.stage = "none"],
                     FALSE)
        PROVE  \E row, invites :
                  invites \in BOOLEAN /\ MayBecome(l, row, invites) /\ Save(l, row, invites)
    <3>1. MayBecome(l, [lead[l] EXCEPT !.status = "active", !.stage = "none"], FALSE)
      BY <1>1, <2>1 DEF MayBecome, Row, Statuses, Stages, IsOpen
    <3> QED
      BY <2>1, <3>1
  <2> QED
    BY <1>8, <2>1 DEF Pays
<1>9. CASE Lapses(l)
  <2>1. ASSUME Exists(l), Save(l, [lead[l] EXCEPT !.status = "lapsed"],
                     FALSE)
        PROVE  \E row, invites :
                  invites \in BOOLEAN /\ MayBecome(l, row, invites) /\ Save(l, row, invites)
    <3>1. MayBecome(l, [lead[l] EXCEPT !.status = "lapsed"], FALSE)
      BY <1>1, <2>1 DEF MayBecome, Row, Statuses, Stages, IsOpen
    <3> QED
      BY <2>1, <3>1
  <2> QED
    BY <1>9, <2>1 DEF Lapses
<1> QED
  BY <1>2, <1>3, <1>4, <1>5, <1>6, <1>7, <1>8, <1>9 DEF Person


-----------------------------------------------------------------------------
(* Types *)

LEMMA FunnelInit == Init => FunnelInv
<1> SUFFICES ASSUME Init PROVE FunnelInv
  OBVIOUS
<1> USE FunnelAssumption DEF FunnelAssumption, Init
<1>1. FunnelTypes
  <2>1. Nobody \in Row /\ Nobody.welcome = "no" /\ Nobody.status = "none"
    BY DEF Nobody, Row, Statuses, Stages
  <2>2. lead \in [People -> Row] /\ \A l \in People : ~Exists(l) => lead[l].welcome = "no"
    BY <2>1
  <2>3. <<>> \in SeqOf(Contact, PerRun)
    <3>1. 0 \in 0..PerRun /\ <<>> \in [1..0 -> Contact]
      OBVIOUS
    <3> QED
      BY <3>1 DEF SeqOf
  <2>4. /\ batch \in [Processes -> SeqOf(Contact, PerRun)] /\ sent \in [Processes -> BOOLEAN]
        /\ greeting \in [WelcomeTicks -> People \cup {None}]
        /\ greeted \in [WelcomeTicks -> BOOLEAN] /\ cancelling \subseteq People
    BY <2>3
  <2>5. /\ asked \in [People -> Nat] /\ unsure \in [People -> Nat]
        /\ contacts \in [People -> Nat] /\ welcomes \in [People -> Nat] /\ breaks \in 0..MaxBreaks
    OBVIOUS
  <2>6. /\ \A p \in Processes : ~sent[p]
        /\ \A t \in WelcomeTicks : greeting[t] = None /\ ~greeted[t]
    OBVIOUS
  <2>7. TypeOK
    BY <2>2, <2>4, <2>5 DEF TypeOK, Row, Contact
  <2> QED
    BY <2>2, <2>6, <2>7 DEF FunnelTypes
<1>2. NoneTwice
  BY DEF NoneTwice
<1>3. VisitsSuffice
  <2>1. \A l \in People : ~IsOpen(lead[l]) /\ ~Waits(l)
    <3>1. \A l \in People : lead[l].stage = "none" /\ lead[l].status = "none"
      BY DEF Nobody
    <3>2. \A p \in Processes : Len(batch[p]) = 0
      OBVIOUS
    <3>3. \A l \in People : ~IsOpen(lead[l])
      <4> SUFFICES ASSUME NEW l \in People PROVE ~IsOpen(lead[l])
        OBVIOUS
      <4> QED
        BY <3>1 DEF IsOpen
    <3>4. \A l \in People : ~Waits(l)
      BY <3>2 DEF Waits
    <3> QED
      BY <3>3, <3>4
  <2> QED
    BY <2>1 DEF VisitsSuffice, Owed
<1>4. WelcomesSuffice
  <2>1. \A l \in People : lead[l].welcome = "no" /\ welcomes[l] = 0 /\ unsure[l] = 0
    BY DEF Nobody
  <2>2. \A t \in WelcomeTicks : greeting[t] = None
    OBVIOUS
  <2> QED
    BY <2>1, <2>2 DEF WelcomesSuffice
<1> QED
  BY <1>1, <1>2, <1>3, <1>4 DEF FunnelInv

\* A count that goes up by one is a count.
LEMMA OneMoreIsCount ==
  ASSUME NEW f \in [People -> Nat], NEW g, NEW l \in People,
         g = f \/ g = [f EXCEPT ![l] = f[l] + 1]
  PROVE  g \in [People -> Nat]
OBVIOUS

\* A lost outcome is counted.
LEMMA LossCounts ==
  ASSUME NEW l \in People, LosesCount(l)
  PROVE  unsure' = [unsure EXCEPT ![l] = unsure[l] + 1]
BY Zenon DEF LosesCount

\* A batch of contacts is a sequence of them, and so is what is left of it.
LEMMA BatchIsSequence ==
  ASSUME FunnelTypes, NEW p \in Processes
  PROVE  /\ batch[p] \in Seq(Contact) /\ Len(batch[p]) \in 0..PerRun
         /\ \A i \in 1..Len(batch[p]) : batch[p][i].who \in People
         /\ batch[p] # <<>> => /\ Tail(batch[p]) \in SeqOf(Contact, PerRun)
                               /\ Head(batch[p]) = batch[p][1] /\ 1 \in 1..Len(batch[p])
                               /\ Head(batch[p]) \in Contact
                               /\ Len(Tail(batch[p])) = Len(batch[p]) - 1
                               /\ \A i \in 1..(Len(batch[p]) - 1) :
                                     Tail(batch[p])[i] = batch[p][i + 1]
<1> USE FunnelAssumption DEF FunnelAssumption
<1>1. batch[p] \in SeqOf(Contact, PerRun)
  BY DEF FunnelTypes, TypeOK, Contact
<1>2. PICK m \in 0..PerRun : batch[p] \in [1..m -> Contact]
  BY <1>1 DEF SeqOf
<1> HIDE DEF Contact
<1>3. batch[p] \in Seq(Contact) /\ Len(batch[p]) = m
  BY <1>2
<1>4. \A i \in 1..Len(batch[p]) : batch[p][i].who \in People
  BY <1>2, <1>3 DEF Contact
<1>5. ASSUME batch[p] # <<>>
      PROVE  /\ Tail(batch[p]) \in SeqOf(Contact, PerRun)
             /\ Head(batch[p]) = batch[p][1] /\ 1 \in 1..Len(batch[p])
             /\ Head(batch[p]) \in Contact
             /\ Len(Tail(batch[p])) = Len(batch[p]) - 1
             /\ \A i \in 1..(Len(batch[p]) - 1) : Tail(batch[p])[i] = batch[p][i + 1]
  <2>1. /\ Tail(batch[p]) \in Seq(Contact) /\ Len(Tail(batch[p])) = m - 1 /\ m >= 1
        /\ Head(batch[p]) = batch[p][1]
        /\ \A i \in 1..(m - 1) : Tail(batch[p])[i] = batch[p][i + 1]
    BY <1>3, <1>5
  <2>2. Tail(batch[p]) \in [1..(m - 1) -> Contact] /\ m - 1 \in 0..PerRun
    <3>1. Tail(batch[p]) \in [1..Len(Tail(batch[p])) -> Contact]
      BY <2>1, LenProperties
    <3>2. Len(Tail(batch[p])) = m - 1 /\ m - 1 \in 0..PerRun
      BY <2>1
    <3> QED
      BY <3>1, <3>2
  <2>3. Tail(batch[p]) \in SeqOf(Contact, PerRun)
    BY <2>2 DEF SeqOf
  <2> QED
    BY <1>2, <1>3, <2>1, <2>3
<1> QED
  BY <1>3, <1>4, <1>5

\* A start puts a batch together of people who are open, each once.
LEMMA StartedBatch ==
  ASSUME FunnelTypes, NEW p \in Processes, StartBatch(p)
  PROVE  \E b : batch' = [batch EXCEPT ![p] = b] /\ IsBatch(b)
<1>1. PICK first \in Newest(Checkouts, PerRun) :
         \E others \in Newest(Visitors, PerRun - Len(first)) :
             batch' = [batch EXCEPT ![p] = As("checkout", first) \o As("visitor", others)]
  BY DEF StartBatch
<1> QED
  BY <1>1, BatchIsWhole

\* What a step must keep for the types to stay.
Columns ==
    /\ lead \in [People -> Row] /\ cancelling \subseteq People
    /\ asked \in [People -> Nat] /\ unsure \in [People -> Nat]
    /\ contacts \in [People -> Nat] /\ welcomes \in [People -> Nat] /\ breaks \in 0..MaxBreaks
    /\ \A l \in People : lead[l].status = "none" => lead[l].welcome = "no"

Batches ==
    /\ batch \in [Processes -> SeqOf(Contact, PerRun)] /\ sent \in [Processes -> BOOLEAN]
    /\ \A p \in Processes : sent[p] => batch[p] # <<>>

Greetings ==
    /\ greeting \in [WelcomeTicks -> People \cup {None}]
    /\ greeted \in [WelcomeTicks -> BOOLEAN]
    /\ \A t \in WelcomeTicks : greeting[t] # None => lead[greeting[t]].status # "none"
    /\ \A t \in WelcomeTicks : greeted[t] => greeting[t] # None

LEMMA TypesAreParts == FunnelTypes <=> Columns /\ Batches /\ Greetings
BY DEF FunnelTypes, TypeOK, Columns, Batches, Greetings, Row, Contact, Exists

LEMMA PartsAreTypesNext == Columns' /\ Batches' /\ Greetings' => FunnelTypes'
BY DEF FunnelTypes, TypeOK, Columns, Batches, Greetings, Row, Contact, Exists

\* The step of somebody, of a cancellation and of time.
LEMMA PeopleKeepTypes ==
  ASSUME FunnelTypes,
         \/ Elapse
         \/ \E l \in People : \/ Person(l) /\ UNCHANGED cancelling
                              \/ CancellationRead(l) \/ OrderCancelled(l)
  PROVE  FunnelTypes'
<1> USE FunnelAssumption DEF FunnelAssumption
<1>1. Columns /\ Batches /\ Greetings
  BY TypesAreParts
<1>2. SUFFICES Columns' /\ Batches' /\ Greetings'
  BY PartsAreTypesNext
<1>3. ASSUME NEW l \in People, Person(l) \/ OrderCancelled(l), cancelling' \subseteq People
      PROVE  <1>2!1
  <2>1. PICK row, invites : /\ invites \in BOOLEAN /\ MayBecome(l, row, invites)
                            /\ Save(l, row, invites)
    BY <1>3, PersonSaves
  <2>2. /\ [row EXCEPT !.quiet = FALSE] \in Row
        /\ [row EXCEPT !.quiet = FALSE].status # "none"
    BY <2>1 DEF MayBecome, Row
  <2>3. lead' = [lead EXCEPT ![l] = [row EXCEPT !.quiet = FALSE]]
    BY <2>1 DEF Save
  <2>4. asked' \in [People -> Nat]
    <3>1. asked' = IF invites THEN [asked EXCEPT ![l] = asked[l] + 1] ELSE asked
      BY <2>1 DEF Save
    <3> QED
      BY <1>1, <3>1 DEF Columns
  <2>5. UNCHANGED <<batch, sent, greeting, greeted, contacts, welcomes, unsure, breaks>>
    BY <2>1 DEF Save, remarketing, welcoming
  <2> HIDE DEF Row
  <2>6. Columns'
    BY <1>1, <1>3, <2>2, <2>3, <2>4, <2>5 DEF Columns
  <2>7. Batches' /\ Greetings'
    BY <1>1, <2>2, <2>3, <2>5 DEF Columns, Batches, Greetings
  <2> QED
    BY <2>6, <2>7
<1>4. CASE Elapse
  <2>1. \A l \in People : /\ lead'[l] \in Row
                          /\ lead'[l].status = lead[l].status
                          /\ lead[l].welcome = "no" => lead'[l].welcome = "no"
    BY <1>1, <1>4 DEF Elapse, Row, Exists, Columns
  <2>2. lead' \in [People -> Row]
    BY <1>4, <2>1 DEF Elapse
  <2>3. UNCHANGED <<cancelling, remarketing, welcoming, history>>
    BY <1>4 DEF Elapse
  <2> HIDE DEF Row
  <2> QED
    BY <1>1, <2>1, <2>2, <2>3
       DEF Columns, Batches, Greetings, remarketing, welcoming, history
<1>5. ASSUME NEW l \in People, CancellationRead(l)
      PROVE  <1>2!1
  BY <1>1, <1>5
     DEF CancellationRead, Columns, Batches, Greetings, remarketing, welcoming, history
<1> QED
  <2>1. ASSUME NEW l \in People, Person(l), UNCHANGED cancelling PROVE <1>2!1
    BY <1>1, <1>3, <2>1 DEF Columns
  <2>2. ASSUME NEW l \in People, OrderCancelled(l) PROVE <1>2!1
    <3>1. cancelling' \subseteq People
      BY <1>1, <2>2 DEF OrderCancelled, Columns
    <3> QED
      BY <1>3, <2>2, <3>1
  <2> QED
    BY <1>4, <1>5, <2>1, <2>2

\* A step of the remarketing.
LEMMA RemarketingKeepsTypes ==
  ASSUME FunnelTypes, NEW p \in Processes, Remarketing(p)
  PROVE  FunnelTypes'
<1> USE FunnelAssumption DEF FunnelAssumption
<1>1. Columns /\ Batches /\ Greetings
  BY TypesAreParts
<1>2. SUFFICES Columns' /\ Batches' /\ Greetings'
  BY PartsAreTypesNext
<1>3. ASSUME UNCHANGED <<lead, cancelling, greeting, greeted, asked, welcomes, breaks>>,
             contacts' \in [People -> Nat], unsure' \in [People -> Nat], Batches'
      PROVE  <1>2!1
  BY <1>1, <1>3 DEF Columns, Greetings
<1>4. CASE StartBatch(p)
  <2>1. PICK b : batch' = [batch EXCEPT ![p] = b] /\ b \in SeqOf(Contact, PerRun)
    BY <1>4, StartedBatch DEF IsBatch
  <2>2. UNCHANGED <<lead, cancelling, sent, welcoming, history>> /\ ~sent[p]
    BY <1>1, <1>4 DEF StartBatch, Batches
  <2>3. Batches'
    BY <1>1, <2>1, <2>2 DEF Batches
  <2> QED
    BY <1>1, <1>3, <2>2, <2>3 DEF Columns, welcoming, history
<1>5. CASE WriteStage(p)
  <2>1. batch[p] # <<>> /\ Tail(batch[p]) \in SeqOf(Contact, PerRun) /\ Head(batch[p]) \in Contact
    BY <1>1, <1>5, BatchIsSequence DEF WriteStage, Batches
  <2>2. PICK l \in People : l = Head(batch[p]).who
    BY <2>1 DEF Contact
  <2>3. /\ Advanced(p) \in Row
        /\ Advanced(p).status = lead[l].status /\ Advanced(p).welcome = lead[l].welcome
    <3>1. PICK stage \in Stages : Advanced(p) = [lead[l] EXCEPT !.stage = stage, !.quiet = FALSE]
      <4>1. Head(batch[p]).kind \in {"visitor", "checkout"}
        BY <2>1 DEF Contact
      <4>2. SentStage[Head(batch[p]).kind] \in Stages
        BY <4>1 DEF SentStage, Stages
      <4> QED
        BY <2>2, <4>2 DEF Advanced
    <3>2. lead[l] \in Row
      BY <1>1 DEF Columns
    <3> QED
      BY <3>1, <3>2 DEF Row
  <2>4. /\ lead' = [lead EXCEPT ![l] = Advanced(p)]
        /\ batch' = [batch EXCEPT ![p] = Tail(batch[p])]
        /\ sent' = [sent EXCEPT ![p] = FALSE]
        /\ UNCHANGED <<cancelling, greeting, greeted, asked, contacts, welcomes, unsure, breaks>>
    BY <1>5, <2>2 DEF WriteStage, NextContact, welcoming, history
  <2>5. Columns'
    BY <1>1, <2>3, <2>4 DEF Columns
  <2>6. Batches'
    BY <1>1, <2>1, <2>4 DEF Batches
  <2>7. Greetings'
    BY <1>1, <2>3, <2>4 DEF Columns, Greetings
  <2> QED
    BY <2>5, <2>6, <2>7
<1>6. CASE BatchBreaks(p)
  <2>1. <<>> \in SeqOf(Contact, PerRun)
    <3>1. 0 \in 0..PerRun /\ <<>> \in [1..0 -> Contact]
      OBVIOUS
    <3> QED
      BY <3>1 DEF SeqOf
  <2>2. /\ batch' = [batch EXCEPT ![p] = <<>>] /\ sent' = [sent EXCEPT ![p] = FALSE]
        /\ breaks' = breaks + 1 /\ breaks < MaxBreaks
        /\ UNCHANGED <<lead, cancelling, greeting, greeted, asked, contacts, welcomes>>
    BY <1>6 DEF BatchBreaks, welcoming
  <2>3. unsure' \in [People -> Nat]
    <3>1. CASE UNCHANGED unsure
      BY <1>1, <3>1 DEF Columns
    <3>2. CASE sent[p]
      <4>1. Head(batch[p]).who \in People
        BY <1>6, BatchIsSequence DEF BatchBreaks, Contact
      <4>2. unsure' = [unsure EXCEPT ![Head(batch[p]).who] = unsure[Head(batch[p]).who] + 1]
        BY <1>6, <3>2, <4>1, LossCounts DEF BatchBreaks
      <4> QED
        BY <1>1, <4>1, <4>2 DEF Columns
    <3> QED
      BY <1>6, <3>1, <3>2 DEF BatchBreaks
  <2>4. breaks' \in 0..MaxBreaks
    BY <1>1, <2>2 DEF Columns
  <2>5. Columns' /\ Greetings'
    BY <1>1, <2>2, <2>3, <2>4 DEF Columns, Greetings
  <2>6. Batches'
    BY <1>1, <2>1, <2>2 DEF Batches
  <2> QED
    BY <2>5, <2>6
<1>7. ASSUME NEW l \in People, Delivered(p, l)
      PROVE  <1>2!1
  <2>1. UNCHANGED <<lead, cancelling, batch, welcoming, asked, welcomes, unsure, breaks>>
    BY <1>7 DEF Delivered
  <2>2. contacts' \in [People -> Nat]
    BY <1>1, <1>7 DEF Delivered, Columns
  <2>3. Batches'
    BY <1>1, <1>7, <2>1 DEF Delivered, ToContact, Batches
  <2> QED
    BY <1>1, <1>3, <2>1, <2>2, <2>3 DEF Columns, welcoming
<1>8. ASSUME NEW l \in People, Unanswered(p, l)
      PROVE  <1>2!1
  <2>1. UNCHANGED <<lead, cancelling, batch, sent, welcoming, asked, welcomes, breaks>>
    BY <1>8 DEF Unanswered, remarketing
  <2>2. contacts' \in [People -> Nat] /\ unsure' \in [People -> Nat]
    BY <1>1, <1>8, LossCounts DEF Unanswered, Columns
  <2>3. Batches'
    BY <1>1, <2>1 DEF Batches
  <2> QED
    BY <1>3, <2>1, <2>2, <2>3 DEF welcoming
<1>9. ASSUME NEW l \in People, NotDelivered(p, l)
      PROVE  <1>2!1
  <2>1. Tail(batch[p]) \in SeqOf(Contact, PerRun) /\ ~sent[p]
    BY <1>9, BatchIsSequence DEF NotDelivered, ToContact
  <2>2. /\ batch' = [batch EXCEPT ![p] = Tail(batch[p])]
        /\ UNCHANGED <<lead, cancelling, sent, welcoming, history>>
    BY <1>9 DEF NotDelivered, NextContact
  <2>3. Batches'
    BY <1>1, <2>1, <2>2 DEF Batches
  <2> QED
    BY <1>1, <1>3, <2>2, <2>3 DEF Columns, welcoming, history
<1> QED
  BY <1>4, <1>5, <1>6, <1>7, <1>8, <1>9 DEF Remarketing

\* A step of the welcome.
LEMMA WelcomeKeepsTypes ==
  ASSUME FunnelTypes, NEW t \in WelcomeTicks, NEW l \in People, Welcome(t, l)
  PROVE  FunnelTypes'
<1> USE FunnelAssumption DEF FunnelAssumption
<1>1. Columns /\ Batches /\ Greetings
  BY TypesAreParts
<1>2. SUFFICES Columns' /\ Batches' /\ Greetings'
  BY PartsAreTypesNext
<1>a. l # None
  BY DEF People
<1>3. CASE FindReader(t, l)
  <2>1. lead[l].status # "none"
    BY <1>1, <1>3 DEF FindReader, Columns
  <2> QED
    BY <1>1, <1>a, <1>3, <2>1
       DEF FindReader, Columns, Batches, Greetings, remarketing, history
<1>4. CASE WelcomeDelivered(t, l)
  <2>1. welcomes' \in [People -> Nat]
    BY <1>1, <1>4 DEF WelcomeDelivered, Columns
  <2> QED
    BY <1>1, <1>a, <1>4, <2>1
       DEF WelcomeDelivered, ToGreet, Columns, Batches, Greetings, remarketing
<1>5. CASE WelcomeUnanswered(t, l)
  <2>1. welcomes' \in [People -> Nat] /\ unsure' \in [People -> Nat]
    BY <1>1, <1>5, LossCounts DEF WelcomeUnanswered, Columns
  <2> QED
    BY <1>1, <1>5, <2>1
       DEF WelcomeUnanswered, Columns, Batches, Greetings, remarketing, welcoming
<1>6. ASSUME EndTick(t), lead' \in [People -> Row], unsure' \in [People -> Nat],
             \A m \in People : /\ lead'[m].status = lead[m].status
                               /\ lead'[m].status = "none" => lead'[m].welcome = "no",
             UNCHANGED <<cancelling, remarketing, asked, contacts, welcomes, breaks>>
      PROVE  <1>2!1
  <2> HIDE DEF Row
  <2>1. UNCHANGED <<cancelling, batch, sent, asked, contacts, welcomes, breaks>>
    BY <1>6 DEF remarketing
  <2>2. Batches'
    BY <1>1, <2>1 DEF Batches
  <2>3. Columns'
    <3>1. \A m \in People : lead'[m].status = "none" => lead'[m].welcome = "no"
      BY <1>6
    <3> QED
      BY <1>1, <1>6, <2>1, <3>1 DEF Columns
  <2>4. /\ greeting' = [greeting EXCEPT ![t] = None]
        /\ greeted' = [greeted EXCEPT ![t] = FALSE]
    BY <1>6 DEF EndTick
  <2>5. ASSUME NEW u \in WelcomeTicks
        PROVE  /\ greeting'[u] # None => lead'[greeting'[u]].status # "none"
               /\ greeted'[u] => greeting'[u] # None
    <3>1. CASE u = t
      BY <1>1, <2>4, <3>1 DEF Greetings
    <3>2. CASE u # t
      <4>1. greeting'[u] = greeting[u] /\ greeted'[u] = greeted[u]
        BY <1>1, <2>4, <3>2 DEF Greetings
      <4>2. greeting[u] # None => greeting[u] \in People /\ lead[greeting[u]].status # "none"
        BY <1>1 DEF Greetings
      <4> QED
        BY <1>1, <1>6, <4>1, <4>2 DEF Greetings
    <3> QED
      BY <3>1, <3>2
  <2>6. Greetings'
    BY <1>1, <2>4, <2>5 DEF Greetings
  <2> QED
    BY <2>2, <2>3, <2>6
<1>7. ASSUME NEW mark \in {"no", "waits", "due", "sent"}, greeting[t] = l,
             lead' = [lead EXCEPT ![l] = [lead[l] EXCEPT !.welcome = mark, !.quiet = FALSE]]
      PROVE  /\ lead' \in [People -> Row]
             /\ \A m \in People : /\ lead'[m].status = lead[m].status
                                  /\ lead'[m].status = "none" => lead'[m].welcome = "no"
  <2>1. /\ [lead[l] EXCEPT !.welcome = mark, !.quiet = FALSE] \in Row
        /\ [lead[l] EXCEPT !.welcome = mark, !.quiet = FALSE].status = lead[l].status
    <3>1. lead[l] \in Row
      BY <1>1 DEF Columns
    <3> QED
      BY <3>1 DEF Row
  <2>2. lead[l].status # "none"
    BY <1>1, <1>a, <1>7 DEF Greetings
  <2> HIDE DEF Row
  <2> QED
    BY <1>1, <1>7, <2>1, <2>2 DEF Columns
<1>8. CASE Greet(t, l)
  <2>1. /\ greeting[t] = l /\ EndTick(t) /\ UNCHANGED <<cancelling, remarketing, history>>
        /\ lead' = [lead EXCEPT ![l] = [lead[l] EXCEPT !.welcome = "sent", !.quiet = FALSE]]
    BY <1>1, <1>8 DEF Greet, Columns
  <2> QED
    BY <1>1, <1>6, <1>7, <2>1 DEF Columns, history
<1>9. CASE Postpone(t, l)
  <2>1. PICK mark \in {"no", "waits", "due", "sent"} :
           lead' = [lead EXCEPT ![l] = [lead[l] EXCEPT !.welcome = mark, !.quiet = FALSE]]
    <3> DEFINE mark == IF lead[l].welcome = "sent" THEN lead[l].welcome ELSE "waits"
    <3>1. mark \in {"no", "waits", "due", "sent"}
      OBVIOUS
    <3>2. lead' = [lead EXCEPT ![l] = [lead[l] EXCEPT !.welcome = mark, !.quiet = FALSE]]
      BY <1>1, <1>9 DEF Postpone, Columns
    <3> QED
      BY <3>1, <3>2
  <2>2. /\ greeting[t] = l /\ EndTick(t) /\ UNCHANGED <<cancelling, remarketing, history>>
    BY <1>9 DEF Postpone, ToGreet
  <2> QED
    BY <1>1, <1>6, <1>7, <2>1, <2>2 DEF Columns, history
<1>10. CASE WelcomeBreaks(t, l)
  <2>1. unsure' = unsure \/ unsure' = [unsure EXCEPT ![l] = unsure[l] + 1]
    BY <1>10, LossCounts DEF WelcomeBreaks
  <2>2. unsure' \in [People -> Nat]
    BY <1>1, <2>1, OneMoreIsCount DEF Columns
  <2> QED
    BY <1>1, <1>6, <1>10, <2>2 DEF WelcomeBreaks, Columns
<1> QED
  BY <1>3, <1>4, <1>5, <1>8, <1>9, <1>10 DEF Welcome

\* A step keeps the types.
LEMMA FunnelTypesStay ==
  ASSUME FunnelTypes, [Next]_vars
  PROVE  FunnelTypes'
<1>1. CASE UNCHANGED vars
  <2>1. Columns /\ Batches /\ Greetings
    BY TypesAreParts
  <2>2. Columns' /\ Batches' /\ Greetings'
    BY <1>1, <2>1 DEF vars, remarketing, welcoming, history, Columns, Batches, Greetings
  <2> QED
    BY <2>2, PartsAreTypesNext
<1> QED
  BY <1>1, PeopleKeepTypes, RemarketingKeepsTypes, WelcomeKeepsTypes DEF Next


-----------------------------------------------------------------------------
(* Everybody is written to once for each visit *)

\* With one process, its batch is all there is.
LEMMA OneBatch ==
  ASSUME OneProcess, NEW p \in Processes
  PROVE  /\ \A l : Written(l) <=> sent[p] /\ Head(batch[p]).who = l
         /\ \A l : Waits(l) <=> \E i \in 1..Len(batch[p]) : batch[p][i].who = l
         /\ \A l : Written(l)' <=> sent'[p] /\ Head(batch'[p]).who = l
         /\ \A l : Waits(l)' <=> \E i \in 1..Len(batch'[p]) : batch'[p][i].who = l
<1>1. \A q \in Processes : q = p
  BY DEF OneProcess
<1> QED
  BY <1>1 DEF Written, Waits

\* A step keeps a person from being in a batch twice.
LEMMA NoneTwiceStays ==
  ASSUME FunnelTypes, NoneTwice, [Next]_vars
  PROVE  NoneTwice'
<1> USE DEF NoneTwice, vars, remarketing, welcoming, history
<1>1. batch \in [Processes -> SeqOf(Contact, PerRun)]
  BY DEF FunnelTypes, TypeOK, Contact
<1>2. ASSUME NEW p \in Processes, NEW b, batch' = [batch EXCEPT ![p] = b],
             \A i, k \in 1..Len(b) : b[i].who = b[k].who => i = k
      PROVE  NoneTwice'
  BY <1>1, <1>2
<1>3. CASE UNCHANGED batch
  BY <1>3
<1>4. ASSUME NEW l \in People, Person(l) \/ OrderCancelled(l) \/ CancellationRead(l)
      PROVE  NoneTwice'
  BY <1>3, <1>4, PersonSaves DEF Save, CancellationRead
<1>5. CASE Elapse
  BY <1>3, <1>5 DEF Elapse
<1>6. ASSUME NEW p \in Processes, StartBatch(p)
      PROVE  NoneTwice'
  BY <1>2, <1>6, StartedBatch DEF IsBatch
<1>7. ASSUME NEW p \in Processes, batch[p] # <<>>, NextContact(p)
      PROVE  NoneTwice'
  <2>1. /\ Len(Tail(batch[p])) = Len(batch[p]) - 1 /\ Len(batch[p]) \in Nat
        /\ \A i \in 1..(Len(batch[p]) - 1) : Tail(batch[p])[i] = batch[p][i + 1]
    BY <1>7, BatchIsSequence
  <2>2. \A i, k \in 1..Len(Tail(batch[p])) :
           Tail(batch[p])[i].who = Tail(batch[p])[k].who => i = k
    <3> SUFFICES ASSUME NEW i \in 1..(Len(batch[p]) - 1), NEW k \in 1..(Len(batch[p]) - 1),
                        batch[p][i + 1].who = batch[p][k + 1].who
                 PROVE  i = k
      BY <2>1
    <3>1. i + 1 \in 1..Len(batch[p]) /\ k + 1 \in 1..Len(batch[p])
      BY <2>1
    <3>2. i + 1 = k + 1
      BY <3>1
    <3> QED
      BY <2>1, <3>2
  <2> QED
    BY <1>2, <1>7, <2>2 DEF NextContact
<1>8. ASSUME NEW p \in Processes, WriteStage(p)
      PROVE  NoneTwice'
  BY <1>7, <1>8 DEF WriteStage, FunnelTypes
<1>9. ASSUME NEW p \in Processes, BatchBreaks(p)
      PROVE  NoneTwice'
  <2>1. batch' = [batch EXCEPT ![p] = <<>>]
    BY <1>9 DEF BatchBreaks
  <2> QED
    BY <1>2, <2>1
<1>10. ASSUME NEW p \in Processes, NEW l \in People, NotDelivered(p, l)
       PROVE  NoneTwice'
  BY <1>7, <1>10 DEF NotDelivered, ToContact
<1>11. ASSUME NEW p \in Processes, NEW l \in People,
              Delivered(p, l) \/ Unanswered(p, l)
       PROVE  NoneTwice'
  BY <1>3, <1>11 DEF Delivered, Unanswered
<1>12. ASSUME NEW t \in WelcomeTicks, NEW l \in People, Welcome(t, l)
       PROVE  NoneTwice'
  BY <1>3, <1>12 DEF Welcome, FindReader, WelcomeDelivered, WelcomeUnanswered, Greet, Postpone,
                     WelcomeBreaks
<1> QED
  BY <1>3, <1>4, <1>5, <1>6, <1>8, <1>9, <1>10, <1>11, <1>12 DEF Next, Remarketing

\* A visit is counted before a row opens, and a message before it is no longer owed.
LEMMA VisitsSufficeStay ==
  ASSUME OneProcess, FunnelTypes, FunnelTypes', NoneTwice, VisitsSuffice, [Next]_vars
  PROVE  VisitsSuffice'
<1> DEFINE Suffices(l) == contacts'[l] + (IF Owed(l)' THEN 1 ELSE 0) <= asked'[l] + unsure'[l]
<1>1. /\ \A l \in People : /\ contacts[l] \in Nat /\ asked[l] \in Nat /\ unsure[l] \in Nat
                           /\ contacts'[l] \in Nat /\ asked'[l] \in Nat /\ unsure'[l] \in Nat
                           /\ contacts[l] + (IF Owed(l) THEN 1 ELSE 0) <= asked[l] + unsure[l]
      /\ contacts \in [People -> Nat] /\ asked \in [People -> Nat] /\ unsure \in [People -> Nat]
      /\ lead \in [People -> Row] /\ batch \in [Processes -> SeqOf(Contact, PerRun)]
      /\ sent \in [Processes -> BOOLEAN]
      /\ \A p \in Processes : sent[p] => batch[p] # <<>>
  BY DEF FunnelTypes, TypeOK, VisitsSuffice, Contact, Row
<1>2. SUFFICES ASSUME NEW l \in People PROVE Suffices(l)
  BY DEF VisitsSuffice
\* Nothing is counted and nothing is opened.
<1>3. ASSUME Owed(l)' => Owed(l), UNCHANGED <<contacts, asked, unsure>>
      PROVE  Suffices(l)
  BY <1>1, <1>3
<1>4. ASSUME UNCHANGED <<lead, batch, sent, contacts, asked, unsure>>
      PROVE  Suffices(l)
  BY <1>3, <1>4 DEF Owed, Written, Waits
<1>5. ASSUME NEW m \in People, Person(m) \/ OrderCancelled(m)
      PROVE  Suffices(l)
  <2>1. PICK row, invites : invites \in BOOLEAN /\ MayBecome(m, row, invites) /\ Save(m, row, invites)
    BY <1>5, PersonSaves
  <2>2. /\ lead' = [lead EXCEPT ![m] = [row EXCEPT !.quiet = FALSE]]
        /\ asked' = IF invites THEN [asked EXCEPT ![m] = asked[m] + 1] ELSE asked
        /\ UNCHANGED <<batch, sent, contacts, unsure>>
    BY <2>1 DEF Save, remarketing
  <2>3. Written(l)' = Written(l) /\ Waits(l)' = Waits(l)
    BY <2>2 DEF Written, Waits
  <2>4. CASE l # m
    BY <1>1, <1>3, <2>2, <2>3, <2>4 DEF Owed
  <2>5. CASE l = m /\ invites
    <3>1. asked'[l] = asked[l] + 1 /\ contacts'[l] = contacts[l] /\ unsure'[l] = unsure[l]
      BY <1>1, <2>2, <2>5
    <3>2. contacts[l] <= asked[l] + unsure[l]
      <4>1. CASE Owed(l)
        BY <1>1, <4>1
      <4>2. CASE ~Owed(l)
        BY <1>1, <4>2
      <4> QED
        BY <4>1, <4>2
    <3>3. contacts'[l] + 1 <= asked'[l] + unsure'[l]
      BY <1>1, <3>1, <3>2
    <3>4. CASE Owed(l)'
      BY <3>3, <3>4
    <3>5. CASE ~Owed(l)'
      BY <1>1, <3>3, <3>5
    <3> QED
      BY <3>4, <3>5
  <2>6. CASE l = m /\ ~invites
    <3>1. IsOpen(lead'[l]) => IsOpen(lead[l])
      BY <1>1, <2>1, <2>2, <2>6 DEF MayBecome, IsOpen, Row
    <3> QED
      BY <1>3, <2>2, <2>3, <2>6, <3>1 DEF Owed
  <2> QED
    BY <2>4, <2>5, <2>6
<1>6. CASE Elapse
  <2>1. IsOpen(lead'[l]) => IsOpen(lead[l])
    BY <1>1, <1>6 DEF Elapse, IsOpen, Row
  <2>2. UNCHANGED <<batch, sent, contacts, asked, unsure>>
    BY <1>6 DEF Elapse, remarketing, history
  <2> QED
    BY <1>3, <2>1, <2>2 DEF Owed, Written, Waits
<1>7. ASSUME NEW p \in Processes, StartBatch(p)
      PROVE  Suffices(l)
  <2>1. PICK b : batch' = [batch EXCEPT ![p] = b] /\ IsBatch(b)
    BY <1>7, StartedBatch
  <2>2. UNCHANGED <<lead, sent, contacts, asked, unsure>> /\ ~sent[p]
    BY <1>1, <1>7 DEF StartBatch, history
  <2>3. batch'[p] = b
    BY <1>1, <2>1
  <2>4. ~Written(l) /\ (Waits(l)' => IsOpen(lead[l]))
    BY <2>1, <2>2, <2>3, OneBatch DEF IsBatch
  <2> QED
    BY <1>3, <2>2, <2>4 DEF Owed
<1>8. ASSUME NEW p \in Processes, WriteStage(p)
      PROVE  Suffices(l)
  <2>1. /\ sent[p] /\ batch[p] # <<>>
        /\ lead' = [lead EXCEPT ![Head(batch[p]).who] = Advanced(p)]
        /\ sent' = [sent EXCEPT ![p] = FALSE] /\ batch' = [batch EXCEPT ![p] = Tail(batch[p])]
        /\ UNCHANGED <<contacts, asked, unsure>>
    BY <1>1, <1>8 DEF WriteStage, NextContact, history
  <2>2. /\ Head(batch[p]) = batch[p][1] /\ 1 \in 1..Len(batch[p]) /\ batch[p][1] \in Contact
        /\ Len(Tail(batch[p])) = Len(batch[p]) - 1 /\ Len(batch[p]) \in Nat
        /\ \A i \in 1..(Len(batch[p]) - 1) :
              Tail(batch[p])[i] = batch[p][i + 1] /\ i + 1 \in 1..Len(batch[p]) /\ i + 1 # 1
    BY <2>1, BatchIsSequence
  <2>3. batch'[p] = Tail(batch[p])
    BY <1>1, <2>1
  <2>4. Waits(l)' => Waits(l) /\ l # batch[p][1].who
    <3>0. Waits(l)' <=> \E i \in 1..Len(Tail(batch[p])) : Tail(batch[p])[i].who = l
      <4>1. Waits(l)' <=> \E i \in 1..Len(batch'[p]) : batch'[p][i].who = l
        BY OneBatch
      <4> QED
        BY <2>3, <4>1
    <3> SUFFICES ASSUME NEW i \in 1..(Len(batch[p]) - 1), Tail(batch[p])[i].who = l
                 PROVE  Waits(l) /\ l # batch[p][1].who
      BY <2>2, <3>0
    <3>1. batch[p][i + 1].who = l /\ i + 1 \in 1..Len(batch[p]) /\ i + 1 # 1
      BY <2>2
    <3>2. batch[p][1].who # l
      BY <2>2, <3>1 DEF NoneTwice
    <3> QED
      BY <3>1, <3>2, OneBatch
  <2>5. CASE l = batch[p][1].who
    <3>1. lead'[l] = Advanced(p)
      BY <1>1, <2>1, <2>2, <2>5
    <3>2. ~IsOpen(lead'[l])
      <4>1. Advanced(p).stage \in {"visitor_sent", "checkout_failed_sent"}
        <5>1. batch[p][1].kind \in {"visitor", "checkout"} /\ lead[l] \in Row
          BY <1>1, <2>2 DEF Contact
        <5> QED
          <6>1. PICK k \in {"visitor", "checkout"} : Head(batch[p]).kind = k
            BY <2>2, <5>1
          <6>2. SentStage[k] \in {"visitor_sent", "checkout_failed_sent"}
            BY DEF SentStage
          <6>3. Advanced(p) = [lead[l] EXCEPT !.stage = SentStage[k], !.quiet = FALSE]
            BY <2>2, <2>5, <6>1 DEF Advanced
          <6> QED
            BY <5>1, <6>2, <6>3 DEF Row
      <4> QED
        BY <3>1, <4>1 DEF IsOpen
    <3> QED
      BY <1>3, <2>1, <2>4, <2>5, <3>2 DEF Owed
  <2>6. CASE l # batch[p][1].who
    <3>1. lead'[l] = lead[l]
      BY <1>1, <2>1, <2>2, <2>6
    <3>2. ~Written(l)
      BY <2>2, <2>6, OneBatch
    <3> QED
      BY <1>3, <2>1, <2>4, <3>1, <3>2 DEF Owed
  <2> QED
    BY <2>5, <2>6
<1>9. ASSUME NEW p \in Processes, BatchBreaks(p)
      PROVE  Suffices(l)
  <2>1. /\ batch[p] # <<>> /\ batch' = [batch EXCEPT ![p] = <<>>]
        /\ sent' = [sent EXCEPT ![p] = FALSE]
        /\ UNCHANGED <<lead, contacts, asked>>
    BY <1>9 DEF BatchBreaks
  <2>2. Head(batch[p]).who \in People
    BY <2>1, BatchIsSequence DEF Contact
  <2>3. unsure' = IF sent[p] THEN [unsure EXCEPT ![Head(batch[p]).who] = unsure[Head(batch[p]).who] + 1]
                  ELSE unsure
    BY <1>9, <2>2, LossCounts DEF BatchBreaks
  <2>4. ~Waits(l)'
    <3>1. Len(batch'[p]) = 0
      BY <1>1, <2>1
    <3> QED
      BY <3>1, OneBatch
  <2>5. CASE Written(l)
    <3>1. unsure'[l] = unsure[l] + 1
      BY <1>1, <2>3, <2>5, OneBatch
    <3> QED
      BY <1>1, <2>1, <2>5, <3>1 DEF Owed
  <2>6. CASE ~Written(l)
    <3>1. unsure'[l] = unsure[l]
      BY <1>1, <2>2, <2>3, <2>6, OneBatch
    <3>2. Owed(l)' => Owed(l)
      BY <2>1, <2>4, <2>6 DEF Owed
    <3> QED
      BY <1>1, <2>1, <3>1, <3>2
  <2> QED
    BY <2>5, <2>6
<1>10. ASSUME NEW p \in Processes, NEW m \in People, Delivered(p, m)
       PROVE  Suffices(l)
  <2>1. /\ batch[p] # <<>> /\ ~sent[p] /\ Head(batch[p]).who = m
        /\ contacts' = [contacts EXCEPT ![m] = contacts[m] + 1]
        /\ sent' = [sent EXCEPT ![p] = TRUE]
        /\ UNCHANGED <<lead, batch, asked, unsure>>
    BY <1>10 DEF Delivered, ToContact
  <2>2. ~Written(l) /\ (Waits(l)' <=> Waits(l)) /\ (Written(l)' <=> m = l)
    <3>1. sent'[p] = TRUE /\ batch'[p] = batch[p]
      BY <1>1, <2>1
    <3>2. ~Written(l) /\ (Written(l)' <=> Head(batch[p]).who = l)
      BY <2>1, <3>1, OneBatch
    <3>3. Waits(l)' <=> Waits(l)
      BY <3>1, OneBatch
    <3> QED
      BY <2>1, <3>2, <3>3
  <2>3. CASE l = m
    <3>1. Waits(l)
      BY <2>1, <2>3, OneBatch, BatchIsSequence
    <3> QED
      BY <1>1, <2>1, <2>2, <2>3, <3>1 DEF Owed
  <2>4. CASE l # m
    <3>1. contacts'[l] = contacts[l]
      BY <1>1, <2>1, <2>4
    <3>2. Owed(l)' => Owed(l)
      BY <2>1, <2>2 DEF Owed
    <3> QED
      BY <1>1, <2>1, <3>1, <3>2
  <2> QED
    BY <2>3, <2>4
<1>11. ASSUME NEW p \in Processes, NEW m \in People, NotDelivered(p, m)
       PROVE  Suffices(l)
  <2>1. /\ batch[p] # <<>> /\ ~sent[p] /\ batch' = [batch EXCEPT ![p] = Tail(batch[p])]
        /\ UNCHANGED <<lead, sent, asked, contacts, unsure>>
    BY <1>11 DEF NotDelivered, ToContact, NextContact, history
  <2>2. ~Written(l) /\ (Waits(l)' => Waits(l))
    <3>1. batch'[p] = Tail(batch[p])
      BY <1>1, <2>1
    <3>2. /\ Len(Tail(batch[p])) = Len(batch[p]) - 1
          /\ \A i \in 1..(Len(batch[p]) - 1) :
                Tail(batch[p])[i] = batch[p][i + 1] /\ i + 1 \in 1..Len(batch[p])
      BY <2>1, BatchIsSequence
    <3> QED
      BY <2>1, <3>1, <3>2, OneBatch
  <2>3. Owed(l)' => Owed(l)
    BY <2>1, <2>2 DEF Owed
  <2> QED
    BY <1>3, <2>1, <2>3
\* A message is counted with its lost answer, or an answer is lost.
<1>12. ASSUME Owed(l)' => Owed(l), UNCHANGED asked, NEW m \in People,
              \/ contacts' = [contacts EXCEPT ![m] = contacts[m] + 1]
              \/ contacts' = contacts,
              unsure' = [unsure EXCEPT ![m] = unsure[m] + 1]
       PROVE  Suffices(l)
  <2>1. /\ asked'[l] = asked[l]
        /\ \/ contacts'[l] = contacts[l] /\ unsure'[l] \in {unsure[l], unsure[l] + 1}
           \/ contacts'[l] = contacts[l] + 1 /\ unsure'[l] = unsure[l] + 1
    <3>1. CASE l = m
      BY <1>1, <1>12, <3>1
    <3>2. CASE l # m
      BY <1>1, <1>12, <3>2
    <3> QED
      BY <3>1, <3>2
  <2> DEFINE before == IF Owed(l) THEN 1 ELSE 0
             after == IF Owed(l)' THEN 1 ELSE 0
  <2>2. /\ before \in {0, 1} /\ after \in {0, 1} /\ after <= before
        /\ contacts[l] + before <= asked[l] + unsure[l]
    BY <1>1, <1>12
  <2> HIDE DEF before, after
  <2>3. contacts'[l] + after <= asked'[l] + unsure'[l]
    <3>1. contacts[l] \in Nat /\ asked[l] \in Nat /\ unsure[l] \in Nat
      BY <1>1
    <3> QED
      BY <2>1, <2>2, <3>1
  <2> QED
    BY <2>3 DEF after
<1>13. ASSUME NEW p \in Processes, NEW m \in People, Unanswered(p, m)
       PROVE  Suffices(l)
  <2>1. /\ contacts' = [contacts EXCEPT ![m] = contacts[m] + 1]
        /\ unsure' = [unsure EXCEPT ![m] = unsure[m] + 1]
        /\ UNCHANGED <<lead, batch, sent, asked>>
    BY <1>13, LossCounts DEF Unanswered, remarketing
  <2>2. Owed(l)' => Owed(l)
    BY <2>1 DEF Owed, Written, Waits
  <2> QED
    BY <1>12, <2>1, <2>2
<1>14. ASSUME NEW t \in WelcomeTicks, NEW m \in People, Welcome(t, m)
       PROVE  Suffices(l)
  <2>1. UNCHANGED <<batch, sent, asked, contacts>>
    BY <1>14 DEF Welcome, FindReader, WelcomeDelivered, WelcomeUnanswered, Greet, Postpone,
                 WelcomeBreaks, remarketing, history
  <2>2. unsure' = unsure \/ unsure' = [unsure EXCEPT ![m] = unsure[m] + 1]
    BY <1>14, LossCounts DEF Welcome, FindReader, WelcomeDelivered, WelcomeUnanswered, Greet,
                             Postpone, WelcomeBreaks, history
  <2>3. IsOpen(lead'[l]) => IsOpen(lead[l])
    <3>1. CASE lead' = lead
      BY <3>1
    <3>2. ASSUME NEW mark,
                 lead' = [lead EXCEPT ![m] = [lead[m] EXCEPT !.welcome = mark, !.quiet = FALSE]]
          PROVE  IsOpen(lead'[l]) => IsOpen(lead[l])
      BY <1>1, <3>2 DEF IsOpen, Row
    <3>3. CASE Greet(t, m)
      BY <1>1, <3>2, <3>3 DEF Greet
    <3>4. CASE Postpone(t, m)
      <4> DEFINE mark == IF lead[m].welcome = "sent" THEN lead[m].welcome ELSE "waits"
      <4>1. lead' = [lead EXCEPT ![m] = [lead[m] EXCEPT !.welcome = mark, !.quiet = FALSE]]
        BY <1>1, <3>4 DEF Postpone
      <4> HIDE DEF mark
      <4> QED
        BY <3>2, <4>1
    <3> QED
      BY <1>14, <3>1, <3>3, <3>4 DEF Welcome, FindReader, WelcomeDelivered, WelcomeUnanswered,
                                     WelcomeBreaks
  <2>4. Owed(l)' => Owed(l)
    BY <2>1, <2>3 DEF Owed, Written, Waits
  <2> QED
    BY <1>3, <1>12, <2>1, <2>2, <2>4
<1>15. ASSUME NEW m \in People, CancellationRead(m)
       PROVE  Suffices(l)
  BY <1>4, <1>15 DEF CancellationRead, remarketing, history
<1>16. CASE UNCHANGED vars
  BY <1>4, <1>16 DEF vars, remarketing, history
<1> QED
  BY <1>5, <1>6, <1>7, <1>8, <1>9, <1>10, <1>11, <1>13, <1>14, <1>15, <1>16 DEF Next, Remarketing


-----------------------------------------------------------------------------
(* The welcome *)

\* A welcome is written, or is about to be.
Done(l) == lead[l].welcome = "sent" \/ Greeted(l)

\* Whoever is found is the only one, and is due until it is written.
LEMMA WelcomesSufficeStay ==
  ASSUME ~Overlapping, FunnelTypes, FunnelTypes', WelcomesSuffice, [Next]_vars
  PROVE  WelcomesSuffice'
<1>1. /\ \A l \in People : /\ welcomes[l] \in Nat /\ unsure[l] \in Nat
                           /\ welcomes[l] + (IF Done(l) THEN 0 ELSE 1) <= 1 + unsure[l]
      /\ welcomes \in [People -> Nat] /\ unsure \in [People -> Nat] /\ None \notin People
      /\ lead \in [People -> Row]
      /\ greeting \in [WelcomeTicks -> People \cup {None}] /\ greeted \in [WelcomeTicks -> BOOLEAN]
      /\ \A t \in WelcomeTicks : greeted[t] => greeting[t] # None
      /\ \A t, u \in WelcomeTicks : greeting[t] # None /\ greeting[u] # None => t = u
      /\ \A t \in WelcomeTicks : greeting[t] # None => lead[greeting[t]].welcome = "due"
  BY FunnelAssumption DEF FunnelAssumption, People, FunnelTypes, TypeOK, WelcomesSuffice, Row, Done
<1>2. ASSUME \A t, u \in WelcomeTicks : greeting'[t] # None /\ greeting'[u] # None => t = u,
             \A t \in WelcomeTicks : greeting'[t] # None => lead'[greeting'[t]].welcome = "due",
             \A l \in People : welcomes'[l] + (IF Done(l)' THEN 0 ELSE 1) <= 1 + unsure'[l]
      PROVE  WelcomesSuffice'
  BY <1>2 DEF WelcomesSuffice, Done
\* A step that greets nobody and finds nobody.
<1>3. ASSUME UNCHANGED <<welcoming, welcomes>>,
             \A l \in People : /\ unsure'[l] \in Nat /\ unsure'[l] >= unsure[l]
                               /\ lead'[l].welcome = "sent" <=> lead[l].welcome = "sent"
                               /\ lead[l].welcome = "due" => lead'[l].welcome = "due"
      PROVE  WelcomesSuffice'
  <2>1. UNCHANGED <<greeting, greeted, welcomes>>
    BY <1>3 DEF welcoming
  <2>2. \A t \in WelcomeTicks : greeting'[t] # None => lead'[greeting'[t]].welcome = "due"
    BY <1>1, <1>3, <2>1
  <2>3. ASSUME NEW l \in People PROVE Done(l)' <=> Done(l)
    BY <1>3, <2>1 DEF Done, Greeted
  <2>4. ASSUME NEW l \in People
        PROVE  welcomes'[l] + (IF Done(l)' THEN 0 ELSE 1) <= 1 + unsure'[l]
    BY <1>1, <1>3, <2>1, <2>3
  <2> QED
    BY <1>1, <1>2, <2>1, <2>2, <2>4
<1>4. ASSUME UNCHANGED <<welcoming, welcomes, lead, unsure>>
      PROVE  WelcomesSuffice'
  BY <1>1, <1>3, <1>4
<1>5. ASSUME NEW l \in People, Person(l) \/ OrderCancelled(l)
      PROVE  WelcomesSuffice'
  <2>1. PICK row, invites : MayBecome(l, row, invites) /\ Save(l, row, invites)
    BY <1>5, PersonSaves
  <2>2. /\ lead' = [lead EXCEPT ![l] = [row EXCEPT !.quiet = FALSE]]
        /\ UNCHANGED <<welcoming, welcomes, unsure>>
    BY <2>1 DEF Save
  <2>3. \A m \in People : /\ lead'[m].welcome = "sent" <=> lead[m].welcome = "sent"
                          /\ lead[m].welcome = "due" => lead'[m].welcome = "due"
    BY <1>1, <2>1, <2>2 DEF MayBecome, Row
  <2> QED
    BY <1>1, <1>3, <2>2, <2>3
<1>6. CASE Elapse
  <2>1. \A m \in People : /\ lead'[m].welcome = "sent" <=> lead[m].welcome = "sent"
                          /\ lead[m].welcome = "due" => lead'[m].welcome = "due"
    BY <1>1, <1>6 DEF Elapse, Row
  <2>2. UNCHANGED <<welcoming, welcomes, unsure>>
    BY <1>6 DEF Elapse, history
  <2> QED
    BY <1>1, <1>3, <2>1, <2>2
<1>7. ASSUME NEW p \in Processes, WriteStage(p)
      PROVE  WelcomesSuffice'
  <2>1. /\ lead' = [lead EXCEPT ![Head(batch[p]).who] = Advanced(p)]
        /\ UNCHANGED <<welcoming, welcomes, unsure>>
    BY <1>7 DEF WriteStage, history
  <2>2. Head(batch[p]).who \in People
    BY <1>7, BatchIsSequence DEF WriteStage, FunnelTypes, Contact
  <2>3. Advanced(p).welcome = lead[Head(batch[p]).who].welcome
    <3>1. lead[Head(batch[p]).who] \in Row
      BY <1>1, <2>2
    <3> QED
      BY <3>1 DEF Advanced, Row
  <2>4. \A m \in People : lead'[m].welcome = lead[m].welcome
    BY <1>1, <2>1, <2>2, <2>3
  <2> QED
    BY <1>1, <1>3, <2>1, <2>4
<1>8. ASSUME \/ \E l \in People : CancellationRead(l)
             \/ \E p \in Processes : \/ StartBatch(p)
                                     \/ \E l \in People : Delivered(p, l) \/ NotDelivered(p, l)
      PROVE  WelcomesSuffice'
  BY <1>4, <1>8 DEF CancellationRead, StartBatch, Delivered, NotDelivered, history
<1>9. ASSUME NEW l \in People, UNCHANGED <<welcoming, welcomes, lead>>,
             unsure' = unsure \/ unsure' = [unsure EXCEPT ![l] = unsure[l] + 1]
      PROVE  WelcomesSuffice'
  <2>1. \A m \in People : unsure'[m] \in Nat /\ unsure'[m] >= unsure[m]
    <3>1. CASE unsure' = unsure
      BY <1>1, <3>1
    <3>2. CASE unsure' = [unsure EXCEPT ![l] = unsure[l] + 1]
      BY <1>1, <3>2
    <3> QED
      BY <1>9, <3>1, <3>2
  <2> QED
    BY <1>3, <1>9, <2>1
<1>10. ASSUME NEW p \in Processes, NEW l \in People, Unanswered(p, l)
       PROVE  WelcomesSuffice'
  BY <1>9, <1>10, LossCounts DEF Unanswered
<1>11. ASSUME NEW p \in Processes, BatchBreaks(p)
       PROVE  WelcomesSuffice'
  <2>1. Head(batch[p]).who \in People /\ UNCHANGED <<welcoming, welcomes, lead>>
    BY <1>11, BatchIsSequence DEF BatchBreaks, Contact
  <2>2. unsure' = unsure \/ LosesCount(Head(batch[p]).who)
    BY <1>11 DEF BatchBreaks
  <2> QED
    BY <1>9, <2>1, <2>2, LossCounts
<1>12. ASSUME NEW t \in WelcomeTicks, NEW l \in People, Welcome(t, l)
       PROVE  WelcomesSuffice'
  <2>1. CASE FindReader(t, l)
    <3>1. /\ \A u \in WelcomeTicks : greeting[u] = None
          /\ lead[l].welcome = "due" /\ greeting' = [greeting EXCEPT ![t] = l]
          /\ UNCHANGED <<lead, greeted, welcomes, unsure>>
      BY <2>1 DEF FindReader, history
    <3>2. ASSUME NEW m \in People PROVE ~Greeted(m) /\ ~Greeted(m)'
      BY <1>1, <3>1 DEF Greeted
    <3>3. ASSUME NEW u \in WelcomeTicks, greeting'[u] # None
          PROVE  u = t /\ lead'[greeting'[u]].welcome = "due"
      BY <1>1, <3>1, <3>3
    <3>4. ASSUME NEW m \in People
          PROVE  welcomes'[m] + (IF Done(m)' THEN 0 ELSE 1) <= 1 + unsure'[m]
      <4>1. Done(m)' <=> Done(m)
        BY <3>1, <3>2 DEF Done
      <4> QED
        BY <1>1, <3>1, <4>1
    <3> QED
      BY <1>2, <3>3, <3>4
  \* From here on t has found l, and nobody else is found.
  <2>2. ASSUME greeting[t] = l
        PROVE  /\ lead[l].welcome = "due" /\ (Greeted(l) <=> greeted[t])
               /\ \A m \in People \ {l} : ~Greeted(m)
               /\ \A u \in WelcomeTicks \ {t} : greeting[u] = None /\ ~greeted[u]
    <3>1. ASSUME NEW u \in WelcomeTicks, u # t PROVE greeting[u] = None /\ ~greeted[u]
      BY <1>1, <2>2, <3>1
    <3> QED
      BY <1>1, <2>2, <3>1 DEF Greeted
  <2>3. ASSUME greeting[t] = l, EndTick(t),
               \A m \in People : welcomes'[m] = welcomes[m] /\ unsure'[m] \in Nat
                                 /\ unsure'[m] >= unsure[m],
               \A m \in People \ {l} : lead'[m] = lead[m],
               \/ greeted[t] /\ lead'[l].welcome = "sent"
               \/ ~greeted[t] /\ lead'[l].welcome # "sent"
               \/ unsure'[l] = unsure[l] + 1
        PROVE  WelcomesSuffice'
    <3>1. /\ greeting' = [greeting EXCEPT ![t] = None]
          /\ greeted' = [greeted EXCEPT ![t] = FALSE]
      BY <2>3 DEF EndTick
    <3>2. \A u \in WelcomeTicks : greeting'[u] = None /\ ~greeted'[u]
      BY <1>1, <2>2, <2>3, <3>1
    <3>3. \A m \in People : ~Greeted(m)'
      BY <3>2 DEF Greeted
    <3>4. ASSUME NEW m \in People
          PROVE  welcomes'[m] + (IF Done(m)' THEN 0 ELSE 1) <= 1 + unsure'[m]
      <4>1. CASE m # l
        <5>1. Done(m)' <=> Done(m)
          BY <2>2, <2>3, <3>3, <4>1 DEF Done
        <5> QED
          BY <1>1, <2>3, <5>1
      <4>2. CASE m = l
        <5>1. Done(l) <=> greeted[t]
          BY <2>2, <2>3 DEF Done
        <5>2. Done(l)' <=> lead'[l].welcome = "sent"
          BY <3>3 DEF Done
        <5> QED
          BY <1>1, <2>3, <4>2, <5>1, <5>2
      <4> QED
        BY <4>1, <4>2
    <3> QED
      BY <1>2, <3>2, <3>4
  <2>4. CASE WelcomeDelivered(t, l)
    <3>1. /\ greeting[t] = l /\ ~greeted[t] /\ UNCHANGED <<lead, greeting, unsure>>
          /\ greeted' = [greeted EXCEPT ![t] = TRUE]
          /\ welcomes' = [welcomes EXCEPT ![l] = welcomes[l] + 1]
      BY <2>4 DEF WelcomeDelivered, ToGreet
    <3>2. Greeted(l)' /\ \A m \in People \ {l} : ~Greeted(m)'
      BY <1>1, <2>2, <3>1 DEF Greeted
    <3>3. ASSUME NEW m \in People
          PROVE  welcomes'[m] + (IF Done(m)' THEN 0 ELSE 1) <= 1 + unsure'[m]
      <4>1. CASE m # l
        <5>1. Done(m)' <=> Done(m)
          BY <2>2, <3>1, <3>2, <4>1 DEF Done
        <5> QED
          BY <1>1, <3>1, <4>1, <5>1
      <4>2. CASE m = l
        <5>1. ~Done(l) /\ Done(l)'
          BY <2>2, <3>1, <3>2 DEF Done
        <5> QED
          BY <1>1, <3>1, <4>2, <5>1
      <4> QED
        BY <4>1, <4>2
    <3> QED
      BY <1>1, <1>2, <3>1, <3>3
  <2>5. CASE WelcomeUnanswered(t, l)
    <3>1. /\ welcomes' = [welcomes EXCEPT ![l] = welcomes[l] + 1]
          /\ unsure' = [unsure EXCEPT ![l] = unsure[l] + 1]
          /\ UNCHANGED <<lead, greeting, greeted>>
      BY <2>5, LossCounts DEF WelcomeUnanswered, welcoming
    <3>2. ASSUME NEW m \in People
          PROVE  welcomes'[m] + (IF Done(m)' THEN 0 ELSE 1) <= 1 + unsure'[m]
      <4>1. Done(m)' <=> Done(m)
        BY <3>1 DEF Done, Greeted
      <4> QED
        BY <1>1, <3>1, <4>1
    <3> QED
      BY <1>1, <1>2, <3>1, <3>2
  <2>6. CASE Greet(t, l)
    <3>1. /\ greeting[t] = l /\ greeted[t] /\ EndTick(t) /\ UNCHANGED <<welcomes, unsure>>
          /\ lead' = [lead EXCEPT ![l] = [lead[l] EXCEPT !.welcome = "sent", !.quiet = FALSE]]
      BY <1>1, <2>6 DEF Greet, history
    <3>2. lead'[l].welcome = "sent" /\ \A m \in People \ {l} : lead'[m] = lead[m]
      BY <1>1, <3>1 DEF Row
    <3> QED
      BY <1>1, <2>3, <3>1, <3>2
  <2>7. CASE Postpone(t, l)
    <3>1. /\ greeting[t] = l /\ ~greeted[t] /\ EndTick(t) /\ UNCHANGED <<welcomes, unsure>>
          /\ lead' = [lead EXCEPT ![l] = [lead[l] EXCEPT
                        !.welcome = IF lead[l].welcome = "sent" THEN lead[l].welcome ELSE "waits",
                        !.quiet = FALSE]]
      BY <1>1, <2>7 DEF Postpone, ToGreet, history
    <3>2. lead'[l].welcome # "sent" /\ \A m \in People \ {l} : lead'[m] = lead[m]
      BY <1>1, <2>2, <3>1 DEF Row
    <3> QED
      BY <1>1, <2>3, <3>1, <3>2
  <2>8. CASE WelcomeBreaks(t, l)
    <3>1. /\ greeting[t] = l /\ EndTick(t) /\ UNCHANGED <<lead, welcomes>>
          /\ \/ greeted[t] /\ unsure' = [unsure EXCEPT ![l] = unsure[l] + 1]
             \/ ~greeted[t] /\ unsure' = unsure
      BY <2>8, LossCounts DEF WelcomeBreaks
    <3>2. lead'[l].welcome # "sent"
      BY <2>2, <3>1
    <3>3. \A m \in People : unsure'[m] \in Nat /\ unsure'[m] >= unsure[m]
      BY <1>1, <3>1
    <3>4. greeted[t] => unsure'[l] = unsure[l] + 1
      BY <1>1, <3>1
    <3> QED
      BY <2>3, <3>1, <3>2, <3>3, <3>4
  <2> QED
    BY <1>12, <2>1, <2>4, <2>5, <2>6, <2>7, <2>8 DEF Welcome
<1>13. CASE UNCHANGED vars
  BY <1>4, <1>13 DEF vars, history
<1> QED
  BY <1>5, <1>6, <1>7, <1>8, <1>10, <1>11, <1>12, <1>13 DEF Next, Remarketing

-----------------------------------------------------------------------------
(* What holds of every behaviour *)

\* The columns and the ticks hold what they can hold, for any number of people and
\* processes, and a batch is within its cap.
THEOREM FunnelIsTyped == Spec => []TypeOK
<1>1. Init => FunnelTypes
  BY FunnelInit DEF FunnelInv
<1>2. FunnelTypes /\ [Next]_vars => FunnelTypes'
  BY FunnelTypesStay
<1>3. FunnelTypes => TypeOK
  BY DEF FunnelTypes
<1> QED
  BY <1>1, <1>2, <1>3, PTL DEF Spec

\* A step keeps the invariant if one process runs the remarketing and the ticks of the
\* welcome do not overlap.
LEMMA FunnelNext ==
  ASSUME OneProcess, ~Overlapping, FunnelInv, [Next]_vars
  PROVE  FunnelInv'
BY FunnelTypesStay, NoneTwiceStays, VisitsSufficeStay, WelcomesSufficeStay DEF FunnelInv

\* Contacts are within what the invariant allows.
LEMMA FunnelContacts == FunnelInv => ContactedOnce
<1> SUFFICES ASSUME FunnelInv, NEW l \in People
             PROVE  contacts[l] <= asked[l] + unsure[l] /\ welcomes[l] <= 1 + unsure[l]
  BY DEF ContactedOnce
<1>1. contacts[l] \in Nat /\ asked[l] \in Nat /\ unsure[l] \in Nat /\ welcomes[l] \in Nat
  BY DEF FunnelInv, FunnelTypes, TypeOK
<1> QED
  BY <1>1 DEF FunnelInv, VisitsSuffice, WelcomesSuffice

\* Nobody gets more messages than visits and lost outcomes, nor more than one welcome
\* and the lost outcomes, whatever people do while a batch they are in waits: if one
\* process runs the remarketing (which has a flag of its own) and every tick of the
\* welcome ends before the next one comes, which nothing in the code sees to.
THEOREM WrittenToOnce == OneProcess /\ ~Overlapping => (Spec => []ContactedOnce)
<1> SUFFICES ASSUME OneProcess, ~Overlapping PROVE Spec => []ContactedOnce
  OBVIOUS
<1>1. Init => FunnelInv
  BY FunnelInit
<1>2. FunnelInv /\ [Next]_vars => FunnelInv'
  BY FunnelNext
<1>3. FunnelInv => ContactedOnce
  BY FunnelContacts
<1> QED
  BY <1>1, <1>2, <1>3, PTL DEF Spec

\* The same of the composite that TLC checks, under the same two premises and for every
\* value of its other constants.
THEOREM FunnelHolds ==
  ASSUME OneProcess, ~Overlapping
  PROVE  MCSpec => [](TypeOK /\ ContactedOnce)
<1>1. MCInit => FunnelInv
  BY FunnelInit DEF MCInit
<1>2. FunnelInv /\ [MCNext]_<<part, vars>> => FunnelInv'
  BY FunnelNext DEF MCNext
<1>3. FunnelInv => TypeOK /\ ContactedOnce
  BY FunnelContacts DEF FunnelInv, FunnelTypes
<1> QED
  BY <1>1, <1>2, <1>3, PTL DEF MCSpec
=============================================================================
