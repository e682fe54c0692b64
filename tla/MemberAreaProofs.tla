--------------------------- MODULE MemberAreaProofs ---------------------------
(*************************************************************************)
(* What holds of what members use and belong to, whatever the number of  *)
(* orders, requests, messages and uploads: a section for each part, with *)
(* its inductive invariant.                                              *)
(*************************************************************************)
EXTENDS MCMemberArea, FiniteSetTheorems, SequenceTheorems, WellFoundedInduction, TLAPS

-----------------------------------------------------------------------------
(* The right to a course *)

\* What a request is about.
RequestInv ==
    \A h \in Handlers :
        /\ request[h].at = "free" <=> request[h].kind = "none"
        /\ request[h].at \in {"mark", "revoke"} <=> request[h].kind = "refund"
        /\ request[h].at = "record" => request[h].kind = "sale"
        /\ request[h].kind \in {"sale", "refund"} => request[h].order \in Orders
        /\ request[h].kind = "sale" => request[h].until = Sale!Forever
        /\ request[h].kind = "enrol" => request[h].order = Nothing

SaleTypes == Sale!TypeOK /\ RequestInv

\* An enrolment is the only grant under way.
EnrolsAlone ==
    \A h, g \in Handlers :
        request[h].kind = "enrol" /\ request[g].kind \in {"sale", "enrol"} => h = g

\* An enrolment that is about to write a date replaces no right for life: the row it
\* read had none, and is as it was unless it was deleted.
ReadHolds ==
    \A h \in Handlers :
        request[h].at = "write" /\ request[h].kind = "enrol" =>
            \/ request[h].until = Sale!Forever
            \/ request[h].read \in {Sale!Gone, Sale!NoRight}
            \/ right = request[h].read /\ right # Sale!Forever

\* A sale about to enter the books has given the right, unless it was taken away.
GrantedBeforeBooks ==
    \A h \in Handlers :
        request[h].at = "record" /\ request[h].order \notin cut => right = Sale!Forever

SaleInv == SaleTypes /\ EnrolsAlone /\ ReadHolds /\ GrantedBeforeBooks /\ BuyerHasCourse

\* The types hold at first.
LEMMA SaleTypesInit == Sale!Init => SaleTypes
<1> SUFFICES ASSUME Sale!Init PROVE SaleTypes
  OBVIOUS
<1>1. Sale!Free \in Sale!Request
  BY SaleAssumption DEF Sale!Free, Sale!Request, Sale!NoRight, Sale!Gone, Sale!Forever
<1>2. request \in [Handlers -> Sale!Request]
  BY <1>1 DEF Sale!Init
<1>a. RequestInv
  BY DEF Sale!Init, RequestInv, Sale!Free
<1>3. right \in Sale!NoRight..Sale!Forever /\ day \in 1..LastDay /\ faults \in 0..MaxFaults
  BY SaleAssumption DEF Sale!Init, Sale!NoRight, Sale!Forever
<1>4. account \in BOOLEAN /\ cut \subseteq Orders
  BY Zenon DEF Sale!Init
<1>5. tx \in [Orders -> {"none", "approved", "refunded"}]
  BY DEF Sale!Init
<1> QED
  BY <1>2, <1>a, <1>3, <1>4, <1>5 DEF SaleTypes, Sale!TypeOK

\* A request that goes on keeps the types of the table of requests.
LEMMA RequestKeepsType ==
  ASSUME SaleTypes, NEW h \in Handlers, NEW r \in Sale!Request, request' = [request EXCEPT ![h] = r],
         r.at = "free" <=> r.kind = "none",
         r.at \in {"mark", "revoke"} <=> r.kind = "refund",
         r.at = "record" => r.kind = "sale",
         r.kind \in {"sale", "refund"} => r.order \in Orders,
         r.kind = "sale" => r.until = Sale!Forever,
         r.kind = "enrol" => r.order = Nothing
  PROVE  request' \in [Handlers -> Sale!Request] /\ RequestInv'
<1>1. request' \in [Handlers -> Sale!Request]
  BY DEF SaleTypes, Sale!TypeOK
<1>2. \A g \in Handlers : request'[g] = IF g = h THEN r ELSE request[g]
  BY DEF SaleTypes, Sale!TypeOK
<1> QED
  BY <1>1, <1>2 DEF SaleTypes, RequestInv

\* So does one that ends.
LEMMA EndKeepsType ==
  ASSUME SaleTypes, NEW h \in Handlers, Sale!End(h)
  PROVE  request' \in [Handlers -> Sale!Request] /\ RequestInv'
<1>1. Sale!Free \in Sale!Request
  BY SaleAssumption DEF Sale!Free, Sale!Request, Sale!NoRight, Sale!Gone, Sale!Forever
<1> QED
  BY <1>1, RequestKeepsType DEF Sale!End, Sale!Free

\* One that moves within its kind.
LEMMA GotoKeepsType ==
  ASSUME SaleTypes, NEW h \in Handlers,
         NEW point \in {"create", "read", "record", "revoke"}, Sale!Goto(h, point),
         point = "revoke" => request[h].kind = "refund",
         point = "record" => request[h].kind = "sale",
         point \in {"create", "read"} => request[h].kind \in {"sale", "enrol"}
  PROVE  request' \in [Handlers -> Sale!Request] /\ RequestInv'
<1>1. request[h] \in Sale!Request
  BY DEF SaleTypes, Sale!TypeOK
<1>2. [request[h] EXCEPT !.at = point] \in Sale!Request
  BY <1>1 DEF Sale!Request
<1>3. request' = [request EXCEPT ![h] = [request[h] EXCEPT !.at = point]]
  BY DEF Sale!Goto, SaleTypes, Sale!TypeOK
<1> QED
  BY <1>1, <1>2, <1>3, RequestKeepsType DEF SaleTypes, RequestInv, Sale!Request

\* And one that is taken up.
LEMMA ServeKeepsType ==
  ASSUME SaleTypes, NEW h \in Handlers,
         NEW kind \in {"sale", "enrol", "refund"}, NEW order \in Orders \cup {Nothing},
         NEW until \in Sale!NoRight..Sale!Forever, NEW point \in {"find", "mark"},
         Sale!Serve(h, kind, order, until, point),
         point = "mark" <=> kind = "refund",
         kind # "enrol" => order \in Orders,
         kind = "enrol" => order = Nothing,
         kind = "sale" => until = Sale!Forever
  PROVE  SaleTypes'
<1> DEFINE r == [kind |-> kind, at |-> point, order |-> order, until |-> until, read |-> Sale!NoRight]
<1>1. r \in Sale!Request
  BY SaleAssumption DEF Sale!Request, Sale!NoRight, Sale!Gone, Sale!Forever
<1>2. request' \in [Handlers -> Sale!Request] /\ RequestInv'
  BY <1>1, RequestKeepsType DEF Sale!Serve
<1> QED
  BY <1>2 DEF Sale!Serve, SaleTypes, Sale!TypeOK

\* The deletion of the row marks the requests that read it, and nothing else.
LEMMA DeleteKeepsType ==
  ASSUME NEW others \in [Handlers -> Sale!Request], Sale!DeleteRight(others)
  PROVE  /\ request' \in [Handlers -> Sale!Request]
         /\ right' \in Sale!NoRight..Sale!Forever
         /\ cut' \subseteq Orders
         /\ \A h \in Handlers : /\ request'[h].kind = others[h].kind
                                /\ request'[h].at = others[h].at
                                /\ request'[h].order = others[h].order
                                /\ request'[h].until = others[h].until
                                /\ request'[h].read \in {Sale!Gone, Sale!NoRight}
BY SaleAssumption DEF Sale!DeleteRight, Sale!Request, Sale!NoRight, Sale!Gone, Sale!Forever

\* A step keeps the types.
LEMMA SaleTypesNext ==
  ASSUME SaleTypes, [Sale!Next]_(Sale!vars)
  PROVE  SaleTypes'
<1>1. ASSUME NEW h \in Handlers, NEW o \in Orders, Sale!Approved(h, o) PROVE SaleTypes'
  BY <1>1, ServeKeepsType, SaleAssumption DEF Sale!Approved, Sale!NoRight, Sale!Forever
<1>2. ASSUME NEW h \in Handlers, NEW o \in Orders, Sale!Refunded(h, o) PROVE SaleTypes'
  BY <1>2, ServeKeepsType, SaleAssumption DEF Sale!Refunded, Sale!NoRight, Sale!Forever
<1>3. ASSUME NEW h \in Handlers, Sale!Enrol(h) PROVE SaleTypes'
  <2>1. PICK until \in {day + 1, Sale!Forever} : Sale!Serve(h, "enrol", Nothing, until, "find")
    BY <1>3 DEF Sale!Enrol
  <2>2. until \in Sale!NoRight..Sale!Forever
    BY SaleAssumption DEF SaleTypes, Sale!TypeOK, Sale!NoRight, Sale!Forever
  <2> QED
    BY <2>1, <2>2, ServeKeepsType
<1>4. ASSUME NEW h \in Handlers, Sale!FindAccount(h) PROVE SaleTypes'
  <2>1. request[h].kind \in {"sale", "enrol"}
    BY <1>4 DEF Sale!FindAccount, SaleTypes, Sale!TypeOK, RequestInv, Sale!Request
  <2>2. request' \in [Handlers -> Sale!Request] /\ RequestInv'
    BY <1>4, <2>1, GotoKeepsType DEF Sale!FindAccount
  <2> QED
    BY <1>4, <2>2 DEF Sale!FindAccount, SaleTypes, Sale!TypeOK
<1>5. ASSUME NEW h \in Handlers, Sale!CreateAccount(h) PROVE SaleTypes'
  <2>1. request[h].kind \in {"sale", "enrol"}
    BY <1>5 DEF Sale!CreateAccount, SaleTypes, Sale!TypeOK, RequestInv, Sale!Request
  <2>2. request' \in [Handlers -> Sale!Request] /\ RequestInv'
    BY <1>5, <2>1, GotoKeepsType, EndKeepsType DEF Sale!CreateAccount
  <2> QED
    BY <1>5, <2>2 DEF Sale!CreateAccount, SaleTypes, Sale!TypeOK
<1>6. ASSUME NEW h \in Handlers, Sale!ReadRight(h) PROVE SaleTypes'
  <2>1. request[h].kind \in {"sale", "enrol"}
    BY <1>6 DEF Sale!ReadRight, SaleTypes, Sale!TypeOK, RequestInv, Sale!Request
  <2>2. CASE Sale!AfterGrant(h)
    <3>1. request' \in [Handlers -> Sale!Request] /\ RequestInv'
      BY <2>2, GotoKeepsType, EndKeepsType DEF Sale!AfterGrant
    <3> QED
      BY <1>6, <3>1 DEF Sale!ReadRight, SaleTypes, Sale!TypeOK
  <2>3. CASE request' = [request EXCEPT ![h].at = "write", ![h].read = right]
    <3>1. request[h] \in Sale!Request /\ right \in Sale!Gone..Sale!Forever
      BY SaleAssumption DEF SaleTypes, Sale!TypeOK, Sale!NoRight, Sale!Gone, Sale!Forever
    <3> DEFINE r == [request[h] EXCEPT !.at = "write", !.read = right]
    <3>2. /\ r \in Sale!Request /\ r.at = "write" /\ r.kind = request[h].kind
          /\ r.order = request[h].order /\ r.until = request[h].until
      BY <3>1 DEF Sale!Request
    <3>3. request' = [request EXCEPT ![h] = r]
      BY <2>3, <3>1 DEF SaleTypes, Sale!TypeOK, Sale!Request
    <3>4. request' \in [Handlers -> Sale!Request] /\ RequestInv'
      <4> HIDE DEF r
      <4> QED
        BY <2>1, <3>1, <3>2, <3>3, RequestKeepsType DEF SaleTypes, RequestInv
    <3> QED
      BY <1>6, <3>4 DEF Sale!ReadRight, SaleTypes, Sale!TypeOK
  <2> QED
    BY <1>6, <2>2, <2>3 DEF Sale!ReadRight
<1>7. ASSUME NEW h \in Handlers, Sale!WriteRight(h) PROVE SaleTypes'
  <2>1. request[h] \in Sale!Request
    BY DEF SaleTypes, Sale!TypeOK
  <2>2. request' \in [Handlers -> Sale!Request] /\ RequestInv'
    BY <1>7, GotoKeepsType, EndKeepsType DEF Sale!WriteRight, Sale!AfterGrant
  <2>3. right' \in Sale!NoRight..Sale!Forever /\ cut' \subseteq Orders
    BY <1>7, <2>1 DEF Sale!WriteRight, SaleTypes, Sale!TypeOK, Sale!Request
  <2> QED
    BY <1>7, <2>2, <2>3 DEF Sale!WriteRight, SaleTypes, Sale!TypeOK
<1>8. ASSUME NEW h \in Handlers, Sale!Record(h) PROVE SaleTypes'
  <2>1. request' \in [Handlers -> Sale!Request] /\ RequestInv'
    BY <1>8, EndKeepsType DEF Sale!Record
  <2>2. tx' \in [Orders -> {"none", "approved", "refunded"}]
    BY <1>8 DEF Sale!Record, SaleTypes, Sale!TypeOK
  <2> QED
    BY <1>8, <2>1, <2>2 DEF Sale!Record, SaleTypes, Sale!TypeOK
<1>9. ASSUME NEW h \in Handlers, Sale!MarkRefunded(h) PROVE SaleTypes'
  <2>1. request[h].kind = "refund"
    BY <1>9 DEF Sale!MarkRefunded, SaleTypes, RequestInv
  <2>2. request' \in [Handlers -> Sale!Request] /\ RequestInv'
    BY <1>9, <2>1, GotoKeepsType DEF Sale!MarkRefunded
  <2>3. tx' \in [Orders -> {"none", "approved", "refunded"}]
    BY <1>9 DEF Sale!MarkRefunded, SaleTypes, Sale!TypeOK
  <2> QED
    BY <1>9, <2>2, <2>3 DEF Sale!MarkRefunded, SaleTypes, Sale!TypeOK
<1>10. ASSUME NEW h \in Handlers, Sale!Revoke(h) PROVE SaleTypes'
  <2>1. CASE Sale!End(h) /\ UNCHANGED <<right, cut>>
    BY <1>10, <2>1, EndKeepsType DEF Sale!Revoke, SaleTypes, Sale!TypeOK
  <2>2. CASE Sale!DeleteRight([request EXCEPT ![h] = Sale!Free])
    <3> DEFINE others == [request EXCEPT ![h] = Sale!Free]
    <3>1. Sale!Free \in Sale!Request /\ others \in [Handlers -> Sale!Request]
      BY SaleAssumption DEF Sale!Free, Sale!Request, Sale!NoRight, Sale!Gone, Sale!Forever,
           SaleTypes, Sale!TypeOK
    <3>2. \A g \in Handlers : others[g] = IF g = h THEN Sale!Free ELSE request[g]
      BY DEF SaleTypes, Sale!TypeOK
    <3>3. Sale!DeleteRight(others)
      BY <2>2
    <3> HIDE DEF others
    <3>4. \A g \in Handlers : /\ request'[g].kind = others[g].kind
                              /\ request'[g].at = others[g].at
                              /\ request'[g].order = others[g].order
                              /\ request'[g].until = others[g].until
      BY <3>1, <3>3, DeleteKeepsType
    <3>5. RequestInv'
      BY <3>2, <3>4 DEF SaleTypes, RequestInv, Sale!Free
    <3> QED
      BY <1>10, <3>1, <3>3, <3>5, DeleteKeepsType DEF Sale!Revoke, SaleTypes, Sale!TypeOK
  <2> QED
    BY <1>10, <2>1, <2>2 DEF Sale!Revoke
<1>11. ASSUME NEW h \in Handlers, Sale!Crash(h) PROVE SaleTypes'
  BY <1>11, EndKeepsType, SaleAssumption DEF Sale!Crash, SaleTypes, Sale!TypeOK
<1>12. CASE Sale!Remove
  BY <1>12, DeleteKeepsType DEF Sale!Remove, SaleTypes, Sale!TypeOK, RequestInv
<1>13. CASE Sale!NextDay
  BY <1>13, SaleAssumption DEF Sale!NextDay, SaleTypes, Sale!TypeOK, RequestInv
<1>14. CASE UNCHANGED Sale!vars
  BY <1>14 DEF Sale!vars, SaleTypes, Sale!TypeOK, RequestInv
<1> QED
  BY <1>1, <1>2, <1>3, <1>4, <1>5, <1>6, <1>7, <1>8, <1>9, <1>10, <1>11, <1>12, <1>13,
     <1>14 DEF Sale!Next

\* The tables and requests hold what they can hold, for any number of everything.
THEOREM CourseTypes == Sale!Spec => []Sale!TypeOK
<1>1. Sale!Init => SaleTypes
  BY SaleTypesInit
<1>2. SaleTypes /\ [Sale!Next]_(Sale!vars) => SaleTypes'
  BY SaleTypesNext
<1>3. SaleTypes => Sale!TypeOK
  BY DEF SaleTypes
<1> QED
  BY <1>1, <1>2, <1>3, PTL DEF Sale!Spec
-----------------------------------------------------------------------------
(* Who has the course *)

\* Nobody has or is owed anything at first.
LEMMA CourseInvInit == Sale!Init => SaleInv
BY SaleTypesInit DEF Sale!Init, SaleInv, EnrolsAlone, ReadHolds, GrantedBeforeBooks,
     BuyerHasCourse, Sale!BuyerHasCourse, Sale!Free

\* A right for life is a right.
LEMMA LifeIsAccess == ASSUME right = Sale!Forever PROVE Sale!HasFullAccess
BY SaleAssumption DEF Sale!HasFullAccess, Sale!Forever, Sale!NoRight

\* A step that takes no right, enters no sale in the books and moves no request to a
\* write or to the books keeps who has the course.
LEMMA OthersKeepCourse ==
  ASSUME SaleInv, SaleTypes', UNCHANGED right, cut' = cut,
         \A o \in Orders : tx'[o] = "approved" => tx[o] = "approved",
         EnrolsAlone',
         \A h \in Handlers : request'[h].at \in {"write", "record"} => request'[h] = request[h]
  PROVE  SaleInv'
<1>1. ReadHolds'
  BY DEF SaleInv, ReadHolds
<1>2. GrantedBeforeBooks'
  BY DEF SaleInv, GrantedBeforeBooks
<1>3. BuyerHasCourse'
  BY DEF SaleInv, BuyerHasCourse, Sale!BuyerHasCourse, Sale!HasFullAccess
<1> QED
  BY <1>1, <1>2, <1>3 DEF SaleInv

\* A request that ends, or moves without becoming a grant, leaves enrolments alone.
LEMMA StaysAlone ==
  ASSUME SaleInv,
         \A h \in Handlers : request'[h].kind \in {request[h].kind, "none", "refund"}
  PROVE  EnrolsAlone'
BY DEF SaleInv, EnrolsAlone

\* When the row is deleted nobody is owed the course.
LEMMA DeleteKeepsCourse ==
  ASSUME SaleInv, SaleTypes', NEW others \in [Handlers -> Sale!Request],
         Sale!DeleteRight(others), UNCHANGED tx,
         \A h \in Handlers : others[h] \in {request[h], Sale!Free}
  PROVE  SaleInv'
<1>1. /\ cut' = Orders
      /\ \A h \in Handlers : /\ request'[h].kind = others[h].kind
                             /\ request'[h].at = others[h].at
                             /\ request'[h].order = others[h].order
                             /\ request'[h].read \in {Sale!Gone, Sale!NoRight}
  BY DeleteKeepsType DEF Sale!DeleteRight
<1>2. EnrolsAlone'
  BY <1>1, StaysAlone DEF Sale!Free
<1>3. ReadHolds'
  BY <1>1 DEF ReadHolds
<1>4. GrantedBeforeBooks'
  BY <1>1 DEF GrantedBeforeBooks, SaleTypes, RequestInv
<1>5. BuyerHasCourse'
  BY <1>1 DEF BuyerHasCourse, Sale!BuyerHasCourse
<1> QED
  BY <1>2, <1>3, <1>4, <1>5 DEF SaleInv

\* A request that is taken up is alone if it enrols.
LEMMA ServeKeepsCourse ==
  ASSUME SaleInv, SaleTypes', NEW h \in Handlers, NEW kind \in {"sale", "enrol", "refund"},
         NEW order, NEW until, NEW point \in {"find", "mark"},
         Sale!Serve(h, kind, order, until, point),
         kind = "sale" => ~Sale!Granting({"enrol"}),
         kind = "enrol" => ~Sale!Granting({"sale", "enrol"})
  PROVE  SaleInv'
<1>1. \A g \in Handlers : g # h => request'[g] = request[g]
  BY DEF Sale!Serve, SaleInv, SaleTypes, Sale!TypeOK
<1>2. request'[h].kind = kind /\ request'[h].at = point
  BY DEF Sale!Serve, SaleInv, SaleTypes, Sale!TypeOK
<1>3. EnrolsAlone'
  BY <1>1, <1>2 DEF SaleInv, EnrolsAlone, Sale!Granting
<1>4. \A g \in Handlers : request'[g].at \in {"write", "record"} => request'[g] = request[g]
  BY <1>1, <1>2
<1> QED
  BY <1>3, <1>4, OthersKeepCourse DEF Sale!Serve

\* A step keeps who has the course.
LEMMA CourseInvNext ==
  ASSUME ~Overlapping, SaleInv, [Sale!Next]_(Sale!vars)
  PROVE  SaleInv'
<1>0. SaleTypes'
  BY SaleTypesNext DEF SaleInv
<1> USE <1>0
<1>a. request \in [Handlers -> Sale!Request] /\ \A h \in Handlers : request[h] \in Sale!Request
  BY DEF SaleInv, SaleTypes, Sale!TypeOK
<1>b. ASSUME NEW h \in Handlers, Sale!End(h)
      PROVE  /\ \A g \in Handlers : request'[g].at \in {"write", "record"} =>
                                     request'[g] = request[g]
             /\ EnrolsAlone'
  <2>1. \A g \in Handlers : request'[g] = IF g = h THEN Sale!Free ELSE request[g]
    BY <1>a, <1>b DEF Sale!End
  <2> QED
    BY <2>1, StaysAlone DEF Sale!Free
<1>c. ASSUME NEW h \in Handlers, NEW point \in {"create", "read", "revoke"}, Sale!Goto(h, point)
      PROVE  /\ \A g \in Handlers : request'[g].at \in {"write", "record"} =>
                                     request'[g] = request[g]
             /\ EnrolsAlone'
  <2>1. \A g \in Handlers : g # h => request'[g] = request[g]
    BY <1>a, <1>c DEF Sale!Goto
  <2>2. request'[h].at = point /\ request'[h].kind = request[h].kind
    BY <1>a, <1>c DEF Sale!Goto, Sale!Request
  <2> QED
    BY <2>1, <2>2, StaysAlone
<1>1. ASSUME NEW h \in Handlers, NEW o \in Orders, Sale!Approved(h, o) PROVE SaleInv'
  BY <1>1, ServeKeepsCourse DEF Sale!Approved
<1>2. ASSUME NEW h \in Handlers, NEW o \in Orders, Sale!Refunded(h, o) PROVE SaleInv'
  BY <1>2, ServeKeepsCourse DEF Sale!Refunded
<1>3. ASSUME NEW h \in Handlers, Sale!Enrol(h) PROVE SaleInv'
  BY <1>3, ServeKeepsCourse DEF Sale!Enrol
<1>4. ASSUME NEW h \in Handlers, Sale!FindAccount(h) PROVE SaleInv'
  BY <1>4, <1>c, OthersKeepCourse DEF Sale!FindAccount
<1>5. ASSUME NEW h \in Handlers, Sale!CreateAccount(h) PROVE SaleInv'
  BY <1>5, <1>b, <1>c, OthersKeepCourse DEF Sale!CreateAccount
<1>6. ASSUME NEW h \in Handlers, Sale!ReadRight(h) PROVE SaleInv'
  <2>1. UNCHANGED <<right, tx, cut>>
    BY <1>6 DEF Sale!ReadRight
  <2>2. CASE Sale!Keeps(right, request[h].until) /\ Sale!AfterGrant(h)
    <3>1. request[h].kind # "sale"
      BY <2>2 DEF Sale!Keeps, SaleInv, SaleTypes, RequestInv
    <3> QED
      BY <1>b, <2>1, <2>2, <3>1, OthersKeepCourse DEF Sale!AfterGrant
  <2>3. CASE /\ ~(right # Sale!NoRight /\ Sale!Keeps(right, request[h].until))
             /\ request' = [request EXCEPT ![h].at = "write", ![h].read = right]
    <3>1. /\ \A g \in Handlers : g # h => request'[g] = request[g]
          /\ request'[h].at = "write" /\ request'[h].read = right
          /\ request'[h].kind = request[h].kind /\ request'[h].until = request[h].until
      BY <1>a, <2>3 DEF Sale!Request
    <3>2. EnrolsAlone'
      BY <3>1, StaysAlone
    <3>3. request[h].until # Sale!Forever => right \in {Sale!NoRight} \/ right # Sale!Forever
      <4>1. request[h].until \in Sale!NoRight..Sale!Forever
        BY <1>a DEF Sale!Request
      <4> QED
        BY <2>3, <4>1, SaleAssumption DEF Sale!Keeps, Sale!NoRight, Sale!Forever
    <3>4. ReadHolds'
      BY <2>1, <3>1, <3>3 DEF SaleInv, ReadHolds
    <3>5. GrantedBeforeBooks' /\ BuyerHasCourse'
      BY <2>1, <3>1 DEF SaleInv, GrantedBeforeBooks, BuyerHasCourse, Sale!BuyerHasCourse,
           Sale!HasFullAccess
    <3> QED
      BY <3>2, <3>4, <3>5 DEF SaleInv
  <2> QED
    BY <1>6, <2>2, <2>3 DEF Sale!ReadRight
<1>7. ASSUME NEW h \in Handlers, Sale!WriteRight(h) PROVE SaleInv'
  <2>1. CASE Sale!End(h) /\ UNCHANGED <<right, cut>>
    BY <1>7, <1>b, <2>1, OthersKeepCourse DEF Sale!WriteRight
  <2>2. CASE /\ request[h].read # Sale!Gone /\ (request[h].read = Sale!NoRight => right = Sale!NoRight)
             /\ right' = request[h].until
             /\ Sale!AfterGrant(h)
             /\ cut' = cut \ {request[h].order}
    <3>1. request[h].at = "write" /\ request[h].kind \in {"sale", "enrol"} /\ UNCHANGED tx
      BY <1>7, <1>a DEF Sale!WriteRight, SaleInv, SaleTypes, RequestInv, Sale!Request
    <3>2. CASE request[h].kind = "sale"
      <4>1. right' = Sale!Forever /\ \A g \in Handlers : request[g].kind # "enrol"
        BY <2>2, <3>1, <3>2 DEF SaleInv, SaleTypes, RequestInv, EnrolsAlone
      <4>2. \A g \in Handlers : request'[g].kind = request[g].kind
        BY <1>a, <2>2, <3>2 DEF Sale!AfterGrant, Sale!Goto, Sale!Request
      <4>3. EnrolsAlone' /\ ReadHolds'
        BY <4>1, <4>2 DEF EnrolsAlone, ReadHolds
      <4>4. GrantedBeforeBooks'
        BY <4>1 DEF GrantedBeforeBooks
      <4>5. BuyerHasCourse'
        BY <4>1, SaleAssumption DEF BuyerHasCourse, Sale!BuyerHasCourse, Sale!HasFullAccess,
             Sale!Forever, Sale!NoRight
      <4> QED
        BY <4>3, <4>4, <4>5 DEF SaleInv
    <3>3. CASE request[h].kind = "enrol"
      <4>1. Sale!End(h) /\ request[h].order = Nothing
        BY <2>2, <3>3 DEF Sale!AfterGrant, SaleInv, SaleTypes, RequestInv
      <4>2. cut' = cut
        BY <2>2, <4>1, SaleAssumption DEF SaleInv, SaleTypes, Sale!TypeOK
      <4>3. right' = Sale!Forever \/ right # Sale!Forever
        BY <2>2, <3>1, <3>3, SaleAssumption DEF SaleInv, ReadHolds, Sale!Forever, Sale!NoRight
      <4>4. /\ EnrolsAlone'
            /\ \A g \in Handlers : request'[g].at \in {"write", "record"} =>
                                  request'[g] = request[g]
        BY <1>b, <4>1
      <4>5. ReadHolds'
        <5>1. \A g \in Handlers : request[g].kind = "enrol" => g = h
          BY <3>3 DEF SaleInv, EnrolsAlone
        <5>2. \A g \in Handlers : request'[g].at # "write" \/ request'[g].kind # "enrol"
          BY <1>a, <4>1, <5>1 DEF Sale!End, Sale!Free
        <5> QED
          BY <5>2 DEF ReadHolds
      <4>6. GrantedBeforeBooks'
        BY <4>2, <4>3, <4>4 DEF SaleInv, GrantedBeforeBooks
      <4>7. BuyerHasCourse'
        BY <3>1, <4>2, <4>3, SaleAssumption DEF SaleInv, BuyerHasCourse, Sale!BuyerHasCourse,
             Sale!HasFullAccess, Sale!Forever, Sale!NoRight
      <4> QED
        BY <4>4, <4>5, <4>6, <4>7 DEF SaleInv
    <3> QED
      BY <3>1, <3>2, <3>3
  <2> QED
    BY <1>7, <2>1, <2>2 DEF Sale!WriteRight
<1>8. ASSUME NEW h \in Handlers, Sale!Record(h) PROVE SaleInv'
  <2>1. Sale!End(h) /\ UNCHANGED <<right, cut>>
    BY <1>8 DEF Sale!Record
  <2>2. request[h].order \notin cut => right = Sale!Forever
    BY <1>8 DEF Sale!Record, SaleInv, GrantedBeforeBooks
  <2>3. \A o \in Orders : tx'[o] = "approved" => tx[o] = "approved" \/ o = request[h].order
    BY <1>8 DEF Sale!Record, SaleInv, SaleTypes, Sale!TypeOK
  <2>4. BuyerHasCourse'
    BY <2>1, <2>2, <2>3, LifeIsAccess DEF SaleInv, BuyerHasCourse, Sale!BuyerHasCourse,
         Sale!HasFullAccess
  <2>5. /\ EnrolsAlone'
        /\ \A g \in Handlers : request'[g].at \in {"write", "record"} =>
                                  request'[g] = request[g]
    BY <1>b, <2>1
  <2>6. ReadHolds' /\ GrantedBeforeBooks'
    BY <2>1, <2>5 DEF SaleInv, ReadHolds, GrantedBeforeBooks
  <2> QED
    BY <2>4, <2>5, <2>6 DEF SaleInv
<1>9. ASSUME NEW h \in Handlers, Sale!MarkRefunded(h) PROVE SaleInv'
  <2>1. \A o \in Orders : tx'[o] = "approved" => tx[o] = "approved"
    BY <1>9 DEF Sale!MarkRefunded, SaleInv, SaleTypes, Sale!TypeOK
  <2> QED
    BY <1>9, <1>c, <2>1, OthersKeepCourse DEF Sale!MarkRefunded
<1>10. ASSUME NEW h \in Handlers, Sale!Revoke(h) PROVE SaleInv'
  <2>1. CASE Sale!End(h) /\ UNCHANGED <<right, cut>>
    BY <1>10, <1>b, <2>1, OthersKeepCourse DEF Sale!Revoke
  <2>2. CASE Sale!DeleteRight([request EXCEPT ![h] = Sale!Free])
    <3> DEFINE others == [request EXCEPT ![h] = Sale!Free]
    <3>1. others \in [Handlers -> Sale!Request]
      BY <1>a, SaleAssumption DEF Sale!Free, Sale!Request, Sale!NoRight, Sale!Gone, Sale!Forever
    <3>2. \A g \in Handlers : others[g] \in {request[g], Sale!Free}
      BY <1>a
    <3>3. Sale!DeleteRight(others) /\ UNCHANGED tx
      BY <1>10, <2>2 DEF Sale!Revoke
    <3> HIDE DEF others
    <3> QED
      BY <3>1, <3>2, <3>3, DeleteKeepsCourse
  <2> QED
    BY <1>10, <2>1, <2>2 DEF Sale!Revoke
<1>11. ASSUME NEW h \in Handlers, Sale!Crash(h) PROVE SaleInv'
  BY <1>11, <1>b, OthersKeepCourse DEF Sale!Crash
<1>12. CASE Sale!Remove
  BY <1>12, <1>a, DeleteKeepsCourse DEF Sale!Remove
<1>13. CASE Sale!NextDay
  BY <1>13, StaysAlone, OthersKeepCourse DEF Sale!NextDay
<1>14. CASE UNCHANGED Sale!vars
  BY <1>14, StaysAlone, OthersKeepCourse DEF Sale!vars
<1> QED
  BY <1>1, <1>2, <1>3, <1>4, <1>5, <1>6, <1>7, <1>8, <1>9, <1>10, <1>11, <1>12, <1>13,
     <1>14 DEF Sale!Next

\* As long as an enrolment is not served during another grant, whoever is in the books
\* as a buyer has the course for life unless a refund or an administrator took it away
\* later, for any number of orders, requests, repeats and crashes.
THEOREM BuyersHaveCourse == ~Overlapping => (Sale!Spec => []BuyerHasCourse)
<1> SUFFICES ASSUME ~Overlapping PROVE Sale!Spec => []BuyerHasCourse
  OBVIOUS
<1>1. Sale!Init => SaleInv
  BY CourseInvInit
<1>2. SaleInv /\ [Sale!Next]_(Sale!vars) => SaleInv'
  BY CourseInvNext
<1>3. SaleInv => BuyerHasCourse
  BY DEF SaleInv
<1> QED
  BY <1>1, <1>2, <1>3, PTL DEF Sale!Spec

-----------------------------------------------------------------------------
(* The alert of a support session *)

SupportTypes ==
    /\ Support!TypeOK
    /\ alerting \cap unnotified = {}
    /\ \A m \in unnotified : written[m] = session
    /\ \A m \in alerting : written[m] = session
    /\ \A m \in Messages : written[m] = Support!Never => m \notin deleted

AlertingIn(s) == {m \in alerting : written[m] = s}

\* The messages that were found to open a session: each was or will be alerted, and
\* all but the last were deleted before the next was found.
Openers(s, F) ==
    /\ F \subseteq Support!WrittenIn(s) \ unnotified
    /\ AlertingIn(s) \subseteq F
    /\ Cardinality(F) = alerts[s] + Cardinality(AlertingIn(s))
    /\ \A m, k \in F \ deleted : m = k

SessionsOpened == \A s \in Support!Sessions : \E F \in SUBSET Messages : Openers(s, F)

SupportInv == SupportTypes /\ SessionsOpened

\* Sets of messages can be counted.
LEMMA MessagesCounted ==
  ASSUME NEW S \in SUBSET Messages
  PROVE  IsFiniteSet(S) /\ Cardinality(S) \in Nat
BY SupportAssumption, FS_Subset, FS_CardinalityType

\* The invariant holds at first.
LEMMA SupportInit == Support!Init => SupportInv
<1> SUFFICES ASSUME Support!Init PROVE SupportInv
  OBVIOUS
<1> USE SupportAssumption DEF Support!Init, Support!Never, Support!Sessions
<1>1. SupportTypes
  BY DEF SupportTypes, Support!TypeOK
<1>2. SessionsOpened
  <2> SUFFICES ASSUME NEW s \in Support!Sessions PROVE Openers(s, {})
    BY DEF SessionsOpened
  <2>1. AlertingIn(s) = {} /\ alerts[s] = 0
    BY DEF AlertingIn
  <2>2. Cardinality({}) = 0
    BY FS_EmptySet
  <2> QED
    BY <2>1, <2>2 DEF Openers
<1> QED
  BY <1>1, <1>2 DEF SupportInv

\* Openers stay such when messages are written or deleted and time passes.
LEMMA OpenersStay ==
  ASSUME SupportInv, NEW s \in Support!Sessions, NEW F \in SUBSET Messages, Openers(s, F),
         UNCHANGED <<alerting, alerts>>, deleted \subseteq deleted',
         Support!WrittenIn(s) \ unnotified \subseteq (Support!WrittenIn(s) \ unnotified)',
         AlertingIn(s)' = AlertingIn(s)
  PROVE  Openers(s, F)'
BY DEF Openers

\* A message is written.
LEMMA WriteKeepsSupport ==
  ASSUME SupportInv, NEW m \in Messages, Support!Write(m)
  PROVE  SupportInv'
<1> USE SupportAssumption DEF Support!Never, Support!Sessions
<1>1. /\ written[m] = 0 /\ written' = [written EXCEPT ![m] = session]
      /\ unnotified' = unnotified \cup {m} /\ UNCHANGED <<session, deleted, alerting, alerts>>
  BY DEF Support!Write
<1>2. written \in [Messages -> 0..LastSession] /\ session \in 1..LastSession
  BY DEF SupportInv, SupportTypes, Support!TypeOK
<1>3. m \notin alerting /\ m \notin deleted
  BY <1>1, <1>2 DEF SupportInv, SupportTypes
<1>4. SupportTypes'
  BY <1>1, <1>2, <1>3 DEF SupportInv, SupportTypes, Support!TypeOK
<1>5. SessionsOpened'
  <2> SUFFICES ASSUME NEW s \in 1..LastSession PROVE \E F \in SUBSET Messages : Openers(s, F)'
    BY DEF SessionsOpened
  <2>1. PICK F \in SUBSET Messages : Openers(s, F)
    BY DEF SupportInv, SessionsOpened
  <2>2. AlertingIn(s)' = AlertingIn(s)
    BY <1>1, <1>2, <1>3 DEF AlertingIn, SupportInv, SupportTypes, Support!TypeOK
  <2>3. Support!WrittenIn(s) \ unnotified \subseteq (Support!WrittenIn(s) \ unnotified)'
    BY <1>1, <1>2 DEF Support!WrittenIn
  <2> QED
    BY <1>1, <2>1, <2>2, <2>3, OpenersStay
<1> QED
  BY <1>4, <1>5 DEF SupportInv

\* A message is deleted, or the member falls silent.
LEMMA OthersKeepSupport ==
  ASSUME SupportInv,
         \/ \E m \in Messages : Support!Delete(m)
         \/ Support!FallSilent
         \/ UNCHANGED Support!vars
  PROVE  SupportInv'
<1> USE SupportAssumption DEF Support!Never, Support!Sessions
<1>1. /\ UNCHANGED <<written, unnotified, alerting, alerts>> /\ deleted \subseteq deleted'
  BY DEF Support!Delete, Support!FallSilent, Support!vars
<1>2. SupportTypes'
  <2>1. CASE \E m \in Messages : Support!Delete(m)
    BY <2>1 DEF SupportInv, SupportTypes, Support!TypeOK, Support!Delete
  <2>2. CASE Support!FallSilent
    BY <2>2 DEF SupportInv, SupportTypes, Support!TypeOK, Support!FallSilent
  <2>3. CASE UNCHANGED Support!vars
    BY <2>3 DEF SupportInv, SupportTypes, Support!TypeOK, Support!vars
  <2> QED
    BY <2>1, <2>2, <2>3
<1>3. SessionsOpened'
  <2> SUFFICES ASSUME NEW s \in 1..LastSession PROVE \E F \in SUBSET Messages : Openers(s, F)'
    BY DEF SessionsOpened
  <2>1. PICK F \in SUBSET Messages : Openers(s, F)
    BY DEF SupportInv, SessionsOpened
  <2>2. AlertingIn(s)' = AlertingIn(s) /\ Support!WrittenIn(s)' = Support!WrittenIn(s)
    BY <1>1 DEF AlertingIn, Support!WrittenIn
  <2> QED
    BY <1>1, <2>1, <2>2, OpenersStay
<1> QED
  BY <1>2, <1>3 DEF SupportInv

\* A notification looks whether its message opened the session.
LEMMA NotifyKeepsSupport ==
  ASSUME SupportInv, NEW m \in Messages, Support!Notify(m)
  PROVE  SupportInv'
<1> USE SupportAssumption DEF Support!Never, Support!Sessions
<1>1. /\ m \in unnotified /\ unnotified' = unnotified \ {m}
      /\ alerting' = IF Support!Others(m) = {} THEN alerting \cup {m} ELSE alerting
      /\ UNCHANGED <<session, written, deleted, alerts>>
  BY DEF Support!Notify
<1>2. /\ m \notin alerting /\ written[m] = session
      /\ written \in [Messages -> 0..LastSession] /\ session \in 1..LastSession
      /\ alerting \subseteq Messages /\ alerts \in [1..LastSession -> Nat]
  BY <1>1 DEF SupportInv, SupportTypes, Support!TypeOK
<1>3. SupportTypes'
  BY <1>1, <1>2 DEF SupportInv, SupportTypes, Support!TypeOK
<1>4. ASSUME NEW s \in 1..LastSession PROVE \E F \in SUBSET Messages : Openers(s, F)'
  <2>1. PICK F \in SUBSET Messages : Openers(s, F)
    BY DEF SupportInv, SessionsOpened
  <2>2. Support!WrittenIn(s)' = Support!WrittenIn(s)
    BY <1>1 DEF Support!WrittenIn
  <2>3. CASE Support!Others(m) # {} \/ s # session
    <3>1. AlertingIn(s)' = AlertingIn(s)
      BY <1>1, <1>2, <2>3 DEF AlertingIn
    <3> QED
      BY <1>1, <2>1, <2>2, <3>1 DEF Openers
  <2>4. CASE Support!Others(m) = {} /\ s = session
    <3>1. AlertingIn(s)' = AlertingIn(s) \cup {m} /\ m \notin AlertingIn(s)
      BY <1>1, <1>2, <2>4 DEF AlertingIn
    <3>2. m \notin F /\ F \subseteq Support!WrittenIn(s)
      BY <1>1, <2>1 DEF Openers
    <3>3. F \ deleted = {}
      BY <1>2, <2>4, <3>2 DEF Support!Others, Support!WrittenIn
    <3>4. Cardinality(F \cup {m}) = Cardinality(F) + 1
      BY <3>2, MessagesCounted, FS_AddElement
    <3>5. Cardinality(AlertingIn(s) \cup {m}) = Cardinality(AlertingIn(s)) + 1
      <4>1. AlertingIn(s) \in SUBSET Messages
        BY <1>2 DEF AlertingIn
      <4> QED
        BY <3>1, <4>1, MessagesCounted, FS_AddElement
    <3>6. Cardinality(F) = alerts[s] + Cardinality(AlertingIn(s))
      BY <2>1 DEF Openers
    <3>7. Cardinality(AlertingIn(s)) \in Nat /\ alerts[s] \in Nat
      <4>1. AlertingIn(s) \in SUBSET Messages
        BY <1>2 DEF AlertingIn
      <4> QED
        BY <1>2, <4>1, MessagesCounted
    <3>8. Cardinality(F \cup {m}) = alerts'[s] + Cardinality(AlertingIn(s)')
      BY <1>1, <3>1, <3>4, <3>5, <3>6, <3>7
    <3>9. F \cup {m} \subseteq Support!WrittenIn(s) \ (unnotified \ {m})
      BY <1>1, <1>2, <2>1, <2>4 DEF Openers, Support!WrittenIn
    <3>10. AlertingIn(s)' \subseteq F \cup {m}
      BY <2>1, <3>1 DEF Openers
    <3>11. \A x, y \in (F \cup {m}) \ deleted : x = y
      BY <3>3
    <3>12. Openers(s, F \cup {m})'
      BY <1>1, <2>2, <3>8, <3>9, <3>10, <3>11 DEF Openers
    <3> QED
      BY <3>12
  <2> QED
    BY <2>3, <2>4
<1> QED
  BY <1>3, <1>4 DEF SupportInv, SessionsOpened

\* The team is alerted.
LEMMA AlertKeepsSupport ==
  ASSUME SupportInv, NEW m \in Messages, Support!Alert(m)
  PROVE  SupportInv'
<1> USE SupportAssumption DEF Support!Never, Support!Sessions
<1>1. /\ m \in alerting /\ alerting' = alerting \ {m}
      /\ alerts' = [alerts EXCEPT ![written[m]] = @ + 1]
      /\ UNCHANGED <<session, written, deleted, unnotified>>
  BY DEF Support!Alert
<1>2. /\ written[m] = session /\ session \in 1..LastSession
      /\ alerting \subseteq Messages /\ alerts \in [1..LastSession -> Nat]
  BY <1>1 DEF SupportInv, SupportTypes, Support!TypeOK
<1>3. SupportTypes'
  BY <1>1, <1>2 DEF SupportInv, SupportTypes, Support!TypeOK
<1>4. ASSUME NEW s \in 1..LastSession PROVE \E F \in SUBSET Messages : Openers(s, F)'
  <2>1. PICK F \in SUBSET Messages : Openers(s, F)
    BY DEF SupportInv, SessionsOpened
  <2>2. Support!WrittenIn(s)' = Support!WrittenIn(s)
    BY <1>1 DEF Support!WrittenIn
  <2>3. AlertingIn(s) \in SUBSET Messages
    BY <1>2 DEF AlertingIn
  <2>4. CASE s # session
    <3>1. AlertingIn(s)' = AlertingIn(s) /\ alerts'[s] = alerts[s]
      BY <1>1, <1>2, <2>4 DEF AlertingIn
    <3> QED
      BY <1>1, <2>1, <2>2, <3>1 DEF Openers
  <2>5. CASE s = session
    <3>1. AlertingIn(s)' = AlertingIn(s) \ {m} /\ m \in AlertingIn(s)
      BY <1>1, <1>2, <2>5 DEF AlertingIn
    <3>2. Cardinality(AlertingIn(s) \ {m}) = Cardinality(AlertingIn(s)) - 1
      BY <2>3, <3>1, MessagesCounted, FS_RemoveElement
    <3>3. Cardinality(AlertingIn(s)) \in Nat /\ alerts[s] \in Nat /\ alerts'[s] = alerts[s] + 1
      BY <1>1, <1>2, <2>3, <2>5, MessagesCounted
    <3>4. Cardinality(F) = alerts'[s] + Cardinality(AlertingIn(s)')
      BY <2>1, <3>1, <3>2, <3>3 DEF Openers
    <3> QED
      BY <1>1, <2>1, <2>2, <3>1, <3>4 DEF Openers
  <2> QED
    BY <2>4, <2>5
<1> QED
  BY <1>3, <1>4 DEF SupportInv, SessionsOpened

\* Every step keeps the invariant.
LEMMA SupportNext == SupportInv /\ [Support!Next]_(Support!vars) => SupportInv'
BY WriteKeepsSupport, OthersKeepSupport, NotifyKeepsSupport, AlertKeepsSupport DEF Support!Next

\* Openers are as many as the deleted ones of the session, and one at most.
LEMMA OpenersAreFew == SupportInv => AlertedOnce
<1> SUFFICES ASSUME SupportInv, NEW s \in Support!Sessions
             PROVE  alerts[s] <= 1 + Cardinality(Support!WrittenIn(s) \cap deleted)
  BY DEF AlertedOnce, Support!AlertedOnce, Support!Cardinality, Cardinality
<1>1. PICK F \in SUBSET Messages : Openers(s, F)
  BY DEF SupportInv, SessionsOpened
<1>2. alerts[s] \in Nat /\ alerting \subseteq Messages
  BY DEF SupportInv, SupportTypes, Support!TypeOK
<1> DEFINE W == Support!WrittenIn(s) \cap deleted
<1>3. W \in SUBSET Messages /\ F \cap deleted \in SUBSET W
  BY <1>1 DEF Support!WrittenIn, Openers
<1>4. IsFiniteSet(W) /\ Cardinality(W) \in Nat /\ Cardinality(F \cap deleted) <= Cardinality(W)
  BY <1>3, MessagesCounted, FS_Subset
<1>5. Cardinality(F \ deleted) <= 1
  <2>1. CASE F \ deleted = {}
    BY <2>1, FS_EmptySet
  <2>2. CASE F \ deleted # {}
    <3>1. PICK x : F \ deleted = {x}
      BY <1>1, <2>2 DEF Openers
    <3> QED
      BY <3>1, FS_Singleton
  <2> QED
    BY <2>1, <2>2
<1>6. /\ IsFiniteSet(F \cap deleted) /\ IsFiniteSet(F \ deleted)
      /\ Cardinality(F \cap deleted) \in Nat /\ Cardinality(F \ deleted) \in Nat
  BY <1>1, MessagesCounted
<1>7. Cardinality(F) <= Cardinality(F \cap deleted) + Cardinality(F \ deleted)
  <2>1. F = (F \cap deleted) \cup (F \ deleted) /\ (F \cap deleted) \cap (F \ deleted) = {}
    OBVIOUS
  <2>2. Cardinality((F \cap deleted) \cup (F \ deleted)) =
          Cardinality(F \cap deleted) + Cardinality(F \ deleted)
            - Cardinality((F \cap deleted) \cap (F \ deleted))
    BY <1>6, FS_Union
  <2>3. Cardinality((F \cap deleted) \cap (F \ deleted)) = 0
    BY <2>1, FS_EmptySet, Zenon
  <2>4. Cardinality(F) = Cardinality((F \cap deleted) \cup (F \ deleted))
    BY <2>1, Zenon
  <2> QED
    BY <1>6, <2>2, <2>3, <2>4
<1>8. alerts[s] <= Cardinality(F)
  <2>1. AlertingIn(s) \in SUBSET Messages
    BY <1>2 DEF AlertingIn
  <2>2. Cardinality(AlertingIn(s)) \in Nat
    BY <2>1, MessagesCounted
  <2> QED
    BY <1>1, <1>2, <2>2 DEF Openers
<1>9. Cardinality(F) \in Nat
  BY <1>1, MessagesCounted
<1> QED
  BY <1>2, <1>4, <1>5, <1>6, <1>7, <1>8, <1>9

\* The team is alerted once in a session, and once more for every message of it that
\* was deleted, whatever the number of messages and however fast they follow.
THEOREM TeamAlertedOnce == Support!Spec => []AlertedOnce
<1>1. Support!Init => SupportInv
  BY SupportInit
<1>2. SupportInv /\ [Support!Next]_(Support!vars) => SupportInv'
  BY SupportNext
<1>3. SupportInv => AlertedOnce
  BY OpenersAreFew
<1> QED
  BY <1>1, <1>2, <1>3, PTL DEF Support!Spec

-----------------------------------------------------------------------------
(* The video of a lesson *)

Picked == Video!Uploads \cup {Video!NoUpload}
Format == Formats \cup {Video!None}

VideoTypes ==
    /\ row \in [key : Format, type : {Video!None, "mp4", "hls"},
                status : {Video!None, "pending", "processing", "ready", "failed"}]
    /\ stored \in [Formats -> Picked]
    /\ hls \in [of : Picked, whole : BOOLEAN]
    /\ open \subseteq Video!Uploads
    /\ upload \in [at : Video!Busy \cup {"idle", "error", "done"}, upload : Picked, format : Format]
    /\ completing \in [at : {"idle", "join", "clean", "save"}, upload : Picked, format : Format]
    /\ deleting \in {"no", "objects", "row"}
    /\ converter \in [at : {"off", "find", "leave", "claim", "read", "encode", "wipe", "put",
                            "putRest", "finish", "fail", "down"},
                      key : Format, source : Picked]
    /\ uploads \in 0..LastUpload
    /\ deaths \in 0..MaxRestarts
    /\ upload.at \in Video!Busy => upload.upload \in Video!Uploads /\ upload.format \in Formats
    /\ completing.at # "idle" =>
          completing.upload \in Video!Uploads /\ completing.format \in Formats
    /\ completing.at = "idle" => completing = Video!Resting
    /\ row.status \in {"pending", "processing"} => row.key \in Formats
    /\ converter.at = "encode" => converter.key \in Formats

AtWork == {"read", "encode", "wipe", "put", "putRest", "finish", "fail"}

\* What waits for the worker or is in its hands has no HLS files yet that are served,
\* and is not being removed.
QueuedIsRaw ==
    row.status \in {"pending", "processing"} =>
       row.key \notin Playlists /\ row.type = "mp4" /\ deleting = "no"

\* The worker converts what is to be converted, unless a playlist replaced it meanwhile,
\* and puts the files of one upload.
WorkerHasLesson ==
    /\ converter.at \in AtWork => row.status \in {"pending", "processing"} \/ row.key \in Playlists
    /\ converter.at = "putRest" => hls.of = converter.source
    /\ converter.at = "finish" => hls.whole

\* Nothing is uploaded or converted while the video is removed.
RemovedAlone ==
    deleting # "no" =>
       completing = Video!Resting /\ upload.at \notin Video!Busy /\ converter.at \notin AtWork

VideoInv == VideoTypes /\ QueuedIsRaw /\ WorkerHasLesson /\ RemovedAlone /\ ServedIsWhole

\* The types hold at first, and the invariant.
LEMMA VideoInit == Video!Init => VideoInv
BY VideoAssumption
   DEF Video!Init, VideoInv, VideoTypes, QueuedIsRaw, WorkerHasLesson, RemovedAlone, AtWork,
       ServedIsWhole, Video!ServedIsWhole, Picked, Format, Video!NoVideo, Video!NoHls,
       Video!Resting, Video!Off, Video!NoUpload, Video!None, Video!Busy, Video!Uploads

\* A step of the page keeps the invariant.
LEMMA PageKeepsVideo ==
  ASSUME VideoInv, ~Hasty,
         \/ \E f \in Formats : Video!Pick(f)
         \/ Video!InitAnswered \/ Video!PartFails \/ Video!PartsDone \/ Video!Cancel
  PROVE  VideoInv'
<1> USE VideoAssumption
    DEF VideoInv, VideoTypes, QueuedIsRaw, WorkerHasLesson, RemovedAlone, AtWork,
        ServedIsWhole, Video!ServedIsWhole, Picked, Format, Video!Resting,
        Video!NoUpload, Video!None, Video!Busy, Video!Uploads
<1>1. ASSUME NEW f \in Formats, Video!Pick(f) PROVE VideoInv'
  BY <1>1 DEF Video!Pick, Video!store
<1>2. CASE Video!InitAnswered
  BY <1>2 DEF Video!InitAnswered, Video!store, Video!bounds
<1>3. CASE Video!PartFails
  BY <1>3 DEF Video!PartFails, Video!store, Video!bounds
<1>4. CASE Video!PartsDone
  BY <1>4 DEF Video!PartsDone, Video!store, Video!bounds
<1>5. CASE Video!Cancel
  BY <1>5 DEF Video!Cancel, Video!store, Video!bounds
<1> QED
  BY <1>1, <1>2, <1>3, <1>4, <1>5

\* A step of the request that completes an upload keeps it.
LEMMA CompletionKeepsVideo ==
  ASSUME VideoInv,
         Video!Join \/ Video!Clean \/ Video!Save \/ Video!CompleteFails
  PROVE  VideoInv'
<1> USE VideoAssumption
    DEF VideoInv, VideoTypes, QueuedIsRaw, WorkerHasLesson, RemovedAlone, AtWork,
        ServedIsWhole, Video!ServedIsWhole, Picked, Format, Video!Resting,
        Video!NoUpload, Video!None, Video!Busy, Video!Uploads
<1>1. CASE Video!Join
  BY <1>1 DEF Video!Join, Video!bounds
<1>2. CASE Video!Clean
  BY <1>2 DEF Video!Clean, Video!bounds
<1>3. CASE Video!Save
  BY <1>3 DEF Video!Save, Video!store, Video!bounds, Video!Completed, Video!Kicked, Video!Off,
              Video!Told
<1>4. CASE Video!CompleteFails
  BY <1>4 DEF Video!CompleteFails, Video!store, Video!bounds, Video!Told
<1> QED
  BY <1>1, <1>2, <1>3, <1>4

\* A step of the removal keeps it.
LEMMA RemovalKeepsVideo ==
  ASSUME VideoInv, ~Hasty, Video!Delete \/ Video!DeleteObjects \/ Video!DeleteRow
  PROVE  VideoInv'
<1> USE VideoAssumption
    DEF VideoInv, VideoTypes, QueuedIsRaw, WorkerHasLesson, RemovedAlone, AtWork,
        ServedIsWhole, Video!ServedIsWhole, Picked, Format, Video!Resting,
        Video!NoUpload, Video!None, Video!Busy, Video!Uploads
<1>1. CASE Video!Delete
  BY <1>1 DEF Video!Delete, Video!store, Video!bounds, Video!Off
<1>2. CASE Video!DeleteObjects
  BY <1>2 DEF Video!DeleteObjects, Video!bounds, Video!NoHls
<1>3. CASE Video!DeleteRow
  BY <1>3 DEF Video!DeleteRow, Video!store, Video!bounds, Video!NoVideo
<1> QED
  BY <1>1, <1>2, <1>3

\* A step of the worker keeps it.
LEMMA WorkerKeepsVideo ==
  ASSUME VideoInv, Video!WorkerStep \/ Video!SafetyKick \/ Video!Boot \/ Video!Crash
  PROVE  VideoInv'
<1> USE VideoAssumption
    DEF VideoInv, VideoTypes, QueuedIsRaw, WorkerHasLesson, RemovedAlone, AtWork,
        ServedIsWhole, Video!ServedIsWhole, Picked, Format, Video!Resting,
        Video!NoUpload, Video!None, Video!Busy, Video!Uploads, Video!At, Video!GoTo,
        Video!OnlyWorker, Video!store, Video!bounds, Video!Off
<1>1. CASE Video!SafetyKick
  BY <1>1 DEF Video!SafetyKick, Video!Kicked
<1>2. CASE Video!Find
  BY <1>2 DEF Video!Find
<1>3. CASE Video!Leave
  BY <1>3 DEF Video!Leave
<1>4. CASE Video!Claim
  BY <1>4 DEF Video!Claim
<1>5. CASE Video!Read
  <2>1. CASE row.key = Video!None
    BY <1>5, <2>1 DEF Video!Read
  <2>2. CASE converter' = Video!Off /\ UNCHANGED row
    BY <1>5, <2>2 DEF Video!Read
  <2>3. CASE /\ row.key # Video!None
             /\ converter' = [converter EXCEPT !.at = "encode", !.key = row.key]
             /\ UNCHANGED row
    <3>1. /\ converter' \in [at : {"encode"}, key : Format, source : Picked]
          /\ converter'.key = row.key
      BY <2>3
    <3> QED
      BY <1>5, <2>3, <3>1 DEF Video!Read
  <2> QED
    BY <1>5, <2>1, <2>2, <2>3 DEF Video!Read
<1>6. CASE Video!Encode
  <2>1. CASE converter' = [converter EXCEPT !.at = "wipe", !.source = stored[converter.key]]
    <3>1. stored[converter.key] \in Picked
      BY <1>6 DEF Video!Encode
    <3>2. converter' \in [at : {"wipe"}, key : Format, source : Picked]
      BY <2>1, <3>1
    <3> QED
      BY <1>6, <3>2 DEF Video!Encode
  <2>2. CASE converter' = [converter EXCEPT !.at = "fail"]
    <3>1. converter' \in [at : {"fail"}, key : Format, source : Picked]
      BY <2>2
    <3> QED
      BY <1>6, <3>1 DEF Video!Encode
  <2> QED
    BY <1>6, <2>1, <2>2 DEF Video!Encode
<1>7. CASE Video!Wipe
  <2>1. converter' \in [at : {"put"}, key : Format, source : Picked]
    BY <1>7 DEF Video!Wipe
  <2>2. hls' \in [of : Picked, whole : BOOLEAN]
    <3>1. [of |-> 0, whole |-> FALSE] \in [of : Picked, whole : BOOLEAN]
      OBVIOUS
    <3> QED
      BY <1>7, <3>1 DEF Video!Wipe, Video!NoHls
  <2> QED
    BY <1>7, <2>1, <2>2 DEF Video!Wipe
<1>8. CASE Video!Put
  <2>1. converter' \in [at : {"putRest", "fail"}, key : Format, source : Picked]
    BY <1>8 DEF Video!Put
  <2>2. hls' \in [of : Picked, whole : BOOLEAN]
    <3>1. converter.source \in Picked
      OBVIOUS
    <3>2. [of |-> converter.source, whole |-> FALSE] \in [of : Picked, whole : BOOLEAN]
      BY <3>1
    <3> QED
      BY <1>8, <3>2 DEF Video!Put
  <2>3. converter'.at = "putRest" => hls'.of = converter'.source
    BY <1>8 DEF Video!Put
  <2> QED
    BY <1>8, <2>1, <2>2, <2>3 DEF Video!Put
<1>9. CASE Video!PutRest
  <2>1. converter' \in [at : {"finish", "fail"}, key : Format, source : Picked]
    BY <1>9 DEF Video!PutRest
  <2> DEFINE put == [of |-> converter.source, whole |-> hls.of = converter.source]
  <2>2. put \in [of : Picked, whole : BOOLEAN] /\ (converter.at = "putRest" => put.whole)
    <3>1. converter.source \in Picked /\ (hls.of = converter.source) \in BOOLEAN
      OBVIOUS
    <3>2. put.whole = (hls.of = converter.source)
      OBVIOUS
    <3> QED
      BY <3>1, <3>2
  <2>3. /\ \/ hls' = put /\ converter' = [converter EXCEPT !.at = "finish"]
           \/ converter' = [converter EXCEPT !.at = "fail"] /\ UNCHANGED hls
        /\ converter.at = "putRest"
    BY <1>9 DEF Video!PutRest
  <2> HIDE DEF put
  <2>4. hls' \in [of : Picked, whole : BOOLEAN] /\ (converter'.at = "finish" => hls'.whole)
    BY <2>2, <2>3
  <2> QED
    BY <1>9, <2>1, <2>4 DEF Video!PutRest
<1>10. CASE Video!Finish
  <2>1. converter' = [at |-> "find", key |-> Video!None, source |-> Video!NoUpload]
    BY <1>10 DEF Video!Finish
  <2>2. CASE converter.at = "finish"
    <3>1. row' = [row EXCEPT !.type = "hls", !.status = "ready"]
      BY <1>10, <2>2 DEF Video!Finish
    <3>2. row' \in [key : Format, type : {"hls"}, status : {"ready"}] /\ row'.key = row.key
      BY <3>1
    <3> QED
      BY <1>10, <2>1, <2>2, <3>2 DEF Video!Finish
  <2>3. CASE converter.at = "fail"
    <3>1. row' = [row EXCEPT !.status = "failed"]
      BY <1>10, <2>3 DEF Video!Finish
    <3> QED
      BY <1>10, <2>1, <2>3, <3>1 DEF Video!Finish
  <2> QED
    BY <1>10, <2>2, <2>3 DEF Video!Finish
<1>11. CASE Video!Crash
  BY <1>11 DEF Video!Crash, Video!Told
<1>12. CASE Video!Boot
  BY <1>12 DEF Video!Boot, Video!Reset
<1> QED
  BY <1>1, <1>2, <1>3, <1>4, <1>5, <1>6, <1>7, <1>8, <1>9, <1>10, <1>11, <1>12
     DEF Video!WorkerStep

\* Every step keeps the invariant.
LEMMA VideoNext ==
  ASSUME VideoInv, ~Hasty, [Video!Next]_(Video!vars)
  PROVE  VideoInv'
<1>1. CASE Video!Next
  BY <1>1, PageKeepsVideo, CompletionKeepsVideo, RemovalKeepsVideo, WorkerKeepsVideo DEF Video!Next
<1>2. CASE UNCHANGED Video!vars
  BY <1>2 DEF Video!vars, Video!store, Video!bounds, VideoInv, VideoTypes, QueuedIsRaw,
       WorkerHasLesson, RemovedAlone, ServedIsWhole, Video!ServedIsWhole
<1> QED
  BY <1>1, <1>2

\* What members are given as HLS of a video that was converted is all there and of one
\* upload, except while the video is being removed, whatever videos and playlists replace
\* each other, as long as nothing is removed while one of the lesson is worked on.
THEOREM ServedVideoIsWhole == ~Hasty => (Video!Spec => []ServedIsWhole)
<1> SUFFICES ASSUME ~Hasty PROVE Video!Spec => []ServedIsWhole
  OBVIOUS
<1>1. Video!Init => VideoInv
  BY VideoInit
<1>2. VideoInv /\ [Video!Next]_(Video!vars) => VideoInv'
  BY VideoNext
<1>3. VideoInv => ServedIsWhole
  BY DEF VideoInv
<1> QED
  BY <1>1, <1>2, <1>3, PTL DEF Video!Spec

-----------------------------------------------------------------------------
(* The support chat *)

TalkTypes ==
    /\ Talk!TypeOK
    /\ posting.at = "told" => posting.number \in (1..sent) \ told

\* A snapshot, of a time when n messages or fewer had been written, that hides no
\* message of the last ones that exist: it has it, or was made before it.
Harmless(snapshot, n, present) ==
    /\ \A v, w \in snapshot : v.id = w.id => v = w
    /\ \A m \in present : n - m < Window =>
          m \in Talk!Ids(snapshot) \/ \A k \in Talk!Ids(snapshot) : k < m
    /\ \A k \in Talk!Ids(snapshot) : k <= n

OnTheWay ==
    /\ \A i \in 1..Len(pushed) : Harmless(pushed[i], sent, existing)
    /\ \A snapshot \in asked : Harmless(snapshot, sent, existing)

\* A message is twice on the page only once the answer to its post was put there.
ShownOnce == \A v, w \in view : v.id = w.id /\ v.id \notin told => v = w

TalkInv == TalkTypes /\ OnTheWay /\ ShownOnce /\ Talk!SentStaysVisible

\* The invariant holds at first.
LEMMA TalkInit == Talk!Init => TalkInv
<1> USE ChatAssumption DEF Talk!Init
<1>1. Talk!Init => TalkTypes
  <2>1. Talk!Init => Talk!NotPosting \in [at : {"no", "asked", "told"}, number : 0..LastMessage]
    BY DEF Talk!NotPosting
  <2>2. <<>> \in Seq(SUBSET Talk!Shows)
    OBVIOUS
  <2> QED
    BY <2>1, <2>2 DEF TalkTypes, Talk!TypeOK, Talk!NotPosting
<1>2. Talk!Init => OnTheWay /\ ShownOnce /\ Talk!SentStaysVisible
  BY DEF OnTheWay, ShownOnce, Talk!SentStaysVisible
<1> QED
  BY <1>1, <1>2 DEF TalkInv

\* Some message of a snapshot is the oldest.
LEMMA OldestIsShown ==
  ASSUME NEW S \in SUBSET Talk!Shows, S # {}
  PROVE  Talk!Oldest(S) \in Talk!Ids(S)
<1> DEFINE I == Talk!Ids(S)
           R == OpToRel(<, Nat)
<1>1. I \subseteq Nat /\ I # {}
  BY DEF Talk!Ids, Talk!Shows, Talk!Numbers
<1>2. IsWellFoundedOn(R, Nat)
  BY NatLessThanWellFounded
<1> HIDE DEF I, R
<1>3. PICK m \in I : \A k \in I : <<k, m>> \notin R
  BY <1>1, <1>2, WFMin
<1>4. ASSUME NEW k \in I PROVE m <= k
  <2>1. <<k, m>> \notin R
    BY <1>3
  <2> QED
    BY <1>1, <2>1 DEF OpToRel, R
<1> QED
  BY <1>4 DEF Talk!Oldest, I

\* A snapshot that is taken now hides none of the last messages.
LEMMA SnapshotIsHarmless ==
  ASSUME TalkTypes
  PROVE  /\ Talk!Snapshot \in SUBSET Talk!Shows
         /\ Harmless(Talk!Snapshot, sent, existing)
         /\ Talk!SignatureOf(Talk!Snapshot) \subseteq Talk!Numbers \X Nat
<1> USE ChatAssumption DEF Talk!Numbers
<1>1. /\ sent \in 0..LastMessage /\ existing \subseteq 1..sent
      /\ reactions \in [1..LastMessage -> SUBSET Emojis]
  BY DEF TalkTypes, Talk!TypeOK
<1>2. Talk!LastMessages \subseteq existing
  BY DEF Talk!LastMessages
<1>3. Talk!Snapshot \in SUBSET Talk!Shows
  BY <1>1, <1>2 DEF Talk!Snapshot, Talk!Shown, Talk!Shows
<1>4. Talk!Ids(Talk!Snapshot) = Talk!LastMessages
  <2>1. \A m : Talk!Shown(m, 1).id = m
    BY DEF Talk!Shown
  <2> QED
    BY <2>1 DEF Talk!Ids, Talk!Snapshot
<1>5. ASSUME NEW m \in existing, sent - m < Window
      PROVE  m \in Talk!LastMessages
  <2>1. m \in Int /\ sent \in Int /\ m <= sent
    BY <1>1
  <2>2. IsFiniteSet((m + 1)..sent) /\ Cardinality((m + 1)..sent) = sent - m
    <3>1. /\ IsFiniteSet((m + 1)..sent)
          /\ Cardinality((m + 1)..sent) = IF m + 1 > sent THEN 0 ELSE sent - (m + 1) + 1
      BY <2>1, FS_Interval
    <3> QED
      BY <2>1, <3>1
  <2>3. {k \in existing : k > m} \in SUBSET ((m + 1)..sent)
    <3>1. existing \subseteq 1..sent /\ m \in Nat /\ sent \in Nat
      BY <1>1
    <3> SUFFICES ASSUME NEW k \in existing, k > m PROVE k \in (m + 1)..sent
      OBVIOUS
    <3>2. k \in 1..sent
      BY <3>1
    <3> QED
      BY <3>1, <3>2
  <2>4. Cardinality({k \in existing : k > m}) <= sent - m
    BY <2>2, <2>3, FS_Subset
  <2>5. IsFiniteSet({k \in existing : k > m})
    BY <2>2, <2>3, FS_Subset
  <2>6. Cardinality({k \in existing : k > m}) \in Nat
    BY <2>5, FS_CardinalityType
  <2> HIDE DEF Talk!LastMessages
  <2>7. Talk!Cardinality({k \in existing : k > m}) < Window
    BY <1>5, <2>1, <2>4, <2>6 DEF Cardinality, Talk!Cardinality
  <2> QED
    BY <2>7 DEF Talk!LastMessages
<1>6. Harmless(Talk!Snapshot, sent, existing)
  <2>1. \A v, w \in Talk!Snapshot : v.id = w.id => v = w
    BY DEF Talk!Snapshot, Talk!Shown
  <2>2. \A k \in Talk!Ids(Talk!Snapshot) : k <= sent
    <3>1. existing \subseteq 1..sent /\ sent \in Nat
      BY <1>1
    <3> SUFFICES ASSUME NEW k \in Talk!Ids(Talk!Snapshot) PROVE k <= sent
      OBVIOUS
    <3>2. k \in 1..sent
      BY <1>2, <1>4, <3>1
    <3> QED
      BY <3>1, <3>2
  <2> QED
    BY <1>4, <1>5, <2>1, <2>2 DEF Harmless
<1>7. Talk!SignatureOf(Talk!Snapshot) \subseteq (1..LastMessage) \X Nat
  <2> SUFFICES ASSUME NEW v \in Talk!Snapshot
               PROVE  v.id \in 1..LastMessage /\ Talk!Cardinality(v.reactions) \in Nat
    BY DEF Talk!SignatureOf
  <2>1. v.id \in 1..LastMessage /\ v.reactions \in SUBSET Emojis
    BY <1>3 DEF Talk!Shows
  <2>2. IsFiniteSet(v.reactions)
    BY <2>1, FS_Subset
  <2> QED
    BY <2>1, <2>2, FS_CardinalityType DEF Cardinality, Talk!Cardinality
<1> QED
  BY <1>3, <1>6, <1>7

\* Putting such a snapshot on the page hides none of the last messages either.
LEMMA MergeIsHarmless ==
  ASSUME TalkInv, NEW S \in SUBSET Talk!Shows, Harmless(S, sent, existing),
         view' = Talk!Merge(S), UNCHANGED <<told, existing, sent>>
  PROVE  view' \subseteq Talk!Shows /\ ShownOnce' /\ Talk!SentStaysVisible'
<1>1. view \subseteq Talk!Shows /\ ShownOnce /\ Talk!SentStaysVisible
      /\ told \subseteq 1..sent /\ sent \in Nat
  BY ChatAssumption DEF TalkInv, TalkTypes, Talk!TypeOK
<1>2. view' \subseteq Talk!Shows
  BY <1>1 DEF Talk!Merge
<1>3. ShownOnce'
  BY <1>1 DEF ShownOnce, Talk!Merge, Talk!Ids, Harmless
<1>4. ASSUME NEW m \in told \cap existing, sent - m < Window
      PROVE  m \in Talk!Ids(view')
  <2>1. m \in Talk!Ids(view)
    BY <1>1, <1>4 DEF Talk!SentStaysVisible
  <2>2. CASE m \in Talk!Ids(S)
    BY <2>2 DEF Talk!Merge, Talk!Ids
  <2>3. CASE m \notin Talk!Ids(S)
    <3>1. \A k \in Talk!Ids(S) : k < m
      BY <1>4, <2>3 DEF Harmless
    <3>2. S # {} => m >= Talk!Oldest(S)
      <4>1. m \in Int /\ Talk!Ids(S) \subseteq Int
        BY <1>1 DEF Talk!Ids, Talk!Shows, Talk!Numbers
      <4> QED
        BY <3>1, <4>1, OldestIsShown
    <3>3. PICK v \in view : v.id = m
      BY <2>1 DEF Talk!Ids
    <3>4. v \in Talk!Merge(S)
      BY <2>3, <3>2, <3>3 DEF Talk!Merge
    <3> QED
      BY <3>3, <3>4 DEF Talk!Ids
  <2> QED
    BY <2>2, <2>3
<1>5. Talk!SentStaysVisible'
  BY <1>4 DEF Talk!SentStaysVisible
<1> QED
  BY <1>2, <1>3, <1>5

\* Snapshots on their way stay harmless while messages are written and deleted.
LEMMA HarmlessStays ==
  ASSUME NEW S, S \in SUBSET Talk!Shows, NEW n \in Nat, NEW k \in Nat, n <= k,
         NEW old \in SUBSET (1..n), NEW new, new \subseteq old \cup (n + 1)..k,
         Harmless(S, n, old)
  PROVE  Harmless(S, k, new)
<1>1. ASSUME NEW m \in new, k - m < Window
      PROVE  m \in Talk!Ids(S) \/ \A i \in Talk!Ids(S) : i < m
  <2>1. Talk!Ids(S) \subseteq Nat
    BY DEF Talk!Ids, Talk!Shows, Talk!Numbers
  <2>2. \A i \in Talk!Ids(S) : i <= n
    BY DEF Harmless
  <2>3. CASE m \in old
    <3>1. m \in Nat /\ n - m < Window
      BY <1>1, <2>3, ChatAssumption
    <3> QED
      BY <2>3, <3>1 DEF Harmless
  <2>4. CASE m \in (n + 1)..k
    BY <2>1, <2>2, <2>4
  <2> QED
    BY <2>3, <2>4
<1>2. \A i \in Talk!Ids(S) : i <= k
  BY DEF Harmless, Talk!Ids, Talk!Shows, Talk!Numbers
<1> QED
  BY <1>1, <1>2 DEF Harmless

\* So the invariant of the snapshots holds of what remains, and of one taken now.
LEMMA OnTheWayStays ==
  ASSUME TalkInv, sent' \in Nat, sent <= sent',
         existing' \subseteq existing \cup (sent + 1)..sent',
         UNCHANGED <<pushed, asked>>
  PROVE  OnTheWay'
<1>1. /\ sent \in Nat /\ existing \in SUBSET (1..sent)
      /\ pushed \in Seq(SUBSET Talk!Shows) /\ asked \subseteq SUBSET Talk!Shows
  BY ChatAssumption DEF TalkInv, TalkTypes, Talk!TypeOK
<1>2. OnTheWay
  BY DEF TalkInv
<1>3. \A i \in 1..Len(pushed) : Harmless(pushed[i], sent', existing')
  <2> SUFFICES ASSUME NEW i \in 1..Len(pushed) PROVE Harmless(pushed[i], sent', existing')
    OBVIOUS
  <2>1. pushed[i] \in SUBSET Talk!Shows /\ Harmless(pushed[i], sent, existing)
    BY <1>1, <1>2 DEF OnTheWay
  <2> QED
    BY <1>1, <2>1, HarmlessStays
<1>4. \A S \in asked : Harmless(S, sent', existing')
  <2> SUFFICES ASSUME NEW S \in asked PROVE Harmless(S, sent', existing')
    OBVIOUS
  <2>1. S \in SUBSET Talk!Shows /\ Harmless(S, sent, existing)
    BY <1>1, <1>2 DEF OnTheWay
  <2> QED
    BY <1>1, <2>1, HarmlessStays
<1> QED
  BY <1>3, <1>4 DEF OnTheWay

\* The server: a message is written or deleted, an administrator reacts.
LEMMA ServerKeepsTalk ==
  ASSUME TalkInv,
         \/ Talk!Answer
         \/ \E m \in Talk!Numbers : Talk!React(m) \/ Talk!DeleteElsewhere(m)
         \/ Talk!Accept
         \/ Talk!Post \/ Talk!Refuse \/ Talk!NotTold
         \/ UNCHANGED Talk!vars
  PROVE  TalkInv'
<1> USE ChatAssumption DEF Talk!NotPosting
<1>1. /\ sent \in 0..LastMessage /\ existing \subseteq 1..sent /\ told \subseteq 1..sent
      /\ posting \in [at : {"no", "asked", "told"}, number : 0..LastMessage]
      /\ posting.at = "told" => posting.number \in (1..sent) \ told
      /\ ShownOnce /\ Talk!SentStaysVisible
  BY DEF TalkInv, TalkTypes, Talk!TypeOK
<1>2. UNCHANGED <<stream, signature, pushed, asked, view, told>>
  BY DEF Talk!Answer, Talk!React, Talk!DeleteElsewhere, Talk!Accept, Talk!Post, Talk!Refuse,
         Talk!NotTold, Talk!transport, Talk!server, Talk!vars
<1>3. /\ sent' \in sent..LastMessage
      /\ existing' \subseteq existing \cup (sent + 1)..sent'
  <2>1. CASE Talk!Answer \/ Talk!Accept
    BY <1>1, <2>1 DEF Talk!Answer, Talk!Accept, Talk!Create
  <2>2. CASE ~(Talk!Answer \/ Talk!Accept)
    <3>1. sent' = sent /\ existing' \subseteq existing
      BY <2>2 DEF Talk!React, Talk!DeleteElsewhere, Talk!Post, Talk!Refuse, Talk!NotTold,
                  Talk!server, Talk!vars
    <3> QED
      BY <1>1, <3>1
  <2> QED
    BY <2>1, <2>2
<1>4. reactions' \in [Talk!Numbers -> SUBSET Emojis]
  <2>0. reactions \in [Talk!Numbers -> SUBSET Emojis]
    BY DEF TalkInv, TalkTypes, Talk!TypeOK
  <2>1. CASE \E m \in Talk!Numbers : Talk!React(m)
    BY <2>0, <2>1 DEF Talk!React
  <2>2. CASE reactions' = reactions
    BY <2>0, <2>2
  <2> QED
    BY <2>1, <2>2 DEF Talk!Answer, Talk!DeleteElsewhere, Talk!Accept, Talk!Post, Talk!Refuse,
         Talk!NotTold, Talk!server, Talk!vars
<1>5. /\ posting' \in [at : {"no", "asked", "told"}, number : 0..LastMessage]
      /\ posting'.at = "told" => posting'.number \in (1..sent') \ told
  <2>1. CASE Talk!Accept
    BY <1>1, <2>1 DEF Talk!Accept, Talk!Create
  <2>2. CASE Talk!Post \/ Talk!Refuse \/ Talk!NotTold
    BY <1>1, <2>2 DEF Talk!Post, Talk!Refuse, Talk!NotTold
  <2>3. CASE posting' = posting
    BY <1>1, <1>3, <2>3
  <2> QED
    BY <2>1, <2>2, <2>3 DEF Talk!Answer, Talk!React, Talk!DeleteElsewhere, Talk!vars
<1>6. existing' \subseteq 1..sent' /\ told' \subseteq 1..sent' /\ sent' \in 0..LastMessage
  BY <1>1, <1>2, <1>3
<1>7. TalkTypes'
  BY <1>2, <1>4, <1>5, <1>6 DEF TalkInv, TalkTypes, Talk!TypeOK
<1>8. OnTheWay'
  BY <1>1, <1>2, <1>3, OnTheWayStays
<1>9. ShownOnce'
  BY <1>1, <1>2 DEF ShownOnce
<1>10. Talk!SentStaysVisible'
  <2> SUFFICES ASSUME NEW m \in told \cap existing', sent' - m < Window
               PROVE  m \in Talk!Ids(view)
    BY <1>2 DEF Talk!SentStaysVisible
  <2>1. m \in existing /\ m \in 1..sent
    BY <1>1, <1>3
  <2>2. sent - m < Window
    <3>1. sent \in Int /\ sent' \in Int /\ m \in Int /\ sent <= sent'
      BY <1>1, <1>3, <2>1
    <3>2. Window \in Int /\ sent' - m < Window
      OBVIOUS
    <3>3. \A a, b, i, w \in Int : a <= b /\ b - i < w => a - i < w
      OBVIOUS
    <3> QED
      BY <3>1, <3>2, <3>3
  <2> QED
    BY <1>1, <2>1, <2>2 DEF Talk!SentStaysVisible
<1> QED
  BY <1>7, <1>8, <1>9, <1>10 DEF TalkInv

\* The stream connects, pushes, and breaks; a snapshot is asked for.
LEMMA TransportKeepsTalk ==
  ASSUME TalkInv, Talk!Connect \/ Talk!Tick \/ Talk!Disconnect \/ Talk!Ask
  PROVE  TalkInv'
<1> USE ChatAssumption
<1> DEFINE now == Talk!Snapshot
<1>1. TalkTypes /\ OnTheWay /\ ShownOnce /\ Talk!SentStaysVisible
  BY DEF TalkInv
<1>2. /\ now \in SUBSET Talk!Shows /\ Harmless(now, sent, existing)
      /\ Talk!SignatureOf(now) \subseteq Talk!Numbers \X Nat
  BY <1>1, SnapshotIsHarmless
<1> HIDE DEF now
<1>3. /\ pushed \in Seq(SUBSET Talk!Shows) /\ asked \subseteq SUBSET Talk!Shows
      /\ signature \subseteq Talk!Numbers \X Nat /\ stream \in BOOLEAN
  BY <1>1 DEF TalkTypes, Talk!TypeOK
<1>4. UNCHANGED <<sent, existing, reactions, posting, view, told>>
  BY DEF Talk!Connect, Talk!Tick, Talk!Disconnect, Talk!Ask, Talk!server
<1>5. /\ stream' \in BOOLEAN /\ signature' \subseteq Talk!Numbers \X Nat
      /\ pushed' \in {pushed, <<>>, <<now>>, Append(pushed, now)}
      /\ asked' \in {asked, asked \cup {now}}
  <2>1. CASE Talk!Connect
    BY <1>2, <1>3, <2>1 DEF Talk!Connect, now
  <2>2. CASE Talk!Tick
    BY <1>2, <1>3, <2>2 DEF Talk!Tick, now
  <2>3. CASE Talk!Disconnect
    BY <1>3, <2>3 DEF Talk!Disconnect
  <2>4. CASE Talk!Ask
    BY <1>3, <2>4 DEF Talk!Ask, now
  <2> QED
    BY <2>1, <2>2, <2>3, <2>4
<1>6. /\ pushed' \in Seq(SUBSET Talk!Shows)
      /\ \A i \in 1..Len(pushed') : pushed'[i] = now \/ \E j \in 1..Len(pushed) : pushed'[i] = pushed[j]
  <2>1. CASE pushed' = pushed
    BY <1>3, <2>1
  <2>2. CASE pushed' = <<>>
    BY <2>2
  <2>3. CASE pushed' = <<now>>
    BY <1>2, <2>3
  <2>4. CASE pushed' = Append(pushed, now)
    BY <1>2, <1>3, <2>4
  <2> QED
    BY <1>5, <2>1, <2>2, <2>3, <2>4
<1>7. asked' \subseteq SUBSET Talk!Shows /\ \A S \in asked' : S = now \/ S \in asked
  BY <1>2, <1>3, <1>5
<1>8. TalkTypes'
  BY <1>1, <1>4, <1>5, <1>6, <1>7 DEF TalkTypes, Talk!TypeOK
<1>9. OnTheWay'
  BY <1>1, <1>2, <1>4, <1>6, <1>7 DEF OnTheWay
<1>10. ShownOnce' /\ Talk!SentStaysVisible'
  BY <1>1, <1>4 DEF ShownOnce, Talk!SentStaysVisible
<1> QED
  BY <1>8, <1>9, <1>10 DEF TalkInv

\* A snapshot arrives, or is lost.
LEMMA ReceiveKeepsTalk ==
  ASSUME TalkInv, Talk!ReceivePushed \/ Talk!ReceiveAsked
  PROVE  TalkInv'
<1>1. TalkTypes /\ OnTheWay /\ ShownOnce /\ Talk!SentStaysVisible
  BY DEF TalkInv
<1>2. pushed \in Seq(SUBSET Talk!Shows) /\ asked \subseteq SUBSET Talk!Shows
      /\ view \subseteq Talk!Shows
  BY <1>1 DEF TalkTypes, Talk!TypeOK
<1>3. UNCHANGED <<sent, existing, reactions, stream, signature, posting, told>>
  BY DEF Talk!ReceivePushed, Talk!ReceiveAsked, Talk!server
<1>4. /\ pushed' \in Seq(SUBSET Talk!Shows) /\ asked' \subseteq asked
      /\ \A i \in 1..Len(pushed') : \E j \in 1..Len(pushed) : pushed'[i] = pushed[j]
  <2>1. CASE Talk!ReceivePushed
    <3>1. pushed # <<>> /\ pushed' = Tail(pushed) /\ asked' = asked
      BY <2>1 DEF Talk!ReceivePushed
    <3>2. /\ Tail(pushed) \in Seq(SUBSET Talk!Shows) /\ Len(Tail(pushed)) = Len(pushed) - 1
          /\ \A i \in 1..Len(Tail(pushed)) : Tail(pushed)[i] = pushed[i + 1]
      BY <1>2, <3>1
    <3>3. Len(pushed) \in Nat
      BY <1>2
    <3> QED
      BY <3>1, <3>2, <3>3
  <2>2. CASE Talk!ReceiveAsked
    BY <1>2, <2>2 DEF Talk!ReceiveAsked
  <2> QED
    BY <2>1, <2>2
<1>5. \/ view' = view
      \/ \E S \in SUBSET Talk!Shows : Harmless(S, sent, existing) /\ view' = Talk!Merge(S)
  <2>1. CASE Talk!ReceivePushed
    <3>1. pushed # <<>> /\ view' = Talk!Merge(Head(pushed))
      BY <2>1 DEF Talk!ReceivePushed
    <3>2. Head(pushed) = pushed[1] /\ 1 \in 1..Len(pushed) /\ pushed[1] \in SUBSET Talk!Shows
      BY <1>2, <3>1
    <3> QED
      BY <1>1, <3>1, <3>2 DEF OnTheWay
  <2>2. CASE Talk!ReceiveAsked
    BY <1>1, <1>2, <2>2 DEF Talk!ReceiveAsked, OnTheWay
  <2> QED
    BY <2>1, <2>2
<1>6. view' \subseteq Talk!Shows /\ ShownOnce' /\ Talk!SentStaysVisible'
  <2>1. CASE view' = view
    BY <1>1, <1>2, <1>3, <2>1 DEF ShownOnce, Talk!SentStaysVisible
  <2>2. CASE \E S \in SUBSET Talk!Shows : Harmless(S, sent, existing) /\ view' = Talk!Merge(S)
    BY <1>3, <2>2, MergeIsHarmless
  <2> QED
    BY <1>5, <2>1, <2>2
<1>7. TalkTypes'
  BY <1>1, <1>2, <1>3, <1>4, <1>6 DEF TalkTypes, Talk!TypeOK
<1>8. OnTheWay'
  BY <1>1, <1>3, <1>4 DEF OnTheWay
<1> QED
  BY <1>6, <1>7, <1>8 DEF TalkInv

\* The page is told of its message, which it may have already.
LEMMA ToldKeepsTalk ==
  ASSUME TalkInv, Talk!Told
  PROVE  TalkInv'
<1> USE ChatAssumption
<1> DEFINE m == posting.number
           copies == {shown \in view : shown.id = m}
           new == [id |-> m, reactions |-> {}, copy |-> Talk!Cardinality(copies) + 1]
<1>1. TalkTypes /\ OnTheWay /\ ShownOnce /\ Talk!SentStaysVisible
  BY DEF TalkInv
<1>2. /\ view' = view \cup {new} /\ told' = told \cup {m} /\ posting' = Talk!NotPosting
      /\ posting.at = "told"
      /\ UNCHANGED <<sent, existing, reactions, stream, signature, pushed, asked>>
  BY DEF Talk!Told, Talk!server, Talk!transport
<1>3. m \in (1..sent) \ told /\ sent \in 0..LastMessage /\ view \subseteq Talk!Shows
      /\ told \subseteq 1..sent
  BY <1>1, <1>2 DEF TalkTypes, Talk!TypeOK
<1>4. Talk!Cardinality(copies) \in 0..1
  <2>1. \A v, w \in copies : v = w
    BY <1>1, <1>3 DEF ShownOnce
  <2>2. copies = {} \/ \E v : copies = {v}
    BY <2>1
  <2> HIDE DEF copies
  <2>3. Cardinality(copies) = 0 \/ Cardinality(copies) = 1
    BY <2>2, FS_EmptySet, FS_Singleton, Zenon
  <2> QED
    BY <2>3 DEF Cardinality, Talk!Cardinality
<1> HIDE DEF copies
<1>5. new \in Talk!Shows /\ new.id = m
  BY <1>3, <1>4 DEF Talk!Shows, Talk!Numbers
<1> HIDE DEF new
<1>6. TalkTypes'
  <2>1. Talk!NotPosting \in [at : {"no", "asked", "told"}, number : 0..LastMessage]
        /\ Talk!NotPosting.at # "told"
    BY DEF Talk!NotPosting
  <2>2. told' \subseteq 1..sent /\ view' \subseteq Talk!Shows
    BY <1>2, <1>3, <1>5
  <2> QED
    BY <1>1, <1>2, <2>1, <2>2 DEF TalkTypes, Talk!TypeOK
<1>7. OnTheWay'
  BY <1>1, <1>2 DEF OnTheWay
<1>8. ShownOnce'
  BY <1>1, <1>2, <1>5 DEF ShownOnce
<1>9. Talk!SentStaysVisible'
  <2>1. m \in Talk!Ids(view') /\ Talk!Ids(view) \subseteq Talk!Ids(view')
    BY <1>2, <1>5 DEF Talk!Ids
  <2> QED
    BY <1>1, <1>2, <2>1 DEF Talk!SentStaysVisible
<1> QED
  BY <1>6, <1>7, <1>8, <1>9 DEF TalkInv

\* The member deletes a message, which takes it off the page.
LEMMA DeleteOwnKeepsTalk ==
  ASSUME TalkInv, NEW m \in Talk!Numbers, Talk!DeleteOwn(m)
  PROVE  TalkInv'
<1> USE ChatAssumption
<1>1. TalkTypes /\ OnTheWay /\ ShownOnce /\ Talk!SentStaysVisible
  BY DEF TalkInv
<1>2. /\ existing' = existing \ {m} /\ view' = {shown \in view : shown.id # m}
      /\ UNCHANGED <<sent, reactions, stream, signature, pushed, asked, posting, told>>
  BY DEF Talk!DeleteOwn, Talk!transport
<1>3. TalkTypes'
  BY <1>1, <1>2 DEF TalkTypes, Talk!TypeOK
<1>4. OnTheWay'
  <2>1. sent \in Nat
    BY <1>1 DEF TalkTypes, Talk!TypeOK
  <2> QED
    BY <1>2, <2>1, OnTheWayStays
<1>5. ShownOnce'
  BY <1>1, <1>2 DEF ShownOnce
<1>6. Talk!SentStaysVisible'
  <2>1. \A k \in Talk!Ids(view) : k # m => k \in Talk!Ids(view')
    BY <1>2 DEF Talk!Ids
  <2> QED
    BY <1>1, <1>2, <2>1 DEF Talk!SentStaysVisible
<1> QED
  BY <1>3, <1>4, <1>5, <1>6 DEF TalkInv

\* Every step keeps the invariant.
LEMMA TalkStep == TalkInv /\ [Talk!Next]_(Talk!vars) => TalkInv'
<1> SUFFICES ASSUME TalkInv, [Talk!Next]_(Talk!vars)
             PROVE  TalkInv'
  OBVIOUS
<1> QED
  BY ServerKeepsTalk, TransportKeepsTalk, ReceiveKeepsTalk, ToldKeepsTalk, DeleteOwnKeepsTalk
     DEF Talk!Next

\* A message the member saw go out stays on the page while it exists and fewer than
\* a window of messages were written after it, whatever snapshots come, and however
\* late.
THEOREM SentMessagesStay == Talk!Spec => []SentStaysVisible
<1>1. Talk!Init => TalkInv
  BY TalkInit
<1>2. TalkInv /\ [Talk!Next]_(Talk!vars) => TalkInv'
  BY TalkStep
<1>3. TalkInv => SentStaysVisible
  BY DEF TalkInv, SentStaysVisible
<1> QED
  BY <1>1, <1>2, <1>3, PTL DEF Talk!Spec

-----------------------------------------------------------------------------
(* A search and the page that follows it *)

RadarTypes ==
    /\ Search!TypeOK
    /\ \A t \in Tabs : /\ starting[t].at \in {"create", "save"} => starting[t].count < DailyLimit
                       /\ starting[t].at \in {"save", "enqueue", "told"} =>
                             starting[t].search # 0 /\ status[starting[t].search] # "none"
    /\ worker.at = "idle" <=> worker.search = 0
    /\ worker.search # 0 => status[worker.search] # "none"
    /\ \A s \in waiting : status[s] # "none"
    /\ page.search # 0 => status[page.search] # "none"
    /\ \A i \in 1..Len(events) : events[i].kind = "lead" => events[i].lead # 0

\* The request of t has yet to queue search s.
YetToQueue(t, s) == starting[t].at \in {"save", "enqueue"} /\ starting[t].search = s

\* A search is queued by one request, and held by the queue or by the worker.
HeldOnce ==
    /\ \A t \in Tabs, s \in Search!Searches :
          YetToQueue(t, s) => /\ s \notin waiting /\ worker.search # s
                              /\ \A u \in Tabs : YetToQueue(u, s) => u = t
    /\ worker.search \notin waiting

\* A page that follows no search is fed by nothing, and one that starts a search
\* follows none; what it is fed is of the search it follows.
Following ==
    /\ starting[Page].at # "no" => page.search = 0
    /\ page.search = 0 => /\ ~polling /\ progress = "closed"
                          /\ answers = {} /\ page.shown = {} /\ ~page.told
    /\ progress # "open" => events = <<>>
    /\ \A answer \in answers : answer.search = page.search
    /\ \A shown \in page.shown : shown[1] = page.search

\* Nobody holds search s any more, but for a worker that has ended it.
Over(s) ==
    /\ status[s] # "none"
    /\ s \notin waiting
    /\ worker.search = s => worker.at \in Search!Ends
    /\ \A t \in Tabs : ~YetToQueue(t, s)

\* Not even the worker holds it.
Gone(s) == Over(s) /\ worker.search # s

EndedIsOver == \A s \in Search!Searches \ stalled : status[s] \in Search!Ends => Over(s)

\* The leads of the page's search are on the page or on their way to it.
LeadsComing ==
    page.search # 0 /\ ~gap /\ progress = "open" =>
        \A l \in 1..leads[page.search] :
            \/ <<page.search, l>> \in page.shown
            \/ \E i \in 1..Len(events) : events[i] = Search!Event("lead", l)

\* Nothing comes after the event of the end.
EndComesLast ==
    page.search \notin stalled =>
        \A i \in 1..Len(events) :
            events[i].kind \in Search!Ends => i = Len(events) /\ Gone(page.search)

\* An answer that tells of the end has all the leads.
AnswersAreWhole ==
    page.search \notin stalled =>
        \A answer \in answers :
            answer.status \in Search!Ends =>
                Over(page.search) /\ leads[page.search] <= answer.leads

\* So has a page that was told of it.
PageIsWhole ==
    page.told /\ page.search \notin stalled =>
        /\ Over(page.search)
        /\ ~gap => \A l \in 1..leads[page.search] : <<page.search, l>> \in page.shown

RadarInv ==
    /\ RadarTypes /\ HeldOnce /\ Following /\ EndedIsOver
    /\ LeadsComing /\ EndComesLast /\ AnswersAreWhole /\ PageIsWhole

\* A search nobody holds stays so.
LEMMA OverStays ==
  ASSUME RadarInv, [Search!Next]_(Search!vars)
  PROVE  \A s \in Search!Searches \ stalled' : Over(s) => Over(s)' /\ (Gone(s) => Gone(s)')
<1> USE SearchAssumption DEF Search!jobs, Search!daily, Search!queued, Search!transport,
     Search!Searches, Search!None, Search!Ends
<1>1. RadarTypes /\ HeldOnce /\ Following
  BY DEF RadarInv
<1>10. CASE Search!StartSearch
  BY <1>10, <1>1 DEF Search!StartSearch, Search!StopStreaming, Search!GoOn, Search!At, RadarTypes,
       HeldOnce, YetToQueue, Search!TypeOK, Over, Gone
<1>11. CASE Search!Follow
  BY <1>11, <1>1 DEF Search!Follow, Search!At, Search!NotStarting, RadarTypes, HeldOnce,
       YetToQueue, Search!TypeOK, Over, Gone
<1>12. CASE Search!NewDay
  BY <1>12, <1>1 DEF Search!NewDay, Search!At, RadarTypes, HeldOnce, YetToQueue, Search!TypeOK,
       Over, Gone
<1>13. CASE \E t \in Tabs : Search!StartElsewhere(t)
  BY <1>13, <1>1 DEF Search!StartElsewhere, Search!At, Search!GoOn, RadarTypes, HeldOnce,
       YetToQueue, Search!TypeOK, Over, Gone
<1>14. CASE \E t \in Tabs : Search!ReadCount(t)
  <2> PICK t \in Tabs : Search!ReadCount(t)
    BY <1>14
  <2>1. \E x : /\ starting' = [starting EXCEPT ![t] = x] /\ x.at \in {"create", "no"}
    BY <1>1 DEF Search!ReadCount, Search!Refused, Search!NotStarting, RadarTypes, Search!TypeOK
  <2>2. UNCHANGED <<status, waiting, worker>>
    BY DEF Search!ReadCount
  <2> QED
    BY <1>1, <2>1, <2>2 DEF RadarTypes, HeldOnce, YetToQueue, Search!TypeOK, Over, Gone
<1>15. CASE \E t \in Tabs : Search!CreateJob(t)
  BY <1>15, <1>1 DEF Search!CreateJob, Search!At, RadarTypes, HeldOnce, YetToQueue, Search!TypeOK,
       Over, Gone
<1>16. CASE \E t \in Tabs : Search!SaveCount(t)
  BY <1>16, <1>1 DEF Search!SaveCount, Search!At, Search!GoOn, RadarTypes, HeldOnce, YetToQueue,
       Search!TypeOK, Over, Gone
<1>17. CASE \E t \in Tabs : Search!Enqueue(t)
  <2> PICK t \in Tabs : Search!Enqueue(t)
    BY <1>17
  <2>1. PICK x : /\ starting' = [starting EXCEPT ![t] = x] /\ x.at \in {"told", "no"}
    BY <1>1 DEF Search!Enqueue, Search!GoOn, Search!NotStarting, RadarTypes, Search!TypeOK
  <2>2. /\ starting[t].at = "enqueue" /\ waiting' = waiting \cup {starting[t].search}
        /\ UNCHANGED <<status, worker, stalled>>
    BY DEF Search!Enqueue, Search!At
  <2>3. \A u \in Tabs, s \in Search!Searches : YetToQueue(u, s)' => YetToQueue(u, s) /\ u # t
    BY <1>1, <2>1 DEF YetToQueue, RadarTypes, Search!TypeOK
  <2>4. starting[t].search \in Search!Searches /\ YetToQueue(t, starting[t].search)
    BY <1>1, <2>2 DEF YetToQueue, RadarTypes, Search!TypeOK
  <2> HIDE DEF YetToQueue
  <2> QED
    BY <1>1, <2>2, <2>3, <2>4 DEF HeldOnce, Over, Gone
<1>18. CASE \E t \in Tabs : Search!StartFails(t)
  BY <1>18, <1>1 DEF Search!StartFails, Search!Refused, Search!StopStreaming, Search!NotStarting,
       RadarTypes, HeldOnce, YetToQueue, Search!TypeOK, Over, Gone
<1>19. CASE \E s \in Search!Searches : Search!DeleteCampaign(s)
  BY <1>19, <1>1 DEF Search!DeleteCampaign, RadarTypes, HeldOnce, YetToQueue, Search!TypeOK, Over, Gone
<1>20. CASE Search!Take
  BY <1>20, <1>1 DEF Search!Take, Search!Resting, RadarTypes, HeldOnce, YetToQueue, Search!TypeOK,
       Over, Gone
<1>21. CASE Search!MarkProcessing
  BY <1>21, <1>1 DEF Search!MarkProcessing, Search!Current, Search!Resting, RadarTypes, HeldOnce,
       YetToQueue, Search!TypeOK, Over, Gone
<1>22. CASE Search!AddLead
  BY <1>22, <1>1 DEF Search!AddLead, Search!Current, Search!Publish, Search!Event, RadarTypes,
       HeldOnce, YetToQueue, Search!TypeOK, Over, Gone
<1>23. CASE Search!End
  BY <1>23, <1>1 DEF Search!End, Search!Current, Search!Ends, RadarTypes, HeldOnce, YetToQueue,
       Search!TypeOK, Over, Gone
<1>24. CASE Search!Announce
  BY <1>24, <1>1 DEF Search!Announce, Search!Current, Search!Publish, Search!Event, Search!Resting,
       RadarTypes, HeldOnce, YetToQueue, Search!TypeOK, Over, Gone
<1>25. CASE Search!GiveUp
  BY <1>25, <1>1 DEF Search!GiveUp, Search!Resting, RadarTypes, HeldOnce, YetToQueue,
       Search!TypeOK, Over, Gone
<1>26. CASE Search!WorkerDies
  BY <1>26, <1>1 DEF Search!WorkerDies, Search!Current, Search!Resting, RadarTypes, HeldOnce,
       YetToQueue, Search!TypeOK, Over, Gone
<1>27. CASE Search!Connect
  BY <1>27, <1>1 DEF Search!Connect, RadarTypes, HeldOnce, YetToQueue, Search!TypeOK, Over, Gone
<1>28. CASE Search!Disconnect
  BY <1>28, <1>1 DEF Search!Disconnect, RadarTypes, HeldOnce, YetToQueue, Search!TypeOK, Over, Gone
<1>29. CASE Search!Receive
  BY <1>29, <1>1 DEF Search!Receive, Search!StopStreaming, RadarTypes, HeldOnce, YetToQueue,
       Search!TypeOK, Over, Gone
<1>30. CASE Search!Poll
  BY <1>30, <1>1 DEF Search!Poll, RadarTypes, HeldOnce, YetToQueue, Search!TypeOK, Over, Gone
<1>31. CASE Search!Answered
  BY <1>31, <1>1 DEF Search!Answered, Search!MergeLeads, Search!LeadsOf, Search!StopStreaming,
       RadarTypes, HeldOnce, YetToQueue, Search!TypeOK, Over, Gone
<1>32. CASE Search!AnswerLost
  BY <1>32, <1>1 DEF Search!AnswerLost, RadarTypes, HeldOnce, YetToQueue, Search!TypeOK, Over, Gone
<1>33. CASE Search!TimeIsUp
  BY <1>33, <1>1 DEF Search!TimeIsUp, Search!StopStreaming, RadarTypes, HeldOnce, YetToQueue,
       Search!TypeOK, Over, Gone
<1>34. CASE Search!Leave
  BY <1>34, <1>1 DEF Search!Leave, Search!At, Search!StopStreaming, RadarTypes, HeldOnce,
       YetToQueue, Search!TypeOK, Over, Gone
<1>40. CASE UNCHANGED Search!vars
  BY <1>40, <1>1 DEF Search!vars, RadarTypes, HeldOnce, YetToQueue, Search!TypeOK, Over, Gone
<1> QED
  BY <1>10, <1>11, <1>12, <1>13, <1>14, <1>15, <1>16, <1>17, <1>18, <1>19, <1>20, <1>21, <1>22,
       <1>23, <1>24, <1>25, <1>26, <1>27, <1>28, <1>29, <1>30, <1>31, <1>32, <1>33, <1>34,
            <1>40 DEF Search!Next

\* Two requests never queue one search, and the queue gives it to one worker.
LEMMA HeldOnceStays ==
  ASSUME RadarInv, [Search!Next]_(Search!vars)
  PROVE  HeldOnce'
<1> USE SearchAssumption DEF Search!jobs, Search!daily, Search!queued, Search!transport,
     Search!Searches, Search!None
<1>1. RadarTypes /\ HeldOnce /\ Following
  BY DEF RadarInv
<1>10. CASE Search!StartSearch
  BY <1>10, <1>1 DEF Search!StartSearch, Search!StopStreaming, Search!GoOn, Search!At, RadarTypes,
       HeldOnce, YetToQueue, Search!TypeOK
<1>11. CASE Search!Follow
  BY <1>11, <1>1 DEF Search!Follow, Search!At, Search!NotStarting, RadarTypes, HeldOnce,
       YetToQueue, Search!TypeOK
<1>12. CASE Search!NewDay
  BY <1>12, <1>1 DEF Search!NewDay, Search!At, RadarTypes, HeldOnce, YetToQueue, Search!TypeOK
<1>13. CASE \E t \in Tabs : Search!StartElsewhere(t)
  BY <1>13, <1>1 DEF Search!StartElsewhere, Search!At, Search!GoOn, RadarTypes, HeldOnce,
       YetToQueue, Search!TypeOK
<1>14. CASE \E t \in Tabs : Search!ReadCount(t)
  <2> PICK t \in Tabs : Search!ReadCount(t)
    BY <1>14
  <2>1. \E x : /\ starting' = [starting EXCEPT ![t] = x] /\ x.at \in {"create", "no"}
    BY <1>1 DEF Search!ReadCount, Search!Refused, Search!NotStarting, RadarTypes, Search!TypeOK
  <2>2. UNCHANGED <<status, waiting, worker>>
    BY DEF Search!ReadCount
  <2>3. DOMAIN starting = Tabs
    BY <1>1 DEF RadarTypes, Search!TypeOK
  <2>4. \A u \in Tabs : \A s : YetToQueue(u, s)' => YetToQueue(u, s)
    BY <2>1, <2>3 DEF YetToQueue
  <2> QED
    BY <1>1, <2>2, <2>4 DEF HeldOnce
<1>15. CASE \E t \in Tabs : Search!CreateJob(t)
  <2> PICK t \in Tabs : Search!CreateJob(t)
    BY <1>15
  <2>1. PICK s \in Search!Searches :
           /\ status[s] = "none"
           /\ starting' = [starting EXCEPT ![t].at = "save", ![t].search = s]
    BY DEF Search!CreateJob
  <2>2. UNCHANGED <<waiting, worker>>
    BY DEF Search!CreateJob
  <2>3. \A u \in Tabs, r \in Search!Searches :
           YetToQueue(u, r)' => IF u = t THEN r = s ELSE YetToQueue(u, r)
    BY <1>1, <2>1 DEF YetToQueue, RadarTypes, Search!TypeOK
  <2>4. \A u \in Tabs, r \in Search!Searches : YetToQueue(u, r) => r # s
    BY <1>1, <2>1 DEF YetToQueue, RadarTypes
  <2>5. s \notin waiting /\ worker.search # s
    BY <1>1, <2>1 DEF RadarTypes
  <2> HIDE DEF YetToQueue
  <2> QED
    BY <1>1, <2>2, <2>3, <2>4, <2>5 DEF HeldOnce
<1>16. CASE \E t \in Tabs : Search!SaveCount(t)
  BY <1>16, <1>1 DEF Search!SaveCount, Search!At, Search!GoOn, RadarTypes, HeldOnce, YetToQueue,
       Search!TypeOK
<1>17. CASE \E t \in Tabs : Search!Enqueue(t)
  <2> PICK t \in Tabs : Search!Enqueue(t)
    BY <1>17
  <2>1. PICK x : /\ starting' = [starting EXCEPT ![t] = x] /\ x.at \in {"told", "no"}
    BY <1>1 DEF Search!Enqueue, Search!GoOn, Search!NotStarting, RadarTypes, Search!TypeOK
  <2>2. /\ starting[t].at = "enqueue" /\ waiting' = waiting \cup {starting[t].search}
        /\ UNCHANGED <<status, worker, stalled>>
    BY DEF Search!Enqueue, Search!At
  <2>3. \A u \in Tabs, s \in Search!Searches : YetToQueue(u, s)' => YetToQueue(u, s) /\ u # t
    BY <1>1, <2>1 DEF YetToQueue, RadarTypes, Search!TypeOK
  <2>4. starting[t].search \in Search!Searches /\ YetToQueue(t, starting[t].search)
    BY <1>1, <2>2 DEF YetToQueue, RadarTypes, Search!TypeOK
  <2> HIDE DEF YetToQueue
  <2> QED
    BY <1>1, <2>2, <2>3, <2>4 DEF HeldOnce, RadarTypes, Search!TypeOK
<1>18. CASE \E t \in Tabs : Search!StartFails(t)
  BY <1>18, <1>1 DEF Search!StartFails, Search!Refused, Search!StopStreaming, Search!NotStarting,
       RadarTypes, HeldOnce, YetToQueue, Search!TypeOK
<1>19. CASE \E s \in Search!Searches : Search!DeleteCampaign(s)
  BY <1>19, <1>1 DEF Search!DeleteCampaign, RadarTypes, HeldOnce, YetToQueue, Search!TypeOK
<1>20. CASE Search!Take
  BY <1>20, <1>1 DEF Search!Take, Search!Resting, RadarTypes, HeldOnce, YetToQueue, Search!TypeOK
<1>21. CASE Search!MarkProcessing
  BY <1>21, <1>1 DEF Search!MarkProcessing, Search!Current, Search!Resting, RadarTypes, HeldOnce,
       YetToQueue, Search!TypeOK
<1>22. CASE Search!AddLead
  BY <1>22, <1>1 DEF Search!AddLead, Search!Current, Search!Publish, Search!Event, RadarTypes,
       HeldOnce, YetToQueue, Search!TypeOK
<1>23. CASE Search!End
  BY <1>23, <1>1 DEF Search!End, Search!Current, Search!Ends, RadarTypes, HeldOnce, YetToQueue,
       Search!TypeOK
<1>24. CASE Search!Announce
  BY <1>24, <1>1 DEF Search!Announce, Search!Current, Search!Publish, Search!Event, Search!Resting,
       RadarTypes, HeldOnce, YetToQueue, Search!TypeOK
<1>25. CASE Search!GiveUp
  BY <1>25, <1>1 DEF Search!GiveUp, Search!Resting, RadarTypes, HeldOnce, YetToQueue, Search!TypeOK
<1>26. CASE Search!WorkerDies
  BY <1>26, <1>1 DEF Search!WorkerDies, Search!Current, Search!Resting, RadarTypes, HeldOnce,
       YetToQueue, Search!TypeOK
<1>27. CASE Search!Connect
  BY <1>27, <1>1 DEF Search!Connect, RadarTypes, HeldOnce, YetToQueue, Search!TypeOK
<1>28. CASE Search!Disconnect
  BY <1>28, <1>1 DEF Search!Disconnect, RadarTypes, HeldOnce, YetToQueue, Search!TypeOK
<1>29. CASE Search!Receive
  BY <1>29, <1>1 DEF Search!Receive, Search!StopStreaming, RadarTypes, HeldOnce, YetToQueue,
       Search!TypeOK
<1>30. CASE Search!Poll
  BY <1>30, <1>1 DEF Search!Poll, RadarTypes, HeldOnce, YetToQueue, Search!TypeOK
<1>31. CASE Search!Answered
  BY <1>31, <1>1 DEF Search!Answered, Search!MergeLeads, Search!LeadsOf, Search!StopStreaming,
       RadarTypes, HeldOnce, YetToQueue, Search!TypeOK
<1>32. CASE Search!AnswerLost
  BY <1>32, <1>1 DEF Search!AnswerLost, RadarTypes, HeldOnce, YetToQueue, Search!TypeOK
<1>33. CASE Search!TimeIsUp
  BY <1>33, <1>1 DEF Search!TimeIsUp, Search!StopStreaming, RadarTypes, HeldOnce, YetToQueue,
       Search!TypeOK
<1>34. CASE Search!Leave
  BY <1>34, <1>1 DEF Search!Leave, Search!At, Search!StopStreaming, RadarTypes, HeldOnce,
       YetToQueue, Search!TypeOK
<1>40. CASE UNCHANGED Search!vars
  BY <1>40, <1>1 DEF Search!vars, RadarTypes, HeldOnce, YetToQueue, Search!TypeOK
<1> QED
  BY <1>10, <1>11, <1>12, <1>13, <1>14, <1>15, <1>16, <1>17, <1>18, <1>19, <1>20, <1>21, <1>22,
       <1>23, <1>24, <1>25, <1>26, <1>27, <1>28, <1>29, <1>30, <1>31, <1>32, <1>33, <1>34,
            <1>40 DEF Search!Next

\* What the page is fed is of the search it follows.
LEMMA FollowingStays ==
  ASSUME RadarInv, [Search!Next]_(Search!vars), ~Hasty
  PROVE  Following'
<1> USE SearchAssumption DEF Search!jobs, Search!daily, Search!queued, Search!transport,
     Search!Searches, Search!None
<1>1. RadarTypes /\ HeldOnce /\ Following
  BY DEF RadarInv
<1>10. CASE Search!StartSearch
  <2>1. /\ page' = [search |-> 0, status |-> "processing", shown |-> {}, told |-> FALSE]
        /\ answers' = {} /\ polling' = FALSE /\ progress' = "closed" /\ events' = <<>>
    BY <1>10 DEF Search!StartSearch, Search!StopStreaming
  <2> QED
    BY <2>1 DEF Following
<1>11. CASE Search!Follow
  BY <1>11, <1>1 DEF Search!Follow, Search!At, Search!NotStarting, RadarTypes, Following, Search!TypeOK
<1>12. CASE Search!NewDay
  BY <1>12, <1>1 DEF Search!NewDay, Search!At, RadarTypes, Following, Search!TypeOK
<1>13. CASE \E t \in Tabs : Search!StartElsewhere(t)
  BY <1>13, <1>1 DEF Search!StartElsewhere, Search!At, Search!GoOn, RadarTypes, Following, Search!TypeOK
<1>14. CASE \E t \in Tabs : Search!ReadCount(t)
  <2> PICK t \in Tabs : Search!ReadCount(t)
    BY <1>14
  <2>0. starting[t].at = "count" /\ answers' = answers
    BY DEF Search!ReadCount, Search!At
  <2>1. CASE Search!LeavesOne
    <3>1. /\ UNCHANGED <<events, progress, polling, page>>
          /\ starting' = [starting EXCEPT ![t].at = "create", ![t].count = searched]
      BY <2>1 DEF Search!ReadCount
    <3>2. starting'[Page].at # "no" => starting[Page].at # "no"
      BY <1>1, <2>0, <3>1 DEF RadarTypes, Search!TypeOK
    <3> QED
      BY <1>1, <2>0, <3>1, <3>2 DEF Following
  <2>2. CASE ~Search!LeavesOne /\ t # Page
    <3>1. /\ UNCHANGED <<events, progress, polling, page>>
          /\ starting' = [starting EXCEPT ![t] = Search!NotStarting]
      BY <2>2 DEF Search!ReadCount, Search!Refused
    <3>2. starting'[Page] = starting[Page]
      BY <1>1, <2>2, <3>1 DEF RadarTypes, Search!TypeOK
    <3> QED
      BY <1>1, <2>0, <3>1, <3>2 DEF Following
  <2>3. CASE ~Search!LeavesOne /\ t = Page
    <3>1. /\ page' = [page EXCEPT !.status = "failed"]
          /\ polling' = FALSE /\ progress' = "closed" /\ events' = <<>>
      BY <2>3 DEF Search!ReadCount, Search!Refused, Search!StopStreaming
    <3>2. page'.search = page.search /\ page'.shown = page.shown /\ page'.told = page.told
      BY <1>1, <3>1 DEF RadarTypes, Search!TypeOK
    <3> QED
      BY <1>1, <2>0, <2>3, <3>1, <3>2 DEF Following
  <2> QED
    BY <2>1, <2>2, <2>3
<1>15. CASE \E t \in Tabs : Search!CreateJob(t)
  BY <1>15, <1>1 DEF Search!CreateJob, Search!At, RadarTypes, Following, Search!TypeOK
<1>16. CASE \E t \in Tabs : Search!SaveCount(t)
  BY <1>16, <1>1 DEF Search!SaveCount, Search!At, Search!GoOn, RadarTypes, Following, Search!TypeOK
<1>17. CASE \E t \in Tabs : Search!Enqueue(t)
  BY <1>17, <1>1 DEF Search!Enqueue, Search!At, Search!GoOn, Search!NotStarting, RadarTypes,
       Following, Search!TypeOK
<1>18. CASE \E t \in Tabs : Search!StartFails(t)
  <2> PICK t \in Tabs : Search!StartFails(t)
    BY <1>18
  <2>1. starting' = [starting EXCEPT ![t] = Search!NotStarting] /\ Search!NotStarting.at = "no"
    BY DEF Search!StartFails, Search!Refused, Search!NotStarting
  <2>2. CASE t # Page
    BY <1>1, <2>1, <2>2 DEF Search!StartFails, Search!Refused, RadarTypes, Following, Search!TypeOK
  <2>3. CASE t = Page
    <3>1. /\ page' = [page EXCEPT !.status = "failed"] /\ answers' = answers
          /\ polling' = FALSE /\ progress' = "closed" /\ events' = <<>>
      BY <2>3 DEF Search!StartFails, Search!Refused, Search!StopStreaming
    <3>2. page'.search = page.search /\ page'.shown = page.shown /\ page'.told = page.told
      BY <1>1, <3>1 DEF RadarTypes, Search!TypeOK
    <3>3. starting'[Page].at = "no"
      BY <1>1, <2>1, <2>3 DEF RadarTypes, Search!TypeOK
    <3> QED
      BY <1>1, <3>1, <3>2, <3>3 DEF Following
  <2> QED
    BY <2>2, <2>3
<1>19. CASE \E s \in Search!Searches : Search!DeleteCampaign(s)
  BY <1>19, <1>1 DEF Search!DeleteCampaign, RadarTypes, Following, Search!TypeOK
<1>20. CASE Search!Take
  BY <1>20, <1>1 DEF Search!Take, Search!Resting, RadarTypes, Following, Search!TypeOK
<1>21. CASE Search!MarkProcessing
  BY <1>21, <1>1 DEF Search!MarkProcessing, Search!Current, Search!Resting, RadarTypes, Following,
       Search!TypeOK
<1>22. CASE Search!AddLead
  BY <1>22, <1>1 DEF Search!AddLead, Search!Current, Search!Publish, Search!Event, RadarTypes,
       Following, Search!TypeOK
<1>23. CASE Search!End
  BY <1>23, <1>1 DEF Search!End, Search!Current, Search!Ends, RadarTypes, Following, Search!TypeOK
<1>24. CASE Search!Announce
  BY <1>24, <1>1 DEF Search!Announce, Search!Current, Search!Publish, Search!Event, Search!Resting,
       RadarTypes, Following, Search!TypeOK
<1>25. CASE Search!GiveUp
  BY <1>25, <1>1 DEF Search!GiveUp, Search!Resting, RadarTypes, Following, Search!TypeOK
<1>26. CASE Search!WorkerDies
  BY <1>26, <1>1 DEF Search!WorkerDies, Search!Current, Search!Resting, RadarTypes, Following,
       Search!TypeOK
<1>27. CASE Search!Connect
  BY <1>27, <1>1 DEF Search!Connect, RadarTypes, Following, Search!TypeOK
<1>28. CASE Search!Disconnect
  BY <1>28, <1>1 DEF Search!Disconnect, RadarTypes, Following, Search!TypeOK
<1>29. CASE Search!Receive
  <2>1. events # <<>> /\ progress = "open" /\ page.search # 0 /\ UNCHANGED <<starting, answers>>
    BY <1>1, <1>29 DEF Search!Receive, Following
  <2>2. CASE Head(events).kind = "lead"
    <3> DEFINE new == <<page.search, Head(events).lead>>
    <3> HIDE DEF new
    <3>1. /\ page' = [page EXCEPT !.shown = page.shown \cup {new}]
          /\ UNCHANGED <<progress, polling>>
      BY <1>29, <2>2 DEF Search!Receive, new
    <3>2. page'.search = page.search /\ page'.shown = page.shown \cup {new}
      BY <1>1, <3>1 DEF RadarTypes, Search!TypeOK
    <3>3. new[1] = page.search
      BY DEF new
    <3> QED
      BY <1>1, <2>1, <3>1, <3>2, <3>3 DEF Following
  <2>3. CASE Head(events).kind # "lead"
    <3>1. /\ page' = [page EXCEPT !.status = Head(events).kind, !.told = TRUE]
          /\ progress' = "closed" /\ events' = <<>> /\ polling' = FALSE
      BY <1>29, <2>3 DEF Search!Receive, Search!StopStreaming
    <3>2. page'.search = page.search /\ page'.shown = page.shown
      BY <1>1, <3>1 DEF RadarTypes, Search!TypeOK
    <3> QED
      BY <1>1, <2>1, <3>1, <3>2 DEF Following
  <2> QED
    BY <2>2, <2>3
<1>30. CASE Search!Poll
  BY <1>30, <1>1 DEF Search!Poll, RadarTypes, Following, Search!TypeOK
<1>31. CASE Search!Answered
  <2> PICK answer \in answers :
          /\ answers' = answers \ {answer}
          /\ LET merged == [page EXCEPT !.shown = Search!MergeLeads(answer)]
             IN  IF answer.status \in {"completed", "failed"}
                 THEN /\ page' = [merged EXCEPT !.status = answer.status, !.told = TRUE]
                      /\ Search!StopStreaming
                 ELSE page' = merged /\ UNCHANGED <<events, progress, polling>>
    BY <1>31 DEF Search!Answered
  <2>1. page'.search = page.search /\ page'.shown = page.shown \cup Search!LeadsOf(answer)
    BY <1>1 DEF RadarTypes, Search!TypeOK, Search!MergeLeads
  <2>2. /\ page.search # 0 /\ answer.search = page.search
        /\ starting' = starting /\ answers' \subseteq answers
    BY <1>1, <1>31 DEF Following, Search!Answered
  <2>3. \A shown \in Search!LeadsOf(answer) : shown[1] = page.search
    BY <2>2 DEF Search!LeadsOf
  <2>4. \/ UNCHANGED <<events, progress>>
        \/ events' = <<>> /\ progress' = "closed"
    BY DEF Search!StopStreaming
  <2> QED
    BY <1>1, <2>1, <2>2, <2>3, <2>4 DEF Following
<1>32. CASE Search!AnswerLost
  BY <1>32, <1>1 DEF Search!AnswerLost, RadarTypes, Following, Search!TypeOK
<1>33. CASE Search!TimeIsUp
  BY <1>33, <1>1 DEF Search!TimeIsUp, Search!StopStreaming, RadarTypes, Following, Search!TypeOK
<1>34. CASE Search!Leave
  BY <1>34, <1>1 DEF Search!Leave, Search!At, Search!StopStreaming, RadarTypes, Following, Search!TypeOK
<1>40. CASE UNCHANGED Search!vars
  BY <1>40, <1>1 DEF Search!vars, RadarTypes, Following, Search!TypeOK
<1> QED
  BY <1>10, <1>11, <1>12, <1>13, <1>14, <1>15, <1>16, <1>17, <1>18, <1>19, <1>20, <1>21, <1>22,
       <1>23, <1>24, <1>25, <1>26, <1>27, <1>28, <1>29, <1>30, <1>31, <1>32, <1>33, <1>34,
            <1>40 DEF Search!Next

\* What the requests hold stays typed: a request that has a search has one that was
\* created.
LEMMA TablesStay ==
  ASSUME RadarInv, [Search!Next]_(Search!vars)
  PROVE  /\ status' \in [Search!Searches ->
                            {"none", "queued", "processing", "deleted"} \cup Search!Ends]
         /\ leads' \in [Search!Searches -> 0..LastLead]
         /\ \A s \in Search!Searches : status[s] # "none" => status'[s] # "none"
<1> USE SearchAssumption DEF Search!jobs, Search!vars, Search!Searches, Search!Ends
<1>1. /\ status \in [Search!Searches -> {"none", "queued", "processing", "deleted"} \cup Search!Ends]
      /\ leads \in [Search!Searches -> 0..LastLead]
      /\ worker.search \in Search!Searches \cup {0}
      /\ worker.at # "idle" => worker.search \in Search!Searches
  BY DEF RadarInv, RadarTypes, Search!TypeOK, Search!None
<1>2. CASE UNCHANGED <<status, leads>>
  BY <1>1, <1>2
<1>3. CASE \E t \in Tabs : Search!CreateJob(t)
  BY <1>1, <1>3 DEF Search!CreateJob
<1>4. CASE \E s \in Search!Searches : Search!DeleteCampaign(s)
  BY <1>1, <1>4 DEF Search!DeleteCampaign
<1>5. CASE Search!MarkProcessing
  BY <1>1, <1>5 DEF Search!MarkProcessing, Search!Current
<1>6. CASE Search!AddLead
  BY <1>1, <1>6 DEF Search!AddLead, Search!Current
<1>7. CASE Search!End
  BY <1>1, <1>7 DEF Search!End, Search!Current
<1> QED
  BY <1>2, <1>3, <1>4, <1>5, <1>6, <1>7
     DEF Search!Next, Search!StartSearch, Search!Follow, Search!NewDay, Search!StartElsewhere,
         Search!ReadCount, Search!SaveCount, Search!Enqueue, Search!StartFails, Search!Take,
         Search!Announce, Search!GiveUp, Search!WorkerDies, Search!Connect, Search!Disconnect,
         Search!Receive, Search!Poll, Search!Answered, Search!AnswerLost, Search!TimeIsUp,
         Search!Leave

\* What a request of a tab may hold: its search, once it has one, was created.
RequestRows == [at : {"no", "count", "create", "save", "enqueue", "told"},
                count : 0..DailyLimit, search : Search!Searches \cup {Search!None}]

Request(x, table) ==
    /\ x \in RequestRows
    /\ x.at \in {"create", "save"} => x.count < DailyLimit
    /\ x.at \in {"save", "enqueue", "told"} => x.search # 0 /\ table[x.search] # "none"

LEMMA RequestsStay ==
  ASSUME RadarInv, [Search!Next]_(Search!vars)
  PROVE  /\ starting' \in [Tabs -> RequestRows]
         /\ \A t \in Tabs : Request(starting'[t], status')
         /\ searched' \in 0..DailyLimit /\ today' \in Nat
<1> USE SearchAssumption DEF Search!daily, Search!vars
<1>1. /\ starting \in [Tabs -> RequestRows] /\ \A t \in Tabs : Request(starting[t], status)
      /\ searched \in 0..DailyLimit /\ today \in Nat
  BY DEF RadarInv, RadarTypes, Search!TypeOK, Request, RequestRows
<1>2. \A s \in Search!Searches : status[s] # "none" => status'[s] # "none"
  BY TablesStay
<1>3. \A x : Request(x, status) => Request(x, status')
  BY <1>2 DEF Request, RequestRows, Search!None
<1>4. ASSUME NEW t \in Tabs, NEW x, Request(x, status'), starting' = [starting EXCEPT ![t] = x]
      PROVE  starting' \in [Tabs -> RequestRows] /\ \A u \in Tabs : Request(starting'[u], status')
  BY <1>1, <1>3, <1>4 DEF Request
<1>5. Request(Search!NotStarting, status')
  BY DEF Request, RequestRows, Search!NotStarting, Search!None
<1>6. CASE Search!NewDay \/ UNCHANGED <<starting, searched, today>>
  BY <1>1, <1>3, <1>6 DEF Search!NewDay, Search!jobs
<1>7. CASE Search!StartSearch \/ \E t \in Tabs : Search!StartElsewhere(t)
  <2>1. PICK t \in Tabs : starting[t].at = "no" /\ starting' = [starting EXCEPT ![t].at = "count"]
    BY <1>7 DEF Search!StartSearch, Search!StartElsewhere, Search!GoOn, Search!At
  <2>2. [starting[t] EXCEPT !.at = "count"] \in RequestRows
    BY <1>1 DEF RequestRows
  <2>3. Request([starting[t] EXCEPT !.at = "count"], status')
    BY <1>1, <2>2 DEF Request, RequestRows
  <2>4. starting' = [starting EXCEPT ![t] = [starting[t] EXCEPT !.at = "count"]]
    BY <2>1
  <2>5. UNCHANGED <<searched, today>>
    BY <1>7 DEF Search!StartSearch, Search!StartElsewhere
  <2> QED
    BY <1>1, <1>4, <2>3, <2>4, <2>5
<1>8. CASE \E t \in Tabs : Search!ReadCount(t)
  <2>1. PICK t \in Tabs : Search!ReadCount(t)
    BY <1>8
  <2>2. UNCHANGED <<searched, today>>
    BY <2>1 DEF Search!ReadCount
  <2>3. CASE Search!LeavesOne
    <3> DEFINE x == [starting[t] EXCEPT !.at = "create", !.count = searched]
    <3>1. starting' = [starting EXCEPT ![t] = x]
      BY <2>1, <2>3 DEF Search!ReadCount
    <3>2. x \in RequestRows /\ x.at = "create" /\ x.count = searched
      BY <1>1 DEF RequestRows
    <3> HIDE DEF x
    <3>3. Request(x, status')
      BY <2>3, <3>2 DEF Request, RequestRows, Search!LeavesOne
    <3> QED
      BY <1>1, <1>4, <2>2, <3>1, <3>3
  <2>4. CASE ~Search!LeavesOne
    <3>1. starting' = [starting EXCEPT ![t] = Search!NotStarting]
      BY <2>1, <2>4 DEF Search!ReadCount, Search!Refused
    <3> QED
      BY <1>1, <1>4, <1>5, <2>2, <3>1
  <2> QED
    BY <2>3, <2>4
<1>9. CASE \E t \in Tabs : Search!CreateJob(t)
  <2>1. PICK t \in Tabs, s \in Search!Searches :
            /\ status' = [status EXCEPT ![s] = "queued"]
            /\ starting' = [starting EXCEPT ![t].at = "save", ![t].search = s]
            /\ starting[t].at = "create"
            /\ UNCHANGED <<searched, today>>
    BY <1>9 DEF Search!CreateJob, Search!At
  <2> DEFINE x == [starting[t] EXCEPT !.at = "save", !.search = s]
  <2>2. starting' = [starting EXCEPT ![t] = x]
    BY <2>1
  <2>3. x \in RequestRows /\ x.at = "save" /\ x.count = starting[t].count /\ x.search = s
    BY <1>1 DEF RequestRows
  <2>4. starting[t].count < DailyLimit
    BY <1>1, <2>1 DEF Request
  <2> HIDE DEF x
  <2>5. s # 0 /\ status'[s] # "none"
    BY <2>1 DEF RadarInv, RadarTypes, Search!TypeOK, Search!Searches
  <2>6. Request(x, status')
    BY <2>3, <2>4, <2>5 DEF Request, RequestRows
  <2> QED
    BY <1>1, <1>4, <2>1, <2>2, <2>6
<1>10. CASE \E t \in Tabs : Search!SaveCount(t)
  <2>1. PICK t \in Tabs : /\ starting' = [starting EXCEPT ![t].at = "enqueue"]
                          /\ searched' = starting[t].count + 1
                          /\ starting[t].at = "save" /\ today' = today
    BY <1>10 DEF Search!SaveCount, Search!At, Search!GoOn
  <2> DEFINE x == [starting[t] EXCEPT !.at = "enqueue"]
  <2>2. starting' = [starting EXCEPT ![t] = x]
    BY <2>1
  <2>3. x \in RequestRows /\ x.at = "enqueue" /\ x.search = starting[t].search
    BY <1>1 DEF RequestRows
  <2>4. starting[t].count \in 0..DailyLimit /\ Request(starting[t], status')
    BY <1>1, <1>3 DEF RequestRows
  <2> HIDE DEF x
  <2>5. Request(x, status') /\ searched' \in 0..DailyLimit
    BY <2>1, <2>3, <2>4 DEF Request, RequestRows
  <2> QED
    BY <1>1, <1>4, <2>1, <2>2, <2>5
<1>11. CASE \E t \in Tabs : Search!Enqueue(t)
  <2>1. PICK t \in Tabs : Search!Enqueue(t)
    BY <1>11
  <2>2. starting[t].at = "enqueue" /\ searched' = searched /\ today' = today + 1
    BY <2>1 DEF Search!Enqueue, Search!At
  <2>5. searched' \in 0..DailyLimit /\ today' \in Nat
    BY <1>1, <2>2
  <2>3. CASE t = Page
    <3> DEFINE x == [starting[t] EXCEPT !.at = "told"]
    <3>1. starting' = [starting EXCEPT ![t] = x]
      BY <2>1, <2>3 DEF Search!Enqueue, Search!GoOn
    <3>2. x \in RequestRows /\ x.at = "told" /\ x.search = starting[t].search
      BY <1>1 DEF RequestRows
    <3>3. Request(starting[t], status')
      BY <1>1, <1>3
    <3> HIDE DEF x
    <3>4. Request(x, status')
      BY <2>2, <3>2, <3>3 DEF Request, RequestRows
    <3> QED
      BY <1>1, <1>4, <2>5, <3>1, <3>4
  <2>4. CASE t # Page
    <3>1. starting' = [starting EXCEPT ![t] = Search!NotStarting]
      BY <2>1, <2>4 DEF Search!Enqueue
    <3> QED
      BY <1>1, <1>4, <1>5, <2>5, <3>1
  <2> QED
    BY <2>3, <2>4
<1>12. CASE Search!Follow \/ \E t \in Tabs : Search!StartFails(t)
  <2>1. PICK t \in Tabs : starting' = [starting EXCEPT ![t] = Search!NotStarting]
    BY <1>12 DEF Search!Follow, Search!StartFails, Search!Refused
  <2>2. UNCHANGED <<searched, today>>
    BY <1>12 DEF Search!Follow, Search!StartFails
  <2> QED
    BY <1>1, <1>4, <1>5, <2>1, <2>2
<1> QED
  BY <1>6, <1>7, <1>8, <1>9, <1>10, <1>11, <1>12
     DEF Search!Next, Search!DeleteCampaign, Search!Take,
         Search!MarkProcessing, Search!AddLead, Search!End,
         Search!Announce, Search!GiveUp, Search!WorkerDies, Search!Connect, Search!Disconnect,
         Search!Receive, Search!Poll, Search!Answered, Search!AnswerLost, Search!TimeIsUp,
         Search!Leave

\* The queue and the worker hold searches that were created.
LEMMA QueueStays ==
  ASSUME RadarInv, [Search!Next]_(Search!vars)
  PROVE  /\ waiting' \subseteq Search!Searches /\ stalled' \subseteq Search!Searches
         /\ stalled \subseteq stalled'
         /\ worker' \in [at : {"idle", "mark", "scrape"} \cup Search!Ends,
                         search : Search!Searches \cup {Search!None}]
         /\ worker'.at = "idle" <=> worker'.search = 0
         /\ worker'.search # 0 => status'[worker'.search] # "none"
         /\ \A s \in waiting' : status'[s] # "none"
<1> USE SearchAssumption DEF Search!queued, Search!vars, Search!Ends, Search!None
<1>1. /\ waiting \subseteq Search!Searches /\ stalled \subseteq Search!Searches
      /\ worker \in [at : {"idle", "mark", "scrape", "completed", "failed"},
                     search : Search!Searches \cup {0}]
      /\ worker.at = "idle" <=> worker.search = 0
      /\ worker.search # 0 => status[worker.search] # "none"
      /\ \A s \in waiting : status[s] # "none"
      /\ 0 \notin Search!Searches
  BY DEF RadarInv, RadarTypes, Search!TypeOK, Search!Searches
<1>2. \A s \in Search!Searches : status[s] # "none" => status'[s] # "none"
  BY TablesStay
<1>3. CASE UNCHANGED <<waiting, stalled, worker>>
  BY <1>1, <1>2, <1>3
<1>4. CASE \E t \in Tabs : Search!Enqueue(t)
  <2>1. PICK t \in Tabs : /\ starting[t].at = "enqueue"
                          /\ waiting' = waiting \cup {starting[t].search}
                          /\ UNCHANGED <<stalled, worker>>
    BY <1>4 DEF Search!Enqueue, Search!At
  <2>2. starting[t].search \in Search!Searches /\ status[starting[t].search] # "none"
    BY <2>1 DEF RadarInv, RadarTypes, Search!TypeOK
  <2> QED
    BY <1>1, <1>2, <2>1, <2>2
<1>5. CASE Search!Take
  <2>1. PICK s \in waiting : /\ waiting' = waiting \ {s} /\ stalled' = stalled
                             /\ worker' = [at |-> "mark", search |-> s]
    BY <1>5 DEF Search!Take
  <2> QED
    BY <1>1, <1>2, <2>1
<1>6. CASE Search!MarkProcessing \/ Search!End \/ Search!Announce \/ Search!GiveUp
  <2>1. UNCHANGED <<waiting, stalled>> /\ worker.at # "idle"
    BY <1>6 DEF Search!MarkProcessing, Search!End, Search!Announce, Search!GiveUp
  <2>2. \/ worker' = Search!Resting
        \/ \E point \in {"scrape", "completed", "failed"} : worker' = [worker EXCEPT !.at = point]
    BY <1>6 DEF Search!MarkProcessing, Search!End, Search!Announce, Search!GiveUp
  <2>3. CASE worker' = Search!Resting
    BY <1>1, <1>2, <2>1, <2>3 DEF Search!Resting
  <2>4. CASE \E point \in {"scrape", "completed", "failed"} : worker' = [worker EXCEPT !.at = point]
    BY <1>1, <1>2, <2>1, <2>4
  <2> QED
    BY <2>2, <2>3, <2>4
<1>7. CASE Search!WorkerDies
  <2>1. /\ worker' = Search!Resting /\ worker.search # 0
        /\ waiting' \subseteq waiting \cup {worker.search}
        /\ stalled' = stalled \cup {worker.search}
    BY <1>1, <1>7 DEF Search!WorkerDies, Search!Current, Search!Resting
  <2> QED
    BY <1>1, <1>2, <2>1 DEF Search!Resting
<1> QED
  BY <1>3, <1>4, <1>5, <1>6, <1>7
     DEF Search!Next, Search!StartSearch, Search!Follow, Search!NewDay, Search!StartElsewhere,
         Search!ReadCount, Search!CreateJob, Search!SaveCount, Search!StartFails,
         Search!DeleteCampaign, Search!AddLead, Search!Connect, Search!Disconnect,
         Search!Receive, Search!Poll, Search!Answered, Search!AnswerLost, Search!TimeIsUp,
         Search!Leave

\* What a page may show, and what may be on its way to it.
Pages == [search : Search!Searches \cup {Search!None},
          status : {"idle", "processing"} \cup Search!Ends,
          shown : SUBSET (Search!Searches \X (1..LastLead)), told : BOOLEAN]

Events == [kind : {"lead"} \cup Search!Ends, lead : 0..LastLead]

Answers == [search : Search!Searches, status : {"queued", "processing"} \cup Search!Ends,
            leads : 0..LastLead]

\* What the page is fed stays typed.
LEMMA FeedStays ==
  ASSUME RadarInv, [Search!Next]_(Search!vars)
  PROVE  /\ events' \in Seq(Events)
         /\ \A i \in 1..Len(events') : events'[i].kind = "lead" => events'[i].lead # 0
         /\ answers' \subseteq Answers
         /\ progress' \in {"closed", "open", "lost"} /\ polling' \in BOOLEAN /\ gap' \in BOOLEAN
<1> USE SearchAssumption DEF Search!transport, Search!vars
<1>1. /\ events \in Seq(Events)
      /\ \A i \in 1..Len(events) : events[i].kind = "lead" => events[i].lead # 0
      /\ answers \subseteq Answers
      /\ progress \in {"closed", "open", "lost"} /\ polling \in BOOLEAN /\ gap \in BOOLEAN
      /\ leads \in [Search!Searches -> 0..LastLead]
      /\ worker.at # "idle" => worker.search \in Search!Searches
  BY DEF RadarInv, RadarTypes, Search!TypeOK, Events, Answers, Search!Searches, Search!None
<1>0. ASSUME events' = <<>>
      PROVE  /\ events' \in Seq(Events)
             /\ \A i \in 1..Len(events') : events'[i].kind = "lead" => events'[i].lead # 0
  BY <1>0
<1>2. CASE UNCHANGED <<events, answers, progress, polling, gap>>
  BY <1>1, <1>2
<1>3. CASE \/ Search!StartSearch \/ Search!Follow \/ Search!TimeIsUp \/ Search!Leave
           \/ \E t \in Tabs : Search!ReadCount(t) \/ Search!StartFails(t)
  <2>1. events' \in {events, <<>>} /\ answers' \in {answers, {}}
    BY <1>3 DEF Search!StartSearch, Search!Follow, Search!TimeIsUp, Search!Leave,
                Search!ReadCount, Search!StartFails, Search!Refused, Search!StopStreaming
  <2>2. progress' \in {progress, "closed", "lost"} /\ polling' \in {polling, FALSE, TRUE}
        /\ gap' \in {gap, FALSE}
    BY <1>3 DEF Search!StartSearch, Search!Follow, Search!TimeIsUp, Search!Leave,
                Search!ReadCount, Search!StartFails, Search!Refused, Search!StopStreaming
  <2>3. /\ events' \in Seq(Events)
        /\ \A i \in 1..Len(events') : events'[i].kind = "lead" => events'[i].lead # 0
    <3>1. CASE events' = events
      BY <1>1, <3>1
    <3>2. CASE events' = <<>>
      BY <3>2
    <3> QED
      BY <2>1, <3>1, <3>2
  <2>4. answers' \subseteq Answers
    BY <1>1, <2>1
  <2> QED
    BY <1>1, <2>2, <2>3, <2>4
<1>4. CASE Search!AddLead \/ Search!Announce
  <2>1. PICK event \in Events : /\ event.kind = "lead" => event.lead # 0
                                /\ Search!Publish(event)
    <3>1. CASE Search!AddLead
      <4>1. leads[worker.search] + 1 \in 1..LastLead
        BY <1>1, <3>1 DEF Search!AddLead, Search!Current
      <4> QED
        BY <3>1, <4>1 DEF Search!AddLead, Search!Current, Search!Event, Events
    <3>2. CASE Search!Announce
      BY <3>2 DEF Search!Announce, Search!Event, Events, Search!Ends
    <3> QED
      BY <1>4, <3>1, <3>2
  <2>2. events' \in {events, Append(events, event)} /\ gap' \in BOOLEAN
    BY <1>1, <2>1 DEF Search!Publish
  <2>3. /\ Append(events, event) \in Seq(Events)
        /\ \A i \in 1..Len(Append(events, event)) :
              Append(events, event)[i].kind = "lead" => Append(events, event)[i].lead # 0
    BY <1>1, <2>1
  <2>4. UNCHANGED <<answers, progress, polling>>
    BY <1>4 DEF Search!AddLead, Search!Announce
  <2> QED
    BY <1>1, <2>2, <2>3, <2>4
<1>5. CASE Search!Connect \/ Search!Disconnect
  <2>1. events' \in {events, <<>>} /\ progress' \in {"open", "lost"} /\ gap' \in BOOLEAN
        /\ UNCHANGED <<answers, polling>>
    BY <1>1, <1>5 DEF Search!Connect, Search!Disconnect
  <2>2. CASE events' = events
    BY <1>1, <2>1, <2>2
  <2>3. CASE events' = <<>>
    BY <1>1, <2>1, <2>3
  <2> QED
    BY <2>1, <2>2, <2>3
<1>6. CASE Search!Receive
  <2>1. events # <<>> /\ events' \in {Tail(events), <<>>} /\ UNCHANGED <<answers, gap>>
        /\ progress' \in {progress, "closed"} /\ polling' \in {polling, FALSE}
    BY <1>6 DEF Search!Receive, Search!StopStreaming
  <2>2. /\ Tail(events) \in Seq(Events)
        /\ \A i \in 1..Len(Tail(events)) : Tail(events)[i] = events[i + 1] /\ i + 1 \in 1..Len(events)
    BY <1>1, <2>1
  <2>3. CASE events' = Tail(events)
    BY <1>1, <2>1, <2>2, <2>3
  <2>4. CASE events' = <<>>
    <3>1. answers' \subseteq Answers /\ progress' \in {"closed", "open", "lost"}
          /\ polling' \in BOOLEAN /\ gap' \in BOOLEAN
      BY <1>1, <2>1
    <3> QED
      BY <1>0, <2>4, <3>1
  <2> QED
    BY <2>1, <2>3, <2>4
<1>7. CASE Search!Poll
  <2> DEFINE new == [search |-> page.search, status |-> status[page.search],
                     leads |-> leads[page.search]]
  <2>1. answers' = answers \cup {new} /\ UNCHANGED <<events, progress, polling, gap>>
        /\ polling /\ status[page.search] # "deleted"
    BY <1>7 DEF Search!Poll
  <2>2. page.search \in Search!Searches
    BY <2>1 DEF RadarInv, Following, RadarTypes, Search!TypeOK, Search!None
  <2>3. status[page.search] \in {"queued", "processing"} \cup Search!Ends
    BY <2>1, <2>2 DEF RadarInv, RadarTypes, Search!TypeOK, Search!Searches
  <2>4. new \in Answers
    BY <1>1, <2>2, <2>3 DEF Answers
  <2> HIDE DEF new
  <2> QED
    BY <1>1, <2>1, <2>4
<1>8. CASE Search!Answered \/ Search!AnswerLost
  <2>1. /\ answers' \subseteq answers /\ gap' = gap
        /\ \/ UNCHANGED <<events, progress, polling>>
           \/ events' = <<>> /\ progress' = "closed" /\ polling' = FALSE
    BY <1>8 DEF Search!Answered, Search!AnswerLost, Search!StopStreaming
  <2>2. CASE UNCHANGED <<events, progress, polling>>
    BY <1>1, <2>1, <2>2
  <2>3. CASE events' = <<>> /\ progress' = "closed" /\ polling' = FALSE
    <3>1. answers' \subseteq Answers /\ progress' \in {"closed", "open", "lost"}
          /\ polling' \in BOOLEAN /\ gap' \in BOOLEAN
      BY <1>1, <2>1, <2>3
    <3> QED
      BY <1>0, <2>3, <3>1
  <2> QED
    BY <2>1, <2>2, <2>3
<1> QED
  BY <1>2, <1>3, <1>4, <1>5, <1>6, <1>7, <1>8
     DEF Search!Next, Search!NewDay, Search!StartElsewhere, Search!CreateJob, Search!SaveCount,
         Search!Enqueue, Search!DeleteCampaign, Search!Take, Search!MarkProcessing,
         Search!End, Search!GiveUp, Search!WorkerDies

\* The page stays typed.
LEMMA PageStays ==
  ASSUME RadarInv, [Search!Next]_(Search!vars)
  PROVE  page' \in Pages /\ (page'.search # 0 => status'[page'.search] # "none")
<1> USE SearchAssumption DEF Search!vars
<1>1. /\ page \in Pages /\ (page.search # 0 => status[page.search] # "none")
      /\ events \in Seq(Events) /\ answers \subseteq Answers
      /\ \A i \in 1..Len(events) : events[i].kind = "lead" => events[i].lead # 0
  BY DEF RadarInv, RadarTypes, Search!TypeOK, Pages, Events, Answers
<1>2. \A s \in Search!Searches : status[s] # "none" => status'[s] # "none"
  BY TablesStay
<1>3. ASSUME page' \in Pages, page'.search = page.search
      PROVE  page' \in Pages /\ (page'.search # 0 => status'[page'.search] # "none")
  BY <1>1, <1>2, <1>3 DEF Pages, Search!None
<1>4. CASE page' = page
  BY <1>1, <1>3, <1>4
<1>5. CASE Search!StartSearch \/ Search!Leave
  <2>1. \E mark \in {"processing", "idle"} :
           page' = [search |-> 0, status |-> mark, shown |-> {}, told |-> FALSE]
    BY <1>5 DEF Search!StartSearch, Search!Leave, Search!None
  <2>2. page' \in Pages /\ page'.search = 0
    BY <2>1 DEF Pages, Search!None
  <2> QED
    BY <2>2
<1>6. CASE Search!TimeIsUp \/ \E t \in Tabs : Search!ReadCount(t) \/ Search!StartFails(t)
  <2>1. page' = page \/ \E mark \in Search!Ends : page' = [page EXCEPT !.status = mark]
    <3>1. CASE Search!TimeIsUp
      <4>1. page' = [page EXCEPT !.status = "completed"] \/ page' = [page EXCEPT !.status = page.status]
        BY <3>1 DEF Search!TimeIsUp
      <4>2. [page EXCEPT !.status = page.status] = page
        BY <1>1 DEF Pages
      <4> QED
        BY <4>1, <4>2 DEF Search!Ends
    <3>2. CASE \E t \in Tabs : Search!ReadCount(t) \/ Search!StartFails(t)
      BY <3>2 DEF Search!ReadCount, Search!StartFails, Search!Refused, Search!Ends
    <3> QED
      BY <1>6, <3>1, <3>2
  <2>2. page' \in Pages /\ page'.search = page.search
    BY <1>1, <2>1 DEF Pages
  <2> QED
    BY <1>3, <2>2
<1>7. CASE Search!Follow
  <2>1. /\ page' = [page EXCEPT !.search = starting[Page].search] /\ status' = status
        /\ starting[Page].at = "told"
    BY <1>7 DEF Search!Follow, Search!At, Search!jobs
  <2>2. starting[Page].search \in Search!Searches /\ status[starting[Page].search] # "none"
    BY <2>1 DEF RadarInv, RadarTypes, Search!TypeOK, Search!None
  <2> QED
    BY <1>1, <2>1, <2>2 DEF Pages
<1>8. CASE Search!Receive
  <2>1. Head(events) \in Events /\ (Head(events).kind = "lead" => Head(events).lead # 0)
        /\ page.search \in Search!Searches
    <3>1. events # <<>>
      BY <1>8 DEF Search!Receive
    <3>2. Head(events) = events[1] /\ 1 \in 1..Len(events) /\ events[1] \in Events
      BY <1>1, <3>1
    <3>3. page.search \in Search!Searches
      BY <1>1, <3>1 DEF RadarInv, Following, Pages, Search!None
    <3> QED
      BY <1>1, <3>2, <3>3
  <2>2. CASE Head(events).kind = "lead"
    <3> DEFINE new == <<page.search, Head(events).lead>>
    <3>1. new \in Search!Searches \X (1..LastLead)
      BY <2>1, <2>2 DEF Events
    <3> HIDE DEF new
    <3>2. page' = [page EXCEPT !.shown = page.shown \cup {new}]
      BY <1>8, <2>2 DEF Search!Receive, new
    <3>3. page' \in Pages /\ page'.search = page.search
      BY <1>1, <3>1, <3>2 DEF Pages
    <3> QED
      BY <1>3, <3>3
  <2>3. CASE Head(events).kind # "lead"
    <3>1. page' = [page EXCEPT !.status = Head(events).kind, !.told = TRUE]
      BY <1>8, <2>3 DEF Search!Receive
    <3>2. page' \in Pages /\ page'.search = page.search
      BY <1>1, <2>1, <2>3, <3>1 DEF Pages, Events
    <3> QED
      BY <1>3, <3>2
  <2> QED
    BY <2>2, <2>3
<1>9. CASE Search!Answered
  <2>1. PICK answer \in answers :
          LET merged == [page EXCEPT !.shown = Search!MergeLeads(answer)]
          IN  \/ page' = merged
              \/ /\ page' = [merged EXCEPT !.status = answer.status, !.told = TRUE]
                 /\ answer.status \in {"completed", "failed"}
    BY <1>9 DEF Search!Answered
  <2>2. Search!MergeLeads(answer) \subseteq Search!Searches \X (1..LastLead)
    BY <1>1 DEF Search!MergeLeads, Search!LeadsOf, Answers, Pages
  <2> DEFINE new == Search!MergeLeads(answer)
  <2> HIDE DEF new
  <2>3. \/ page' = [page EXCEPT !.shown = new]
        \/ /\ page' = [page EXCEPT !.shown = new, !.status = answer.status, !.told = TRUE]
           /\ answer.status \in {"completed", "failed"}
    BY <2>1 DEF new
  <2>4. page' \in Pages /\ page'.search = page.search
    BY <1>1, <2>2, <2>3 DEF Pages, Search!Ends, new
  <2> QED
    BY <1>3, <2>4
<1> QED
  BY <1>4, <1>5, <1>6, <1>7, <1>8, <1>9
     DEF Search!Next, Search!NewDay, Search!StartElsewhere, Search!CreateJob, Search!SaveCount,
         Search!Enqueue, Search!DeleteCampaign, Search!Take, Search!MarkProcessing,
         Search!End, Search!GiveUp, Search!WorkerDies, Search!AddLead, Search!Announce,
         Search!Connect, Search!Disconnect, Search!Poll, Search!AnswerLost

\* So the state stays typed.
LEMMA RadarTypesStay ==
  ASSUME RadarInv, [Search!Next]_(Search!vars)
  PROVE  RadarTypes'
BY TablesStay, RequestsStay, QueueStays, FeedStays, PageStays
   DEF RadarTypes, Search!TypeOK, Request, RequestRows, Pages, Events, Answers
\* A search that ends is held by nobody but the worker that ended it.
LEMMA EndedIsOverStays ==
  ASSUME RadarInv, [Search!Next]_(Search!vars)
  PROVE  EndedIsOver'
<1> USE SearchAssumption DEF Search!jobs, Search!vars, Search!Ends
<1> SUFFICES ASSUME NEW s \in Search!Searches, s \notin stalled', status'[s] \in Search!Ends
             PROVE  Over(s)'
  BY DEF EndedIsOver, Search!Searches
<1>1. RadarTypes /\ HeldOnce /\ EndedIsOver
  BY DEF RadarInv
<1>2. stalled \subseteq stalled'
  BY QueueStays
<1>3. CASE status[s] \in Search!Ends
  BY <1>1, <1>2, <1>3, OverStays DEF EndedIsOver
<1>4. CASE status[s] \notin Search!Ends
  <2>1. Search!End /\ s = worker.search
    <3>0. status \in [Search!Searches -> {"none", "queued", "processing", "deleted", "completed",
         "failed"}]
      BY <1>1 DEF RadarTypes, Search!TypeOK
    <3>1. CASE UNCHANGED status
      BY <1>4, <3>1
    <3>2. CASE \E t \in Tabs : Search!CreateJob(t)
      BY <1>4, <3>0, <3>2 DEF Search!CreateJob
    <3>3. CASE \E r \in Search!Searches : Search!DeleteCampaign(r)
      BY <1>4, <3>0, <3>3 DEF Search!DeleteCampaign
    <3>4. CASE Search!MarkProcessing
      BY <1>4, <3>0, <3>4 DEF Search!MarkProcessing, Search!Current
    <3>5. CASE Search!End
      BY <1>4, <3>0, <3>5 DEF Search!End, Search!Current
    <3> QED
      BY <3>1, <3>2, <3>3, <3>4, <3>5
         DEF Search!Next, Search!StartSearch, Search!Follow, Search!NewDay, Search!StartElsewhere,
             Search!ReadCount, Search!SaveCount, Search!Enqueue, Search!StartFails, Search!Take,
             Search!AddLead, Search!Announce, Search!GiveUp, Search!WorkerDies, Search!Connect,
             Search!Disconnect, Search!Receive, Search!Poll, Search!Answered, Search!AnswerLost,
             Search!TimeIsUp, Search!Leave
  <2>2. PICK end \in Search!Ends : worker' = [worker EXCEPT !.at = end]
    BY <2>1 DEF Search!End
  <2>3. worker'.at = end /\ worker'.search = s
    BY <1>1, <2>1, <2>2 DEF RadarTypes, Search!TypeOK
  <2>4. UNCHANGED <<waiting, starting>>
    BY <2>1 DEF Search!End
  <2>5. s \notin waiting /\ \A t \in Tabs : ~YetToQueue(t, s)
    BY <1>1, <2>1 DEF HeldOnce
  <2>6. \A t \in Tabs : ~YetToQueue(t, s)'
    BY <2>4, <2>5 DEF YetToQueue
  <2> QED
    BY <2>2, <2>3, <2>4, <2>5, <2>6 DEF Over
<1> QED
  BY <1>3, <1>4

\* The page follows nothing from now on, or what it is fed does not change.
Forgets == progress' # "open" /\ events' = <<>> /\ answers' = {} /\ ~page'.told

FeedIsSame ==
    /\ UNCHANGED <<page, events, progress, gap, answers>>
    /\ \A s \in Search!Searches : leads'[s] <= leads[s]

LEMMA StepsOfPage ==
  ASSUME RadarInv, [Search!Next]_(Search!vars), ~Hasty
  PROVE  \/ Forgets \/ FeedIsSame
         \/ Search!TimeIsUp \/ Search!AddLead \/ Search!Announce \/ Search!Connect
         \/ Search!Disconnect \/ Search!Receive \/ Search!Poll \/ Search!Answered
         \/ Search!AnswerLost
<1> USE SearchAssumption DEF Search!transport, Search!jobs, Search!vars
<1>1. /\ leads \in [Search!Searches -> 0..LastLead]
      /\ \A s \in Search!Searches : leads[s] \in Nat
      /\ page \in Pages
      /\ Following
  BY DEF RadarInv, RadarTypes, Search!TypeOK, Pages
<1>2. CASE UNCHANGED <<page, events, progress, gap, answers, leads>>
  BY <1>1, <1>2 DEF FeedIsSame
<1>3. CASE \E s \in Search!Searches : Search!DeleteCampaign(s)
  BY <1>1, <1>3 DEF FeedIsSame, Search!DeleteCampaign
<1>4. CASE Search!StartSearch \/ Search!Leave
  BY <1>4 DEF Forgets, Search!StartSearch, Search!Leave, Search!StopStreaming
<1>5. CASE Search!Follow
  <2>1. starting[Page].at = "told" /\ page' = [page EXCEPT !.search = starting[Page].search]
        /\ progress' = "lost" /\ events' = events /\ answers' = answers
    BY <1>5 DEF Search!Follow, Search!At
  <2>2. page.search = 0 /\ page'.told = page.told
    BY <1>1, <2>1 DEF Following, Pages
  <2>3. progress # "open" /\ answers = {} /\ ~page.told /\ events = <<>>
    BY <1>1, <2>2 DEF Following
  <2> QED
    BY <2>1, <2>2, <2>3 DEF Forgets
<1>6. CASE \E t \in Tabs : Search!ReadCount(t) \/ Search!StartFails(t)
  <2>1. PICK t \in Tabs : Search!ReadCount(t) \/ Search!StartFails(t)
    BY <1>6
  <2>2. starting[t].at # "no" /\ UNCHANGED <<answers, gap, leads>>
    BY <2>1 DEF Search!ReadCount, Search!StartFails, Search!At
  <2>3. \/ UNCHANGED <<events, progress, page>>
        \/ /\ t = Page /\ progress' = "closed" /\ events' = <<>>
           /\ page' = [page EXCEPT !.status = "failed"]
    BY <2>1 DEF Search!ReadCount, Search!StartFails, Search!Refused, Search!StopStreaming
  <2>4. CASE UNCHANGED <<events, progress, page>>
    BY <1>1, <2>2, <2>4 DEF FeedIsSame
  <2>5. CASE /\ t = Page /\ progress' = "closed" /\ events' = <<>>
             /\ page' = [page EXCEPT !.status = "failed"]
    <3>1. page.search = 0 /\ page'.told = page.told
      BY <1>1, <2>2, <2>5 DEF Following, Pages
    <3> QED
      BY <1>1, <2>2, <2>5, <3>1 DEF Following, Forgets
  <2> QED
    BY <2>3, <2>4, <2>5
<1> QED
  BY <1>2, <1>3, <1>4, <1>5, <1>6
     DEF Search!Next, Search!NewDay, Search!StartElsewhere, Search!CreateJob, Search!SaveCount,
         Search!Enqueue, Search!Take, Search!MarkProcessing, Search!End, Search!GiveUp,
         Search!WorkerDies

\* The page is closed by its own clock, or an answer is lost.
LEMMA ClosingKeepsWhole ==
  ASSUME RadarInv, [Search!Next]_(Search!vars),
         Forgets \/ FeedIsSame \/ Search!TimeIsUp \/ Search!AnswerLost
  PROVE  (LeadsComing /\ EndComesLast /\ AnswersAreWhole /\ PageIsWhole)'
<1> USE SearchAssumption
<1>1. /\ LeadsComing /\ EndComesLast /\ AnswersAreWhole /\ PageIsWhole /\ Following
      /\ page \in Pages /\ leads \in [Search!Searches -> 0..LastLead]
      /\ answers \subseteq Answers /\ stalled \subseteq Search!Searches
  BY DEF RadarInv, RadarTypes, Search!TypeOK, Pages, Answers
<1>2. /\ \A s \in Search!Searches \ stalled' : Over(s) => Over(s)' /\ (Gone(s) => Gone(s)')
      /\ stalled \subseteq stalled' /\ leads' \in [Search!Searches -> 0..LastLead]
  BY OverStays, QueueStays, TablesStay
<1>3. CASE Forgets
  BY <1>3 DEF Forgets, LeadsComing, EndComesLast, AnswersAreWhole, PageIsWhole
<1>4. CASE ~Forgets
  <2>1. /\ page'.search = page.search /\ page'.shown = page.shown /\ page'.told = page.told
        /\ answers' \subseteq answers /\ gap' = gap
        /\ \A s \in Search!Searches : leads'[s] <= leads[s]
    <3>1. CASE FeedIsSame
      BY <3>1 DEF FeedIsSame
    <3>2. CASE Search!TimeIsUp
      <4>1. \E mark : page' = [page EXCEPT !.status = mark]
        BY <3>2 DEF Search!TimeIsUp
      <4>2. UNCHANGED <<answers, gap, leads>>
        BY <3>2 DEF Search!TimeIsUp, Search!jobs
      <4>3. \A s \in Search!Searches : leads[s] <= leads[s]
        BY <1>1
      <4> QED
        BY <1>1, <4>1, <4>2, <4>3 DEF Pages
    <3>3. CASE Search!AnswerLost
      BY <1>1, <3>3 DEF Search!AnswerLost, Search!jobs
    <3> QED
      BY <1>4, <3>1, <3>2, <3>3
  <2>2. \/ events' = events /\ progress' = progress
        \/ events' = <<>> /\ progress' = "closed"
    BY <1>4 DEF Search!transport, FeedIsSame, Search!TimeIsUp, Search!StopStreaming, Search!AnswerLost
  <2>0. PICK s : s = page.search
    OBVIOUS
  <2>3. s \in Search!Searches \/ s = 0
    BY <1>1, <2>0 DEF Pages, Search!None
  <2>4. s = 0 => events' = <<>> /\ answers' = {} /\ ~page'.told
    BY <1>1, <2>0, <2>1, <2>2 DEF Following
  <2>5. s # 0 => leads'[s] <= leads[s] /\ leads'[s] \in Nat /\ leads[s] \in Nat
    BY <1>1, <1>2, <2>1, <2>3
  <2>6. s # 0 /\ s \notin stalled' => (Over(s) => Over(s)') /\ (Gone(s) => Gone(s)')
    BY <1>2, <2>3 DEF Gone
  <2>7. s \notin stalled' => s \notin stalled
    BY <1>2
  <2>8. LeadsComing'
    BY <1>1, <2>0, <2>1, <2>2, <2>5 DEF LeadsComing
  <2>9. EndComesLast'
    BY <1>1, <2>0, <2>1, <2>2, <2>4, <2>6, <2>7 DEF EndComesLast
  <2>10. AnswersAreWhole'
    <3>1. \A answer \in answers : answer.leads \in Nat
      BY <1>1 DEF Answers
    <3> QED
      BY <1>1, <2>0, <2>1, <2>4, <2>5, <2>6, <2>7, <3>1 DEF AnswersAreWhole
  <2>11. PageIsWhole'
    BY <1>1, <2>0, <2>1, <2>4, <2>5, <2>6, <2>7 DEF PageIsWhole
  <2> QED
    BY <2>8, <2>9, <2>10, <2>11
<1> QED
  BY <1>3, <1>4

\* The worker publishes a lead or the end of the search.
LEMMA PublishKeepsWhole ==
  ASSUME RadarInv, [Search!Next]_(Search!vars), Search!AddLead \/ Search!Announce
  PROVE  (LeadsComing /\ EndComesLast /\ AnswersAreWhole /\ PageIsWhole)'
<1> USE SearchAssumption
<1>1. /\ LeadsComing /\ EndComesLast /\ AnswersAreWhole /\ PageIsWhole /\ Following
      /\ page \in Pages /\ leads \in [Search!Searches -> 0..LastLead]
      /\ answers \subseteq Answers /\ stalled \subseteq Search!Searches
      /\ events \in Seq(Events)
  BY DEF RadarInv, RadarTypes, Search!TypeOK, Pages, Answers, Events
<1>2. \A s \in Search!Searches \ stalled' : Over(s) => Over(s)' /\ (Gone(s) => Gone(s)')
  BY OverStays
<1>3. UNCHANGED <<page, progress, answers, stalled>> /\ worker.search \in Search!Searches
  BY DEF Search!AddLead, Search!Announce, Search!queued, RadarInv, RadarTypes, Search!TypeOK,
         Search!None, Search!Ends
<1>4. PICK s : s = page.search
  OBVIOUS
<1>5. PICK event : /\ Search!Publish(event)
                   /\ \/ /\ Search!AddLead /\ event = Search!Event("lead", leads[worker.search] + 1)
                      \/ Search!Announce /\ event.kind \in Search!Ends
  BY DEF Search!AddLead, Search!Announce, Search!Current, Search!Event, Search!Ends
<1>6. \/ /\ progress = "open" /\ s = worker.search
         /\ events' = Append(events, event) /\ gap' = gap
      \/ events' = events /\ (s = worker.search => gap' = TRUE) /\ (~gap' => ~gap)
  BY <1>1, <1>4, <1>5 DEF Search!Publish, Search!Current, RadarInv, RadarTypes, Search!TypeOK
<1>7. /\ s # worker.search /\ s # 0 => leads'[s] = leads[s]
      /\ Search!Announce => leads' = leads
      /\ Search!AddLead => leads' = [leads EXCEPT ![worker.search] = leads[worker.search] + 1]
  <2>1. s \in Search!Searches \cup {0}
    BY <1>1, <1>4 DEF Pages, Search!None
  <2> QED
    BY <1>1, <1>3, <1>5, <2>1 DEF Search!AddLead, Search!Announce, Search!jobs, Search!Current
<1>8. Search!AddLead => ~Over(worker.search)
  BY DEF Search!AddLead, Over, Search!Ends
<1>9. ~Gone(worker.search)
  BY DEF Gone
<1>10. LeadsComing'
  <2> SUFFICES ASSUME s # 0, ~gap', progress = "open", NEW l \in 1..leads'[s]
               PROVE  \/ <<s, l>> \in page.shown
                      \/ \E i \in 1..Len(events') : events'[i] = Search!Event("lead", l)
    BY <1>3, <1>4 DEF LeadsComing
  <2>0. \A k \in 1..leads[s] : \/ <<s, k>> \in page.shown
                               \/ \E i \in 1..Len(events) : events[i] = Search!Event("lead", k)
    BY <1>1, <1>4, <1>6 DEF LeadsComing
  <2>1. CASE events' = events /\ s # worker.search
    BY <1>7, <2>0, <2>1
  <2>2. CASE events' = Append(events, event) /\ s = worker.search
    <3>1. /\ \A i \in 1..Len(events) : events'[i] = events[i] /\ i \in 1..Len(events')
          /\ events'[Len(events) + 1] = event /\ Len(events) + 1 \in 1..Len(events')
      BY <1>1, <2>2
    <3>2. CASE l \in 1..leads[s]
      BY <2>0, <3>1, <3>2
    <3>3. CASE l \notin 1..leads[s]
      <4>1. Search!AddLead /\ l = leads[s] + 1
        <5>1. leads[s] \in Nat
          BY <1>1, <1>3, <2>2
        <5>2. Search!AddLead
          BY <1>5, <1>7, <3>3
        <5>3. leads'[s] = leads[s] + 1
          BY <1>1, <1>3, <1>7, <2>2, <5>2
        <5> QED
          BY <3>3, <5>1, <5>2, <5>3
      <4>2. event = Search!Event("lead", l)
        BY <1>5, <2>2, <4>1 DEF Search!Event, Search!Ends, Search!AddLead, Search!Announce
      <4> QED
        BY <3>1, <4>2
    <3> QED
      BY <3>2, <3>3
  <2> QED
    BY <1>6, <2>1, <2>2
<1>11. EndComesLast'
  <2> SUFFICES ASSUME s \notin stalled, NEW i \in 1..Len(events'), events'[i].kind \in Search!Ends
               PROVE  i = Len(events') /\ Gone(s)'
    BY <1>3, <1>4 DEF EndComesLast
  <2>0. s \in Search!Searches
    <3>1. s = 0 => events' = <<>>
      BY <1>1, <1>3, <1>4, <1>6 DEF Following, Search!Searches
    <3> QED
      BY <1>1, <1>4, <3>1 DEF Pages, Search!None
  <2>1. CASE events' = events
    BY <1>1, <1>2, <1>3, <1>4, <2>0, <2>1 DEF EndComesLast, Gone
  <2>2. CASE events' = Append(events, event) /\ s = worker.search
    <3>1. /\ Len(events') = Len(events) + 1 /\ events'[Len(events')] = event
          /\ \A k \in 1..Len(events) : events'[k] = events[k]
          /\ Len(events) \in Nat
      BY <1>1, <2>2
    <3>2. i \notin 1..Len(events)
      BY <1>1, <1>4, <1>9, <2>2, <3>1 DEF EndComesLast
    <3>3. i = Len(events')
      BY <3>1, <3>2
    <3>4. Search!Announce
      BY <1>5, <3>1, <3>3 DEF Search!Event, Search!Ends
    <3>5. Over(s)
      BY <2>0, <2>2, <3>4
         DEF Search!Announce, RadarInv, RadarTypes, HeldOnce, Over, Search!Ends, Search!Searches
    <3>6. worker' = Search!Resting
      BY <3>4 DEF Search!Announce
    <3>7. Over(s)' /\ worker'.search # s
      BY <1>2, <1>3, <2>0, <3>5, <3>6 DEF Search!Resting, Search!None, Search!Searches
    <3> QED
      BY <3>3, <3>7 DEF Gone
  <2> QED
    BY <1>6, <2>1, <2>2
<1>12. AnswersAreWhole'
  <2> SUFFICES ASSUME s \notin stalled, NEW answer \in answers, answer.status \in Search!Ends
               PROVE  Over(s)' /\ leads'[s] <= answer.leads
    BY <1>3, <1>4 DEF AnswersAreWhole
  <2>1. Over(s) /\ leads[s] <= answer.leads /\ s \in Search!Searches
    BY <1>1, <1>4 DEF AnswersAreWhole, Following, Pages, Search!None
  <2>2. leads'[s] = leads[s]
    BY <1>5, <1>7, <1>8, <2>1 DEF Search!Searches
  <2> QED
    BY <1>2, <1>3, <2>1, <2>2
<1>13. PageIsWhole'
  <2> SUFFICES ASSUME page.told, s \notin stalled
               PROVE  /\ Over(s)'
                      /\ ~gap' => \A l \in 1..leads'[s] : <<s, l>> \in page.shown
    BY <1>3, <1>4 DEF PageIsWhole
  <2>1. /\ Over(s) /\ s \in Search!Searches
        /\ ~gap => \A l \in 1..leads[s] : <<s, l>> \in page.shown
    BY <1>1, <1>4 DEF PageIsWhole, Following, Pages, Search!None
  <2>2. leads'[s] = leads[s]
    BY <1>5, <1>7, <1>8, <2>1 DEF Search!Searches
  <2> QED
    BY <1>2, <1>3, <1>6, <2>1, <2>2
<1> QED
  BY <1>10, <1>11, <1>12, <1>13

\* The stream connects or breaks.
LEMMA StreamKeepsWhole ==
  ASSUME RadarInv, [Search!Next]_(Search!vars), Search!Connect \/ Search!Disconnect
  PROVE  (LeadsComing /\ EndComesLast /\ AnswersAreWhole /\ PageIsWhole)'
<1> USE SearchAssumption
<1>1. /\ LeadsComing /\ EndComesLast /\ AnswersAreWhole /\ PageIsWhole /\ Following
      /\ leads \in [Search!Searches -> 0..LastLead] /\ page \in Pages
  BY DEF RadarInv, RadarTypes, Search!TypeOK, Pages
<1>2. UNCHANGED <<page, answers, stalled, waiting, worker, starting, status, leads>>
      /\ events' = <<>> /\ (~gap' => ~gap)
  BY <1>1 DEF Search!Connect, Search!Disconnect, Search!jobs, Search!queued, Following,
              RadarInv, RadarTypes, Search!TypeOK
<1>3. LeadsComing'
  <2>1. CASE Search!Connect
    <3>1. gap' <=> gap \/ leads[page.search] > 0
      BY <2>1 DEF Search!Connect
    <3>2. page.search # 0 => leads[page.search] \in Nat
      BY <1>1 DEF Pages, Search!None
    <3>3. page.search # 0 /\ ~gap' => leads[page.search] = 0
      BY <3>1, <3>2
    <3> QED
      BY <1>2, <3>3 DEF LeadsComing
  <2>2. CASE Search!Disconnect
    BY <2>2 DEF LeadsComing, Search!Disconnect
  <2> QED
    BY <2>1, <2>2
<1>4. \A s : Over(s)' = Over(s)
  BY <1>2 DEF Over, YetToQueue
<1> QED
  BY <1>1, <1>2, <1>3, <1>4 DEF EndComesLast, AnswersAreWhole, PageIsWhole

\* The interval asks for a snapshot.
LEMMA PollKeepsWhole ==
  ASSUME RadarInv, [Search!Next]_(Search!vars), Search!Poll
  PROVE  (LeadsComing /\ EndComesLast /\ AnswersAreWhole /\ PageIsWhole)'
<1> USE SearchAssumption
<1>1. /\ LeadsComing /\ EndComesLast /\ AnswersAreWhole /\ PageIsWhole /\ Following /\ EndedIsOver
      /\ leads \in [Search!Searches -> 0..LastLead] /\ page \in Pages
  BY DEF RadarInv, RadarTypes, Search!TypeOK, Pages
<1> DEFINE new == [search |-> page.search, status |-> status[page.search],
                   leads |-> leads[page.search]]
<1>2. /\ UNCHANGED <<page, events, progress, gap, stalled, waiting, worker, starting, status, leads>>
      /\ answers' = answers \cup {new} /\ polling
  BY DEF Search!Poll, Search!jobs, Search!queued
<1>3. page.search \in Search!Searches
  BY <1>1, <1>2 DEF Following, Pages, Search!None
<1>4. \A s : Over(s)' = Over(s) /\ Gone(s)' = Gone(s)
  BY <1>2 DEF Over, YetToQueue, Gone
<1>5. AnswersAreWhole'
  <2>1. leads[page.search] \in Nat
    BY <1>1, <1>3
  <2>2. new.status \in Search!Ends /\ page.search \notin stalled =>
           Over(page.search) /\ leads[page.search] <= new.leads
    BY <1>1, <1>3, <2>1 DEF EndedIsOver
  <2> HIDE DEF new
  <2> QED
    BY <1>1, <1>2, <1>4, <2>2 DEF AnswersAreWhole
<1>6. (LeadsComing /\ EndComesLast /\ PageIsWhole)'
  BY <1>1, <1>2, <1>4 DEF LeadsComing, EndComesLast, PageIsWhole
<1> QED
  BY <1>5, <1>6

\* The page receives a lead, or the event of the end: what came before is on the page.
LEMMA ReceiveKeepsWhole ==
  ASSUME RadarInv, [Search!Next]_(Search!vars), Search!Receive
  PROVE  (LeadsComing /\ EndComesLast /\ AnswersAreWhole /\ PageIsWhole)'
<1> USE SearchAssumption
<1>1. /\ LeadsComing /\ EndComesLast /\ AnswersAreWhole /\ PageIsWhole /\ Following
      /\ leads \in [Search!Searches -> 0..LastLead] /\ page \in Pages
      /\ events \in Seq(Events)
  BY DEF RadarInv, RadarTypes, Search!TypeOK, Pages, Events
<1>2. /\ UNCHANGED <<answers, gap, stalled, waiting, worker, starting, status, leads>>
      /\ events # <<>>
  BY DEF Search!Receive, Search!jobs, Search!queued
<1>3. PICK s : s = page.search
  OBVIOUS
<1>4. /\ progress = "open" /\ s \in Search!Searches /\ s # 0
      /\ Len(events) \in Nat \ {0} /\ Head(events) = events[1] /\ events[1] \in Events
  BY <1>1, <1>2, <1>3 DEF Following, Pages, Search!None
<1>5. \A r : Over(r)' = Over(r) /\ Gone(r)' = Gone(r)
  BY <1>2 DEF Over, YetToQueue, Gone
<1>6. CASE Head(events).kind = "lead"
  <2> DEFINE new == <<page.search, Head(events).lead>>
  <2>1. /\ page' = [page EXCEPT !.shown = page.shown \cup {new}]
        /\ events' = Tail(events) /\ progress' = progress
    BY <1>6 DEF Search!Receive
  <2> HIDE DEF new
  <2>2. page'.search = s /\ page'.shown = page.shown \cup {new} /\ page'.told = page.told
    BY <1>1, <1>3, <2>1 DEF Pages
  <2>3. /\ Len(events') = Len(events) - 1
        /\ \A i \in 1..Len(events') : events'[i] = events[i + 1]
    BY <1>1, <1>2, <2>1
  <2>4. LeadsComing'
    <3> SUFFICES ASSUME ~gap, NEW l \in 1..leads[s]
                 PROVE  \/ <<s, l>> \in page'.shown
                        \/ \E i \in 1..Len(events') : events'[i] = Search!Event("lead", l)
      BY <1>2, <2>1, <2>2 DEF LeadsComing
    <3>1. \/ <<s, l>> \in page.shown
          \/ \E i \in 1..Len(events) : events[i] = Search!Event("lead", l)
      BY <1>1, <1>3, <1>4 DEF LeadsComing
    <3>2. CASE events[1] = Search!Event("lead", l)
      BY <1>3, <1>4, <2>2, <3>2 DEF new, Search!Event
    <3>3. ASSUME NEW i \in 1..Len(events), events[i] = Search!Event("lead", l), i # 1
          PROVE  i - 1 \in 1..Len(events') /\ events'[i - 1] = Search!Event("lead", l)
      BY <1>4, <2>3, <3>3
    <3> QED
      BY <2>2, <3>1, <3>2, <3>3
  <2>5. EndComesLast'
    <3> SUFFICES ASSUME s \notin stalled, NEW i \in 1..Len(events'), events'[i].kind \in Search!Ends
                 PROVE  i = Len(events') /\ Gone(s)'
      BY <1>2, <2>2 DEF EndComesLast
    <3>1. i + 1 \in 1..Len(events) /\ events[i + 1].kind \in Search!Ends
      BY <1>4, <2>3
    <3>2. i + 1 = Len(events) /\ Gone(s)
      BY <1>1, <1>3, <3>1 DEF EndComesLast
    <3>3. Gone(s)'
      BY <1>5, <3>2
    <3> QED
      BY <1>4, <2>3, <3>2, <3>3
  <2>6. AnswersAreWhole' /\ PageIsWhole'
    BY <1>1, <1>2, <1>3, <1>5, <2>2 DEF AnswersAreWhole, PageIsWhole
  <2> QED
    BY <2>4, <2>5, <2>6
<1>7. CASE Head(events).kind # "lead"
  <2>1. /\ page' = [page EXCEPT !.status = Head(events).kind, !.told = TRUE]
        /\ events' = <<>> /\ progress' = "closed"
    BY <1>7 DEF Search!Receive, Search!StopStreaming
  <2>2. page'.search = s /\ page'.shown = page.shown
    BY <1>1, <1>3, <2>1 DEF Pages
  <2>3. LeadsComing' /\ EndComesLast'
    BY <2>1 DEF LeadsComing, EndComesLast
  <2>4. AnswersAreWhole'
    BY <1>1, <1>2, <1>3, <1>5, <2>2 DEF AnswersAreWhole
  <2>5. events[1].kind \in Search!Ends
    BY <1>4, <1>7 DEF Events
  <2>6. s \notin stalled => Len(events) = 1 /\ Gone(s)
    <3>1. 1 \in 1..Len(events)
      BY <1>4
    <3> QED
      BY <1>1, <1>3, <2>5, <3>1 DEF EndComesLast
  <2>7. s \notin stalled /\ ~gap => \A l \in 1..leads[s] : <<s, l>> \in page.shown
    <3> SUFFICES ASSUME s \notin stalled, ~gap, NEW l \in 1..leads[s]
                 PROVE  <<s, l>> \in page.shown
      OBVIOUS
    <3>1. events[1] # Search!Event("lead", l)
      BY <2>5 DEF Search!Event, Search!Ends
    <3>2. \A i \in 1..Len(events) : i = 1
      <4>1. Len(events) = 1
        BY <2>6
      <4> QED
        BY <4>1
    <3> QED
      BY <1>1, <1>3, <1>4, <3>1, <3>2 DEF LeadsComing
  <2>8. PageIsWhole'
    BY <1>2, <1>5, <2>2, <2>6, <2>7 DEF PageIsWhole, Gone
  <2> QED
    BY <2>3, <2>4, <2>8
<1> QED
  BY <1>6, <1>7

\* The page receives a snapshot: one that tells of the end has all the leads.
LEMMA AnsweredKeepsWhole ==
  ASSUME RadarInv, [Search!Next]_(Search!vars), Search!Answered
  PROVE  (LeadsComing /\ EndComesLast /\ AnswersAreWhole /\ PageIsWhole)'
<1> USE SearchAssumption
<1>1. /\ LeadsComing /\ EndComesLast /\ AnswersAreWhole /\ PageIsWhole /\ Following
      /\ leads \in [Search!Searches -> 0..LastLead] /\ page \in Pages
      /\ answers \subseteq Answers
  BY DEF RadarInv, RadarTypes, Search!TypeOK, Pages, Answers
<1>2. UNCHANGED <<gap, stalled, waiting, worker, starting, status, leads>>
  BY DEF Search!Answered, Search!jobs, Search!queued
<1>3. PICK s : s = page.search
  OBVIOUS
<1>4. \A r : Over(r)' = Over(r) /\ Gone(r)' = Gone(r)
  BY <1>2 DEF Over, YetToQueue, Gone
<1>5. PICK answer \in answers :
         /\ answers' = answers \ {answer}
         /\ LET merged == [page EXCEPT !.shown = Search!MergeLeads(answer)]
            IN  IF answer.status \in {"completed", "failed"}
                THEN /\ page' = [merged EXCEPT !.status = answer.status, !.told = TRUE]
                     /\ Search!StopStreaming
                ELSE page' = merged /\ UNCHANGED <<events, progress, polling>>
  BY DEF Search!Answered
<1>6. /\ page'.search = s /\ page'.shown = page.shown \cup Search!LeadsOf(answer)
      /\ answer.search = s /\ s \in Search!Searches /\ answer \in Answers
      /\ answer.status \notin {"completed", "failed"} => page'.told = page.told
  BY <1>1, <1>3, <1>5 DEF Pages, Following, Search!MergeLeads, Search!None
<1>7. \/ events' = events /\ progress' = progress
      \/ events' = <<>> /\ progress' = "closed"
  BY <1>5 DEF Search!StopStreaming
<1>8. LeadsComing' /\ EndComesLast' /\ AnswersAreWhole'
  BY <1>1, <1>2, <1>3, <1>4, <1>5, <1>6, <1>7 DEF LeadsComing, EndComesLast, AnswersAreWhole
<1>9. PageIsWhole'
  <2>1. CASE answer.status \in {"completed", "failed"}
    <3>1. s \notin stalled => Over(s) /\ leads[s] <= answer.leads
      BY <1>1, <1>3, <2>1 DEF AnswersAreWhole, Search!Ends
    <3>2. leads[s] \in Nat /\ answer.leads \in Nat
      BY <1>1, <1>6 DEF Answers
    <3>3. s \notin stalled => \A l \in 1..leads[s] : <<s, l>> \in page'.shown
      BY <1>6, <3>1, <3>2 DEF Search!LeadsOf
    <3> QED
      BY <1>2, <1>4, <1>6, <3>1, <3>3 DEF PageIsWhole
  <2>2. CASE answer.status \notin {"completed", "failed"}
    BY <1>1, <1>2, <1>3, <1>4, <1>6, <2>2 DEF PageIsWhole
  <2> QED
    BY <2>1, <2>2
<1> QED
  BY <1>8, <1>9

\* The invariant holds at first.
LEMMA RadarInit == Search!Init => RadarInv
<1> SUFFICES ASSUME Search!Init PROVE RadarInv
  OBVIOUS
<1> USE SearchAssumption DEF Search!Init
<1>1. RadarTypes
  <2>1. page \in Pages /\ page.search = 0
    BY DEF Pages, Search!None
  <2>2. starting \in [Tabs -> RequestRows] /\ \A t \in Tabs : starting[t].at = "no"
    BY DEF RequestRows, Search!NotStarting, Search!None
  <2>3. worker.at = "idle" /\ worker.search = 0
        /\ worker \in [at : {"idle", "mark", "scrape"} \cup Search!Ends,
                       search : Search!Searches \cup {Search!None}]
    BY DEF Search!Resting, Search!None
  <2>4. /\ events \in Seq([kind : {"lead"} \cup Search!Ends, lead : 0..LastLead])
        /\ \A i \in 1..Len(events) : events[i].kind = "lead" => events[i].lead # 0
    OBVIOUS
  <2>5. /\ status \in [Search!Searches -> {"none", "queued", "processing", "deleted"} \cup Search!Ends]
        /\ leads \in [Search!Searches -> 0..LastLead]
        /\ searched \in 0..DailyLimit /\ today \in Nat
    OBVIOUS
  <2>6. waiting = {} /\ stalled = {} /\ answers = {} /\ polling = FALSE /\ gap = FALSE
        /\ progress = "closed"
    OBVIOUS
  <2>7. Search!TypeOK
    BY <2>1, <2>2, <2>3, <2>4, <2>5, <2>6 DEF Search!TypeOK, Pages, RequestRows
  <2> QED
    BY <2>1, <2>2, <2>3, <2>4, <2>6, <2>7 DEF RadarTypes
<1>2. HeldOnce /\ EndedIsOver
  BY DEF HeldOnce, EndedIsOver, YetToQueue, Search!NotStarting, Search!Ends
<1>3. Following /\ LeadsComing /\ EndComesLast /\ AnswersAreWhole /\ PageIsWhole
  BY DEF Following, LeadsComing, EndComesLast, AnswersAreWhole, PageIsWhole,
         Search!NotStarting, Search!None
<1> QED
  BY <1>1, <1>2, <1>3 DEF RadarInv

\* Every step keeps the invariant.
LEMMA RadarStep == ~Hasty /\ RadarInv /\ [Search!Next]_(Search!vars) => RadarInv'
<1> SUFFICES ASSUME ~Hasty, RadarInv, [Search!Next]_(Search!vars)
             PROVE  RadarInv'
  OBVIOUS
<1>1. RadarTypes' /\ HeldOnce' /\ Following' /\ EndedIsOver'
  BY RadarTypesStay, HeldOnceStays, FollowingStays, EndedIsOverStays
<1>2. (LeadsComing /\ EndComesLast /\ AnswersAreWhole /\ PageIsWhole)'
  BY StepsOfPage, ClosingKeepsWhole, PublishKeepsWhole, StreamKeepsWhole, PollKeepsWhole,
     ReceiveKeepsWhole, AnsweredKeepsWhole
<1> QED
  BY <1>1, <1>2 DEF RadarInv

\* A page that has the leads of its search shows as many as there are.
LEMMA RadarShowsAll == RadarInv => ShownIsWhole
<1> SUFFICES ASSUME RadarInv, page.told, page.status = "completed"
             PROVE  /\ page.search # Search!None
                    /\ page.shown \subseteq {page.search} \X (1..LastLead)
                    /\ gap \/ page.search \in stalled
                       \/ Search!Cardinality(page.shown) >= leads[page.search]
  BY DEF ShownIsWhole, Search!ShownIsWhole
<1> USE SearchAssumption
<1> DEFINE s == page.search
<1>1. /\ Following /\ PageIsWhole /\ page \in Pages
      /\ leads \in [Search!Searches -> 0..LastLead]
  BY DEF RadarInv, RadarTypes, Search!TypeOK, Pages
<1>2. s \in Search!Searches /\ s # 0
  BY <1>1 DEF Following, Pages, Search!None
<1>3. page.shown \subseteq {s} \X (1..LastLead)
  BY <1>1 DEF Following, Pages
<1>4. ASSUME ~gap, s \notin stalled
      PROVE  Cardinality(page.shown) >= leads[s]
  <2>1. leads[s] \in Nat /\ {s} \X (1..leads[s]) \subseteq page.shown
    BY <1>1, <1>2, <1>4 DEF PageIsWhole
  <2>2. IsFiniteSet({s}) /\ Cardinality({s}) = 1
    BY FS_Singleton
  <2>3. \A n \in Nat : IsFiniteSet(1..n) /\ Cardinality(1..n) = n
    BY FS_Interval
  <2>4. \A n \in Nat : IsFiniteSet({s} \X (1..n)) /\ Cardinality({s} \X (1..n)) = n
    <3> SUFFICES ASSUME NEW n \in Nat
                 PROVE  IsFiniteSet({s} \X (1..n)) /\ Cardinality({s} \X (1..n)) = n
      OBVIOUS
    <3>1. /\ IsFiniteSet({s} \X (1..n))
          /\ Cardinality({s} \X (1..n)) = Cardinality({s}) * Cardinality(1..n)
      BY <2>2, <2>3, FS_Product
    <3> QED
      BY <2>2, <2>3, <3>1
  <2>5. IsFiniteSet(page.shown)
    BY <1>3, <2>4, FS_Subset
  <2>6. Cardinality({s} \X (1..leads[s])) <= Cardinality(page.shown)
    BY <2>1, <2>5, FS_Subset
  <2>7. Cardinality(page.shown) \in Nat
    BY <2>5, FS_CardinalityType
  <2> QED
    BY <2>1, <2>4, <2>6, <2>7
<1> QED
  BY <1>2, <1>3, <1>4 DEF Cardinality, Search!Cardinality, Search!None

\* A page that was told that its search is complete shows all its leads and those of
\* no other search, unless an event could not be streamed or a worker took the search
\* up again, in whatever order events and snapshots come: if a search is not started
\* while answers about the last one are due.
THEOREM SearchesAreShown == ~Hasty => (Search!Spec => []ShownIsWhole)
<1> SUFFICES ASSUME ~Hasty PROVE Search!Spec => []ShownIsWhole
  OBVIOUS
<1>1. Search!Init => RadarInv
  BY RadarInit
<1>2. RadarInv /\ [Search!Next]_(Search!vars) => RadarInv'
  BY RadarStep
<1>3. RadarInv => ShownIsWhole
  BY RadarShowsAll
<1> QED
  BY <1>1, <1>2, <1>3, PTL DEF Search!Spec

-----------------------------------------------------------------------------
(* GroupRemoval *)

\* A set of naturals that is not empty has a least element.
LEMMA LeastOf ==
  ASSUME NEW T, T \subseteq Nat, T # {}
  PROVE  \E n \in T : \A m \in T : n <= m
<1> DEFINE R == OpToRel(<, Nat)
<1>1. IsWellFoundedOn(R, Nat)
  BY NatLessThanWellFounded
<1>2. PICK n \in T : \A m \in T : ~(<<m, n>> \in R)
  BY <1>1, WFMin
<1>3. ASSUME NEW m \in T PROVE n <= m
  <2>1. ~(m < n)
    BY <1>2, <1>3 DEF OpToRel
  <2> QED
    BY <2>1
<1> QED
  BY <1>3

TakesFrom(s, K, n, g) ==
    IF n = 0 THEN <<>> ELSE IF s[n] \in K THEN Append(g[n - 1], s[n]) ELSE g[n - 1]
Taking(s, K, k, g) ==
    /\ g \in [0..k -> Seq(Rows)]
    /\ \A n \in 0..k : g[n] = TakesFrom(s, K, n, g)

LEMMA TakingExists ==
  ASSUME NEW K, K \subseteq Rows, NEW s, NEW k \in Nat
  PROVE  \E g : Taking(s, K, k, g)
<1> DEFINE T == {n \in Nat : ~\E g : Taking(s, K, n, g)}
<1>1. SUFFICES ASSUME T # {} PROVE FALSE
  OBVIOUS
<1>2. PICK n \in T : \A m \in T : n <= m
  BY <1>1, LeastOf
<1>3. CASE n = 0
  <2>1. Taking(s, K, 0, [m \in 0..0 |-> <<>>])
    BY DEF Taking, TakesFrom
  <2> QED
    BY <1>3, <2>1
<1>4. CASE n # 0
  <2>1. n - 1 \in Nat /\ ~(n <= n - 1) /\ n \in Nat
    BY <1>4
  <2>2. PICK g : Taking(s, K, n - 1, g)
    BY <1>2, <2>1
  <2>3. g[n - 1] \in Seq(Rows)
    BY <2>1, <2>2 DEF Taking
  <2> DEFINE last == IF s[n] \in K THEN Append(g[n - 1], s[n]) ELSE g[n - 1]
             h == [m \in 0..n |-> IF m = n THEN last ELSE g[m]]
  <2>4. last \in Seq(Rows)
    BY <2>3
  <2> HIDE DEF last
  <2>5. h \in [0..n -> Seq(Rows)]
    <3>1. ASSUME NEW m \in 0..n, m # n PROVE g[m] \in Seq(Rows)
      BY <2>1, <2>2, <3>1 DEF Taking
    <3> QED
      BY <2>4, <3>1
  <2>6. ASSUME NEW m \in 0..n PROVE h[m] = TakesFrom(s, K, m, h)
    <3>1. CASE m = n
      <4>1. h[m - 1] = g[n - 1] /\ h[m] = last
        BY <2>1, <3>1
      <4> QED
        BY <1>4, <3>1, <4>1 DEF TakesFrom, last
    <3>2. CASE m # n
      <4>1. m \in 0..(n - 1) /\ h[m] = g[m] /\ (m # 0 => h[m - 1] = g[m - 1])
        BY <2>1, <3>2
      <4>2. g[m] = TakesFrom(s, K, m, g)
        BY <2>2, <4>1 DEF Taking
      <4> HIDE DEF h
      <4> QED
        BY <4>1, <4>2 DEF TakesFrom
    <3> QED
      BY <3>1, <3>2
  <2> HIDE DEF h
  <2>7. Taking(s, K, n, h)
    BY <2>5, <2>6 DEF Taking
  <2> QED
    BY <2>7
<1> QED
  BY <1>3, <1>4

\* What is left of a sequence of rows is a sequence of rows.
LEMMA OnlyTyped ==
  ASSUME NEW K, K \subseteq Rows, NEW s, Len(s) \in Nat
  PROVE  Only(s, K) \in Seq(Rows)
<1> DEFINE k == Len(s)
           IsTaken(h) == h = [n \in 0..k |-> IF n = 0 THEN <<>>
                                             ELSE IF s[n] \in K THEN Append(h[n - 1], s[n])
                                             ELSE h[n - 1]]
           taken == CHOOSE h : IsTaken(h)
<1>1. Only(s, K) = taken[k]
  BY DEF Only
<1>2. PICK g : Taking(s, K, k, g)
  BY TakingExists
<1>3. IsTaken(g)
  BY <1>2 DEF Taking, TakesFrom
<1>4. IsTaken(taken)
  BY <1>3
<1> HIDE DEF taken
<1> DEFINE T == {n \in Nat : n <= k /\ taken[n] \notin Seq(Rows)}
<1>5. SUFFICES ASSUME T # {} PROVE FALSE
  BY <1>1
<1>6. PICK n \in T : \A m \in T : n <= m
  BY <1>5, LeastOf
<1>7. n \in 0..k /\ taken[n] \notin Seq(Rows)
  BY <1>6
<1>8. n # 0
  BY <1>4, <1>7
<1>9. n - 1 \in Nat /\ n - 1 <= k /\ ~(n <= n - 1)
  BY <1>7, <1>8
<1>10. taken[n - 1] \in Seq(Rows)
  BY <1>6, <1>9
<1>11. taken[n] = IF s[n] \in K THEN Append(taken[n - 1], s[n]) ELSE taken[n - 1]
  BY <1>4, <1>7, <1>8
<1>12. Append(taken[n - 1], s[n]) \in Seq(Rows) \/ s[n] \notin K
  BY <1>10
<1> QED
  BY <1>7, <1>10, <1>11, <1>12

LEMMA ListsLose ==
  ASSUME TypeOK
  PROVE  /\ Only(queue, Rows \ {Head(batch)}) \in Seq(Rows)
         /\ Only(queue, Rows \ Range(kept)) \in Seq(Rows)
<1>1. Len(queue) \in Nat
  BY DEF TypeOK
<1> QED
  BY <1>1, OnlyTyped

LEMMA RetriedTyped ==
  ASSUME TypeOK, RetryOrGiveUp
  PROVE  queue' \in Seq(Rows)
<1> DEFINE tried == [i \in DOMAIN queue |->
                       IF queue[i] \in Range(kept)
                       THEN [queue[i] EXCEPT !.attempts = @ + 1] ELSE queue[i]]
           K == {r \in Rows : r.attempts < MaxAttempts}
<1>1. Len(queue) \in Nat /\ DOMAIN queue = 1..Len(queue)
  BY DEF TypeOK
<1>2. DOMAIN tried = 1..Len(queue)
  BY <1>1
<1> HIDE DEF tried
<1>3. Len(tried) = Len(queue)
  BY <1>1, <1>2
<1> HIDE DEF K
<1>4. K \subseteq Rows
  BY DEF K
<1>5. Only(tried, K) \in Seq(Rows)
  BY <1>1, <1>3, <1>4, OnlyTyped
<1>6. queue' = Only(tried, K)
  BY DEF RetryOrGiveUp, tried, K
<1> QED
  BY <1>5, <1>6

LEMMA RemovalInit == Init => TypeOK
<1>1. <<>> \in Seq(Rows) /\ 0 \in 0..MaxRestarts
  BY RemovalAssumption
<1> QED
  BY <1>1 DEF Init, TypeOK

LEMMA RemovalNext ==
  ASSUME TypeOK, [Next]_vars
  PROVE  TypeOK'
<1>1. ASSUME NEW p \in People, Lapse(p) \/ GraceEnds(p) \/ Renew(p) \/ Join(p) \/ RequestRemoval(p)
      PROVE  TypeOK'
  BY <1>1 DEF TypeOK, Lapse, GraceEnds, Renew, Join, RequestRemoval, Subscribe, ToRemove, Adders,
              tickState, addState
<1>2. CASE Daily
  BY <1>2 DEF TypeOK, Daily, ToRemove, Adders, tickState
<1>3. ASSUME NEW a \in Adders, LookUp(a)
      PROVE  TypeOK'
  BY <1>3 DEF TypeOK, LookUp, tickState
<1>4. ASSUME NEW a \in Adders, Enqueue(a)
      PROVE  TypeOK'
  <2>1. unseen[a] \in People
    BY <1>4 DEF TypeOK, Enqueue
  <2>2. [who |-> unseen[a], requestedBy |-> a, attempts |-> 0] \in Rows
    BY <2>1, RemovalAssumption DEF Rows
  <2>3. queue' \in Seq(Rows)
    BY <1>4, <2>2 DEF TypeOK, Enqueue
  <2> QED
    BY <1>4, <2>3 DEF TypeOK, Enqueue, tickState
<1>5. CASE StartBatch
  <2>1. Smaller(BatchSize, Len(queue)) \in 0..Len(queue)
    BY RemovalAssumption DEF TypeOK, Smaller
  <2>2. batch' \in Seq(Rows)
    BY <1>5, <2>1 DEF TypeOK, StartBatch
  <2> QED
    BY <1>5, <2>2 DEF TypeOK, StartBatch, addState
<1>6. CASE CheckNext
  <2>1. Head(batch) \in Rows /\ Tail(batch) \in Seq(Rows)
    BY <1>6 DEF TypeOK, CheckNext
  <2>2. kept' \in Seq(Rows)
    <3>1. Append(kept, Head(batch)) \in Seq(Rows) /\ kept \in Seq(Rows)
      BY <2>1 DEF TypeOK
    <3> QED
      BY <1>6, <3>1 DEF CheckNext
  <2>3. queue' \in Seq(Rows)
    BY <1>6, ListsLose DEF TypeOK, CheckNext
  <2> QED
    BY <1>6, <2>1, <2>2, <2>3 DEF TypeOK, CheckNext, addState
<1>7. CASE RemoveBatch
  <2>1. queue' \in Seq(Rows)
    BY <1>7, ListsLose DEF RemoveBatch, RemoveKept
  <2> QED
    BY <1>7, <2>1 DEF TypeOK, RemoveBatch, RemoveKept, addState
<1>8. CASE RemoveFails
  <2>1. queue' \in Seq(Rows)
    BY <1>8, RetriedTyped DEF RemoveFails
  <2> QED
    BY <1>8, <2>1 DEF TypeOK, RemoveFails, addState
<1>9. CASE PauseEnds
  BY <1>9 DEF TypeOK, PauseEnds, addState
<1>10. CASE Restart
  <2>1. <<>> \in Seq(Rows)
    OBVIOUS
  <2>2. restarts + 1 \in 0..MaxRestarts
    BY <1>10, RemovalAssumption DEF TypeOK, Restart
  <2> QED
    BY <1>10, <2>1, <2>2 DEF TypeOK, Restart
<1>11. CASE UNCHANGED vars
  BY <1>11 DEF TypeOK, vars, tickState, addState
<1> QED
  BY <1>1, <1>2, <1>3, <1>4, <1>5, <1>6, <1>7, <1>8, <1>9, <1>10, <1>11 DEF Next

\* If no phone has two accounts, no batch removes who has renewed by the time it looks.
THEOREM RenewalsHold == Shared = {} => (Spec => RenewedStays)
<1> SUFFICES ASSUME Shared = {} PROVE Spec => RenewedStays
  OBVIOUS
<1>1. TypeOK /\ [Next]_vars
      => [\A r \in Range(kept') \ Range(kept) : subscription[r.who] # "active"]_vars
  <2> SUFFICES ASSUME TypeOK, Next, NEW r \in Range(kept') \ Range(kept)
               PROVE  subscription[r.who] # "active"
    OBVIOUS
  <2>1. kept' # kept /\ kept' # <<>>
    BY DEF Range
  <2>2. CheckNext /\ kept' = Append(kept, Head(batch))
    BY <2>1 DEF Next, Lapse, GraceEnds, Renew, Join, RequestRemoval, Subscribe, Daily, LookUp,
                Enqueue, StartBatch, CheckNext, RemoveBatch, RemoveFails, PauseEnds, Restart,
                tickState
  <2>3. r = Head(batch)
    BY <2>2 DEF TypeOK, Range
  <2>4. ~Settled(r.who)
    BY <2>1, <2>2, <2>3 DEF CheckNext, Recheck
  <2> QED
    BY <2>4 DEF Settled
<1> QED
  BY <1>1, RemovalInit, RemovalNext, PTL DEF Spec, RenewedStays

-----------------------------------------------------------------------------
(* Side by side *)

\* A step of the composite is of each part a step of its own, or none.
LEMMA PartsMove ==
  ASSUME [MCNext]_<<part, vars, saleVars, chatVars, sessionVars, radarVars, videoVars>>
  PROVE  /\ [Sale!Next]_(Sale!vars) /\ [Talk!Next]_(Talk!vars) /\ [Support!Next]_(Support!vars)
         /\ [Search!Next]_(Search!vars) /\ [Video!Next]_(Video!vars)
         /\ [Next]_vars
<1>1. [Sale!Next]_(Sale!vars)
  BY DEF MCNext, saleVars, Sale!vars
<1>2. [Talk!Next]_(Talk!vars)
  BY DEF MCNext, chatVars, Talk!vars, Talk!server, Talk!transport
<1>3. [Support!Next]_(Support!vars)
  BY DEF MCNext, sessionVars, Support!vars
<1>4. [Search!Next]_(Search!vars)
  BY DEF MCNext, radarVars, Search!vars, Search!jobs, Search!queued, Search!transport, Search!daily
<1>5. [Video!Next]_(Video!vars)
  BY DEF MCNext, videoVars, Video!vars, Video!store, Video!bounds
<1>6. [Next]_vars
  BY DEF MCNext, vars
<1> QED
  BY <1>1, <1>2, <1>3, <1>4, <1>5, <1>6

LEMMA PartsAreTyped ==
  ASSUME TypeOK, SaleInv, TalkInv, SupportInv, RadarInv, VideoInv
  PROVE  MCTypeOK
<1>1. Sale!TypeOK /\ Talk!TypeOK
  BY DEF SaleInv, SaleTypes, TalkInv, TalkTypes
<1>2. Support!TypeOK /\ Search!TypeOK
  BY DEF SupportInv, SupportTypes, RadarInv, RadarTypes
<1>3. Video!TypeOK
  BY DEF VideoInv, VideoTypes, Picked, Format, Video!TypeOK
<1> QED
  BY <1>1, <1>2, <1>3 DEF MCTypeOK

\* In the composite that TLC checks all of this holds, for every value of its constants:
\* if nobody acts on a search or a video that is worked on, and no enrolment is served
\* during another grant.
THEOREM MemberAreaHolds ==
  ASSUME ~Overlapping, ~Hasty
  PROVE  MCSpec => [](/\ BuyerHasCourse /\ SentStaysVisible /\ AlertedOnce
                      /\ ShownIsWhole /\ ServedIsWhole
                      /\ MCTypeOK)
<1>1. MCInit => Init /\ Sale!Init /\ Talk!Init /\ Support!Init /\ Search!Init /\ Video!Init
  BY DEF MCInit
<1>2. MCInit => TypeOK /\ SaleInv /\ TalkInv /\ SupportInv /\ RadarInv /\ VideoInv
  BY <1>1, RemovalInit, CourseInvInit, TalkInit, SupportInit, RadarInit, VideoInit
<1>3. /\ TypeOK /\ SaleInv /\ TalkInv /\ SupportInv /\ RadarInv /\ VideoInv
      /\ [MCNext]_<<part, vars, saleVars, chatVars, sessionVars, radarVars, videoVars>>
      => (TypeOK /\ SaleInv /\ TalkInv /\ SupportInv /\ RadarInv /\ VideoInv)'
  BY PartsMove, RemovalNext, CourseInvNext, TalkStep, SupportNext, RadarStep, VideoNext
<1>4. TypeOK /\ SaleInv /\ TalkInv /\ SupportInv /\ RadarInv /\ VideoInv
      => BuyerHasCourse /\ SentStaysVisible /\ AlertedOnce /\ ShownIsWhole /\ ServedIsWhole
         /\ MCTypeOK
  BY OpenersAreFew, RadarShowsAll, PartsAreTyped DEF SaleInv, TalkInv, VideoInv, SentStaysVisible
<1> QED
  BY <1>2, <1>3, <1>4, PTL DEF MCSpec
=============================================================================
