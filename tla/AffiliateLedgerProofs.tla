------------------------ MODULE AffiliateLedgerProofs ------------------------
(***************************************************************************)
(* Proofs about AffiliateLedger for every set of affiliates, orders,       *)
(* deliveries, requests and reviewers and all amounts.                     *)
(***************************************************************************)
EXTENDS AffiliateLedger, FiniteSetTheorems, WellFoundedInduction, TLAPS

(* Sums of a function over a finite set, as in PartnerLedgerProofs: that such a *)
(* sum is well defined is proved by least counterexamples.                     *)

\* What MapThenSumSet computes, for a function.
SumOver(f, S) == MapThenSumSet(LAMBDA x : f[x], S)

Some(s) == CHOOSE x \in s : TRUE
SumsTo(f, S, g) ==
    g = [s \in SUBSET S |-> IF s = {} THEN 0 ELSE f[Some(s)] + g[s \ {Some(s)}]]

\* A set of naturals that is not empty has a least element.
LEMMA LeastOf ==
  ASSUME NEW T, T \subseteq Nat, T # {}
  PROVE  \E n \in T : \A m \in T : n <= m
<1> DEFINE R == OpToRel(<, Nat)
<1>1. IsWellFoundedOn(R, Nat)
  BY NatLessThanWellFounded
<1>2. PICK n \in T : \A m \in T : ~(<<m, n>> \in R)
  BY <1>1, WFMin
<1>3. ASSUME NEW m \in T PROVE n <= m
  <2>1. ~(m < n)
    BY <1>2, <1>3 DEF OpToRel
  <2> QED
    BY <2>1
<1> QED
  BY <1>3

Weighed(f, S) == IsFiniteSet(S) /\ \A x \in S : f[x] \in Nat
Solution(f, S, g) == g \in [SUBSET S -> Nat] /\ SumsTo(f, S, g)
OrderFree(f, S, g) == \A s \in SUBSET S : \A x \in s : g[s] = f[x] + g[s \ {x}]

Upto(S, n) == {s \in SUBSET S : Cardinality(s) <= n}

\* The recursion has a solution on the subsets of at most n elements.
Solves(f, S, n, g) ==
    /\ g \in [Upto(S, n) -> Nat]
    /\ \A s \in Upto(S, n) : g[s] = IF s = {} THEN 0 ELSE f[Some(s)] + g[s \ {Some(s)}]

LEMMA SubsetCards ==
  ASSUME NEW S, IsFiniteSet(S), NEW s \in SUBSET S
  PROVE  /\ IsFiniteSet(s) /\ Cardinality(s) \in Nat /\ Cardinality(s) <= Cardinality(S)
         /\ Cardinality(s) = 0 <=> s = {}
         /\ s # {} => Some(s) \in s
         /\ \A x \in s : Cardinality(s \ {x}) = Cardinality(s) - 1
<1>1. IsFiniteSet(s) /\ Cardinality(s) <= Cardinality(S)
  BY FS_Subset
<1>2. Cardinality(s) \in Nat /\ Cardinality(S) \in Nat
  BY <1>1, FS_CardinalityType
<1>3. Cardinality(s) = 0 <=> s = {}
  BY <1>1, FS_EmptySet
<1>4. \A x \in s : Cardinality(s \ {x}) = Cardinality(s) - 1
  BY <1>1, FS_RemoveElement
<1> QED
  BY <1>1, <1>2, <1>3, <1>4 DEF Some

LEMMA SolutionsExist ==
  ASSUME NEW S, IsFiniteSet(S), NEW f, \A x \in S : f[x] \in Nat, NEW k \in Nat
  PROVE  \E g : Solves(f, S, k, g)
<1> DEFINE T == {n \in Nat : ~\E g : Solves(f, S, n, g)}
<1>1. SUFFICES ASSUME T # {} PROVE FALSE
  OBVIOUS
<1>2. PICK n \in T : \A m \in T : n <= m
  BY <1>1, LeastOf
<1>3. CASE n = 0
  <2>1. Upto(S, 0) = {{}}
    BY SubsetCards DEF Upto
  <2>2. Solves(f, S, 0, [s \in Upto(S, 0) |-> 0])
    BY <2>1 DEF Solves
  <2> QED
    BY <1>3, <2>2
<1>4. CASE n # 0
  <2>1. n - 1 \in Nat /\ ~(n <= n - 1)
    BY <1>4
  <2>2. PICK g : Solves(f, S, n - 1, g)
    BY <1>2, <2>1
  <2> DEFINE h == [s \in Upto(S, n) |-> IF s = {} THEN 0 ELSE f[Some(s)] + g[s \ {Some(s)}]]
  <2>3. ASSUME NEW s \in Upto(S, n), s # {}
        PROVE  Some(s) \in S /\ s \ {Some(s)} \in Upto(S, n - 1) /\ s \ {Some(s)} \in Upto(S, n)
    BY <2>3, SubsetCards DEF Upto
  <2>4. h \in [Upto(S, n) -> Nat]
    <3>1. ASSUME NEW s \in Upto(S, n), s # {} PROVE f[Some(s)] + g[s \ {Some(s)}] \in Nat
      BY <2>2, <2>3, <3>1 DEF Solves
    <3> QED
      BY <3>1
  <2>5. ASSUME NEW s \in Upto(S, n - 1) PROVE s \in Upto(S, n) /\ h[s] = g[s]
    <3>1. s \in Upto(S, n)
      BY SubsetCards DEF Upto
    <3>2. g[s] = IF s = {} THEN 0 ELSE f[Some(s)] + g[s \ {Some(s)}]
      BY <2>2 DEF Solves
    <3> QED
      BY <3>1, <3>2
  <2>6. ASSUME NEW s \in Upto(S, n)
        PROVE  h[s] = IF s = {} THEN 0 ELSE f[Some(s)] + h[s \ {Some(s)}]
    BY <2>3, <2>5
  <2> HIDE DEF h
  <2>7. Solves(f, S, n, h)
    BY <2>4, <2>6 DEF Solves
  <2> QED
    BY <2>7
<1> QED
  BY <1>3, <1>4

\* The recursion has a solution, and the sum is its value.
LEMMA SumSolved ==
  ASSUME NEW S, IsFiniteSet(S), NEW f, \A x \in S : f[x] \in Nat
  PROVE  \E g \in [SUBSET S -> Nat] : SumsTo(f, S, g) /\ SumOver(f, S) = g[S]
<1> DEFINE n == Cardinality(S)
<1>1. n \in Nat /\ Upto(S, n) = SUBSET S
  BY FS_CardinalityType, SubsetCards DEF Upto
<1>2. PICK g : Solves(f, S, n, g)
  BY <1>1, SolutionsExist
<1>3. SumsTo(f, S, g)
  BY <1>1, <1>2 DEF Solves, SumsTo
<1> DEFINE h == CHOOSE h : SumsTo(f, S, h)
<1>4. SumsTo(f, S, h)
  BY <1>3
<1>5. SumOver(f, S) = h[S]
  BY DEF SumOver, MapThenSumSet, MapThenFoldSet, SumsTo, Some
<1> HIDE DEF h
<1>6. ASSUME NEW s \in SUBSET S PROVE h[s] \in Nat
  <2> DEFINE T == {m \in Nat : \E t \in SUBSET S : Cardinality(t) = m /\ h[t] \notin Nat}
  <2>1. SUFFICES ASSUME T # {} PROVE FALSE
    BY SubsetCards
  <2>2. PICK m \in T : \A k \in T : m <= k
    BY <2>1, LeastOf
  <2>3. PICK t \in SUBSET S : Cardinality(t) = m /\ h[t] \notin Nat
    BY <2>2
  <2>4. h[t] = IF t = {} THEN 0 ELSE f[Some(t)] + h[t \ {Some(t)}]
    BY <1>4 DEF SumsTo
  <2>5. t # {}
    BY <2>3, <2>4
  <2>6. Some(t) \in S /\ t \ {Some(t)} \in SUBSET S /\ Cardinality(t \ {Some(t)}) = m - 1 /\ m - 1 \in Nat
    BY <2>3, <2>5, SubsetCards
  <2>7. h[t \ {Some(t)}] \in Nat
    BY <2>2, <2>6
  <2> QED
    BY <2>3, <2>4, <2>5, <2>6, <2>7
<1>7. h \in [SUBSET S -> Nat]
  BY <1>4, <1>6 DEF SumsTo
<1> QED
  BY <1>4, <1>5, <1>7

\* Which element is taken first makes no difference.
LEMMA AnyFirst ==
  ASSUME NEW S, NEW f, NEW g, Weighed(f, S), Solution(f, S, g)
  PROVE  OrderFree(f, S, g)
<1>1. SUFFICES ASSUME IsFiniteSet(S), \A x \in S : f[x] \in Nat,
                    g \in [SUBSET S -> Nat], SumsTo(f, S, g)
             PROVE  \A s \in SUBSET S : \A x \in s : g[s] = f[x] + g[s \ {x}]
  BY DEF Weighed, Solution, OrderFree
<1> DEFINE T == {n \in Nat : \E s \in SUBSET S : /\ Cardinality(s) = n
                                                  /\ \E x \in s : g[s] # f[x] + g[s \ {x}]}
<1>2. SUFFICES ASSUME T # {} PROVE FALSE
  BY <1>1, SubsetCards
<1>3. PICK n \in T : \A m \in T : n <= m
  BY <1>2, LeastOf
<1>4. PICK s \in SUBSET S : Cardinality(s) = n /\ \E x \in s : g[s] # f[x] + g[s \ {x}]
  BY <1>3
<1>5. PICK x \in s : g[s] # f[x] + g[s \ {x}]
  BY <1>4
<1> DEFINE c == Some(s)
           rest == s \ {c, x}
<1>6. c \in s /\ c \in S /\ x \in S
  BY <1>1, <1>5, SubsetCards
<1> HIDE DEF c
<1>7. g[s] = f[c] + g[s \ {c}]
  BY <1>6, <1>1 DEF SumsTo, c
<1>8. c # x
  BY <1>5, <1>7
<1>9. /\ s \ {c} \in SUBSET S /\ s \ {x} \in SUBSET S /\ rest \in SUBSET S
      /\ Cardinality(s \ {c}) = n - 1 /\ Cardinality(s \ {x}) = n - 1 /\ n - 1 \in Nat
      /\ x \in s \ {c} /\ c \in s \ {x}
      /\ (s \ {c}) \ {x} = rest /\ (s \ {x}) \ {c} = rest
  BY <1>4, <1>6, <1>8, <1>1, SubsetCards
<1>10. n - 1 \notin T
  BY <1>3, <1>9
<1>11. \A t \in SUBSET S : Cardinality(t) = n - 1 => \A y \in t : g[t] = f[y] + g[t \ {y}]
  BY <1>9, <1>10
<1> HIDE DEF T, rest
<1>12. g[s \ {c}] = f[x] + g[rest]
  <2>1. g[s \ {c}] = f[x] + g[(s \ {c}) \ {x}]
    BY <1>9, <1>11
  <2> QED
    BY <1>9, <2>1
<1>13. g[s \ {x}] = f[c] + g[rest]
  <2>1. g[s \ {x}] = f[c] + g[(s \ {x}) \ {c}]
    BY <1>9, <1>11
  <2> QED
    BY <1>9, <2>1
<1>14. f[c] \in Nat /\ f[x] \in Nat /\ g[rest] \in Nat
  BY <1>6, <1>9, <1>1
<1> QED
  BY <1>5, <1>7, <1>12, <1>13, <1>14

\* A sum over a part is the same, whichever set the recursion started from.
LEMMA PartsAgree ==
  ASSUME NEW S, NEW R, NEW f, NEW g, NEW h, IsFiniteSet(S), R \subseteq S,
         Solution(f, S, g), Solution(f, R, h)
  PROVE  \A s \in SUBSET R : g[s] = h[s]
<1>1. /\ g \in [SUBSET S -> Nat] /\ SumsTo(f, S, g)
      /\ h \in [SUBSET R -> Nat] /\ SumsTo(f, R, h)
  BY DEF Solution
<1> DEFINE T == {n \in Nat : \E s \in SUBSET R : Cardinality(s) = n /\ g[s] # h[s]}
<1>2. IsFiniteSet(R)
  BY FS_Subset
<1>3. SUFFICES ASSUME T # {} PROVE FALSE
  BY <1>2, SubsetCards
<1>4. PICK n \in T : \A m \in T : n <= m
  BY <1>3, LeastOf
<1>5. PICK s \in SUBSET R : Cardinality(s) = n /\ g[s] # h[s]
  BY <1>4
<1>6. /\ g[s] = IF s = {} THEN 0 ELSE f[Some(s)] + g[s \ {Some(s)}]
      /\ h[s] = IF s = {} THEN 0 ELSE f[Some(s)] + h[s \ {Some(s)}]
  BY <1>1 DEF SumsTo
<1>7. s # {}
  BY <1>5, <1>6
<1>8. s \ {Some(s)} \in SUBSET R /\ Cardinality(s \ {Some(s)}) = n - 1 /\ n - 1 \in Nat
  BY <1>2, <1>5, <1>7, SubsetCards
<1>9. g[s \ {Some(s)}] = h[s \ {Some(s)}]
  BY <1>4, <1>8
<1> QED
  BY <1>5, <1>6, <1>7, <1>9

LEMMA SumTyped ==
  ASSUME NEW S, IsFiniteSet(S), NEW f, \A x \in S : f[x] \in Nat
  PROVE  SumOver(f, S) \in Nat
<1>1. PICK g \in [SUBSET S -> Nat] : SumsTo(f, S, g) /\ SumOver(f, S) = g[S]
  BY SumSolved
<1> QED
  BY <1>1

LEMMA SumOfNone ==
  ASSUME NEW f
  PROVE  SumOver(f, {}) = 0
<1>1. IsFiniteSet({})
  BY FS_EmptySet
<1>2. PICK g \in [SUBSET {} -> Nat] : SumsTo(f, {}, g) /\ SumOver(f, {}) = g[{}]
  BY <1>1, SumSolved
<1> QED
  BY <1>2 DEF SumsTo

LEMMA SumTakes ==
  ASSUME NEW S, IsFiniteSet(S), NEW f, \A x \in S : f[x] \in Nat, NEW x \in S
  PROVE  SumOver(f, S) = f[x] + SumOver(f, S \ {x})
<1> DEFINE R == S \ {x}
<1>1. IsFiniteSet(R) /\ R \subseteq S /\ (\A y \in R : f[y] \in Nat)
  BY FS_Subset
<1>2. PICK g : Solution(f, S, g) /\ SumOver(f, S) = g[S]
  BY SumSolved DEF Solution
<1> HIDE DEF R
<1>3. PICK h : Solution(f, R, h) /\ SumOver(f, R) = h[R]
  BY <1>1, SumSolved DEF Solution
<1>4. OrderFree(f, S, g)
  <2>1. Weighed(f, S)
    BY DEF Weighed
  <2> QED
    BY <1>2, <2>1, AnyFirst
<1>5. g[S] = f[x] + g[R]
  BY <1>4 DEF OrderFree, R
<1>6. g[R] = h[R]
  BY <1>1, <1>2, <1>3, PartsAgree
<1> QED
  BY <1>2, <1>3, <1>5, <1>6 DEF R

\* The sum over two sets that share nothing.
LEMMA SumOfBoth ==
  ASSUME NEW S, IsFiniteSet(S), NEW f, \A x \in S : f[x] \in Nat,
         NEW A \in SUBSET S, NEW B \in SUBSET S, A \cap B = {}
  PROVE  SumOver(f, A \cup B) = SumOver(f, A) + SumOver(f, B)
<1> DEFINE T == {n \in Nat : \E C \in SUBSET B : /\ Cardinality(C) = n
                               /\ SumOver(f, A \cup C) # SumOver(f, A) + SumOver(f, C)}
<1>1. IsFiniteSet(B)
  BY FS_Subset
<1>2. SUFFICES ASSUME T # {} PROVE FALSE
  BY <1>1, SubsetCards
<1>3. PICK n \in T : \A m \in T : n <= m
  BY <1>2, LeastOf
<1>4. PICK C \in SUBSET B : /\ Cardinality(C) = n
                            /\ SumOver(f, A \cup C) # SumOver(f, A) + SumOver(f, C)
  BY <1>3
<1>5. \A D \in SUBSET S : IsFiniteSet(D) /\ SumOver(f, D) \in Nat
  BY FS_Subset, SumTyped
<1>6. CASE C = {}
  <2>1. A \cup C = A
    BY <1>6
  <2>2. SumOver(f, C) = 0 /\ SumOver(f, A) \in Nat
    BY <1>5, <1>6, SumOfNone
  <2> QED
    BY <1>4, <2>1, <2>2
<1>7. CASE C # {}
  <2>1. PICK x \in C : TRUE
    BY <1>7
  <2> DEFINE D == C \ {x}
  <2>2. D \in SUBSET B /\ Cardinality(D) = n - 1 /\ n - 1 \in Nat
    BY <1>1, <1>4, <1>7, SubsetCards
  <2>3. SumOver(f, A \cup D) = SumOver(f, A) + SumOver(f, D)
    <3>1. n \in Nat /\ ~(n <= n - 1)
      BY <1>3
    <3>3. n - 1 \notin T
      <4> HIDE DEF T, D
      <4> QED
        BY <1>3, <3>1
    <3>2. \A E \in SUBSET B : Cardinality(E) = n - 1 =>
              SumOver(f, A \cup E) = SumOver(f, A) + SumOver(f, E)
      BY <2>2, <3>3
    <3> HIDE DEF D, T
    <3> QED
      BY <2>2, <3>2
  <2>4. SumOver(f, C) = f[x] + SumOver(f, D)
    <3>1. IsFiniteSet(C) /\ \A y \in C : f[y] \in Nat
      BY <1>5
    <3> QED
      BY <3>1, SumTakes
  <2>5. SumOver(f, A \cup C) = f[x] + SumOver(f, A \cup D)
    <3>1. IsFiniteSet(A \cup C) /\ (\A y \in A \cup C : f[y] \in Nat) /\ (A \cup C) \ {x} = A \cup D
      BY <1>5, <2>1
    <3> QED
      BY <3>1, SumTakes
  <2>6. f[x] \in Nat /\ SumOver(f, A) \in Nat /\ SumOver(f, D) \in Nat
    BY <1>5, <2>2
  <2> QED
    BY <1>4, <2>3, <2>4, <2>5, <2>6
<1> QED
  BY <1>6, <1>7

\* C is a part of S made of A and B, that share nothing.
MadeOf(C, A, B, S) == C \subseteq S /\ C = A \cup B /\ A \cap B = {}

LEMMA SumOfParts ==
  ASSUME NEW S, NEW f, NEW A, NEW B, NEW C, Weighed(f, S), MadeOf(C, A, B, S)
  PROVE  SumOver(f, C) = SumOver(f, A) + SumOver(f, B)
<1>1. A \in SUBSET S /\ B \in SUBSET S /\ A \cap B = {} /\ C = A \cup B
  BY DEF MadeOf
<1>2. IsFiniteSet(S) /\ \A x \in S : f[x] \in Nat
  BY DEF Weighed
<1> QED
  BY <1>1, <1>2, SumOfBoth

\* A larger set has no smaller sum.
LEMMA SumGrows ==
  ASSUME NEW S, IsFiniteSet(S), NEW f, \A x \in S : f[x] \in Nat, NEW A \in SUBSET S
  PROVE  SumOver(f, A) <= SumOver(f, S)
<1>1. SumOver(f, A \cup (S \ A)) = SumOver(f, A) + SumOver(f, S \ A)
  BY SumOfBoth
<1>2. A \cup (S \ A) = S
  OBVIOUS
<1>3. \A D \in SUBSET S : SumOver(f, D) \in Nat
  BY FS_Subset, SumTyped
<1> QED
  BY <1>1, <1>2, <1>3

-----------------------------------------------------------------------------

\* A request answers "ok" exactly when its withdrawal row exists, and a review
\* is only ever about a row that exists.
RowExistsWhenAnswered ==
    /\ \A w \in Requests : withdrawal[w] # "none" <=> request[w] = "ok"
    /\ \A r \in Admins : review[r].do # "idle" =>
          review[r].w \in Requests /\ withdrawal[review[r].w] # "none"

\* A request about to commit has read enough, all of it of its own affiliate.
ReadsFund ==
    \A w \in Requests :
        /\ \A c \in poolRead[w] : ReferredBy[c[1]] = RequestedBy[w]
        /\ request[w] = "commit" => Funds(poolRead[w], w)

\* The inductive invariant of the payouts.
PayoutInv ==
    /\ TypeOK
    /\ RowExistsWhenAnswered
    /\ ReadsFund
    /\ WithdrawnBacksStandingPayout
    /\ PendingIsFunded

USE AffiliateAssumption

LEMMA InitPayouts == Init => PayoutInv
<1> SUFFICES ASSUME Init PROVE PayoutInv
  OBVIOUS
<1>1. TypeOK
  BY DEF Init, TypeOK, NotHandling, Handling, NoReview, Orders, Rows, RowStatus,
         WithdrawalStatus, ReferralStatus, CreditPoint, RequestPoint, Decision
<1>2. RowExistsWhenAnswered /\ ReadsFund
  BY DEF Init, RowExistsWhenAnswered, ReadsFund, NoReview
<1>3. WithdrawnBacksStandingPayout /\ PendingIsFunded
  BY DEF Init, WithdrawnBacksStandingPayout, PendingIsFunded
<1> QED BY <1>1, <1>2, <1>3 DEF PayoutInv

\* What a step must keep when it writes no row that a payout holds.
LEMMA PayoutFrame ==
  ASSUME PayoutInv, TypeOK',
         UNCHANGED <<backs, withdrawal, requestVars, review>>,
         \A c \in Rows : commission'[c] = "withdrawn" <=> commission[c] = "withdrawn"
  PROVE  PayoutInv'
<1> USE DEF PayoutInv
<1>1. RowExistsWhenAnswered' /\ ReadsFund'
  BY DEF requestVars, RowExistsWhenAnswered, ReadsFund
<1>2. WithdrawnBacksStandingPayout' /\ PendingIsFunded'
  BY DEF WithdrawnBacksStandingPayout, PendingIsFunded, Backing
<1> QED BY <1>1, <1>2

HandlingOK ==
    /\ handling \in [Deliveries -> [at : CreditPoint, order : 0..LastOrder]]
    /\ \A d \in Deliveries : handling[d].at # "idle" => handling[d].order \in Orders

\* A handling goes on with its order or ends.
LEMMA GoOnTypes ==
  ASSUME TypeOK, NEW d \in Deliveries, handling[d].order \in Orders,
         NEW point \in CreditPoint, GoOn(d, point)
  PROVE  HandlingOK'
<1>1. CASE point = "idle"
  BY <1>1 DEF TypeOK, HandlingOK, GoOn, NotHandling, Handling, CreditPoint
<1>2. CASE point # "idle"
  BY <1>2 DEF TypeOK, HandlingOK, GoOn, Handling, Orders
<1> QED BY <1>1, <1>2

\* A handling of an approval keeps to the rows, and adds at most one.
LEMMA CreditTypes ==
  ASSUME TypeOK, NEW d \in Deliveries, CreditStep(d)
  PROVE  /\ TypeOK'
         /\ UNCHANGED <<account, due, backs, withdrawal, requestVars, review>>
         /\ \A c \in Rows : commission'[c] = "withdrawn" <=> commission[c] = "withdrawn"
<1>1. CASE \E o \in Orders, recovered \in BOOLEAN : StartCredit(d, o, recovered)
  <2> PICK o \in Orders, recovered \in BOOLEAN : StartCredit(d, o, recovered)
    BY <1>1
  <2>1. UNCHANGED <<account, due, rowVars, withdrawal, requestVars, review>>
    BY DEF StartCredit
  <2>2. CASE recovered
    <3>1. UNCHANGED handling /\ referral' \in [Orders -> ReferralStatus]
      BY <2>2 DEF TypeOK, StartCredit, ReferralStatus
    <3> QED BY <2>1, <3>1 DEF TypeOK, rowVars, requestVars
  <2>3. CASE ~recovered
    <3>1. UNCHANGED referral /\ handling' = [handling EXCEPT ![d] = Handling("findAccount", o)]
      BY <2>3 DEF StartCredit
    <3>2. HandlingOK'
      BY <3>1 DEF TypeOK, HandlingOK, Handling, CreditPoint, Orders
    <3> QED BY <2>1, <3>1, <3>2 DEF TypeOK, HandlingOK, rowVars, requestVars
  <2> QED BY <2>2, <2>3
<1>2. CASE FindAccount(d) \/ FindExisting(d) \/ AttachReferral(d) \/ AbandonCredit(d)
  <2>1. handling[d].order \in Orders
    BY <1>2 DEF TypeOK, FindAccount, FindExisting, AttachReferral, AbandonCredit, NotHandling,
                Handling, CreditPoint, Orders
  <2>2. \E point \in CreditPoint : GoOn(d, point)
    BY <1>2 DEF FindAccount, FindExisting, AttachReferral, AbandonCredit, CreditPoint
  <2>3. HandlingOK'
    BY <2>1, <2>2, GoOnTypes
  <2>4. UNCHANGED <<account, due, rowVars, withdrawal, requestVars, review>>
    BY <1>2 DEF FindAccount, FindExisting, AttachReferral, AbandonCredit
  <2>5. referral' \in [Orders -> ReferralStatus]
    BY <1>2, <2>1 DEF TypeOK, FindAccount, FindExisting, AttachReferral, AbandonCredit,
                      ReferralStatus
  <2> QED BY <2>3, <2>4, <2>5 DEF TypeOK, HandlingOK, rowVars, requestVars
<1>3. CASE CreateCommission(d)
  <2> DEFINE c == <<handling[d].order, d>>
  <2>1. c \in Rows
    BY <1>3 DEF TypeOK, CreateCommission, Rows, Orders
  <2>2. commission[c] = "absent" /\ commission' = [commission EXCEPT ![c] = "pending"]
    BY <1>3 DEF CreateCommission
  <2>3. /\ handling' = [handling EXCEPT ![d] = NotHandling]
        /\ UNCHANGED <<account, due, referral, backs, withdrawal, requestVars, review>>
    BY <1>3 DEF CreateCommission, GoOn
  <2>4. handling' \in [Deliveries -> [at : CreditPoint, order : 0..LastOrder]]
    BY <2>3 DEF TypeOK, NotHandling, Handling, CreditPoint
  <2>5. \A e \in Deliveries : handling'[e].at # "idle" => handling'[e].order \in Orders
    BY <2>3 DEF TypeOK, NotHandling, Handling
  <2> HIDE DEF c
  <2>6. commission' \in [Rows -> RowStatus]
    BY <2>1, <2>2 DEF TypeOK, RowStatus
  <2>7. \A b \in Rows : commission'[b] = "withdrawn" <=> commission[b] = "withdrawn"
    BY <2>1, <2>2 DEF TypeOK
  <2> QED BY <2>3, <2>4, <2>5, <2>6, <2>7 DEF TypeOK, requestVars
<1> QED BY <1>1, <1>2, <1>3 DEF CreditStep

\* The accounts, the clock, maturity and refunds leave payouts alone.
LEMMA AccountsAndRowsPreserve ==
  ASSUME PayoutInv,
         \/ \E a \in Affiliates : Enroll(a) \/ SetEnabled(a)
         \/ Tick \/ TransitionDuePending
         \/ \E o \in Orders : RefundCommission(o)
  PROVE  PayoutInv'
<1> USE DEF PayoutInv
<1>1. TypeOK'
  BY DEF TypeOK, Enroll, SetEnabled, Tick, TransitionDuePending, RefundCommission, IsDue,
         creditVars, rowVars, requestVars, RowStatus
<1>2. UNCHANGED <<backs, withdrawal, requestVars, review>>
  BY DEF Enroll, SetEnabled, Tick, TransitionDuePending, RefundCommission, rowVars
<1>3. \A c \in Rows : commission'[c] = "withdrawn" <=> commission[c] = "withdrawn"
  BY DEF TypeOK, Enroll, SetEnabled, Tick, TransitionDuePending, RefundCommission, IsDue, rowVars
<1> QED BY <1>1, <1>2, <1>3, PayoutFrame

\* The read of a request, a refusal and a conflict write no row.
LEMMA ReadsPreserve ==
  ASSUME PayoutInv, NEW w \in Requests,
         ReadPool(w) \/ \E S \in SUBSET poolRead[w] : Conflict(w, S)
  PROVE  PayoutInv'
<1> USE DEF PayoutInv
<1> DEFINE pool == AvailableOf(RequestedBy[w])
<1>0. /\ UNCHANGED <<creditVars, rowVars, withdrawal, review>>
      /\ \/ /\ request' = [request EXCEPT ![w] = "commit"]
            /\ poolRead' = [poolRead EXCEPT ![w] = pool]
            /\ Funds(pool, w)
         \/ \E answer \in {"refused", "conflict"} : Return(w, answer)
      /\ request[w] # "ok"
  BY DEF ReadPool, Conflict
<1>1. TypeOK'
  <2>1. pool \in SUBSET Rows
    BY DEF AvailableOf
  <2> HIDE DEF pool
  <2> QED BY <1>0, <2>1 DEF TypeOK, Return, creditVars, rowVars, RequestPoint
<1>2. RowExistsWhenAnswered'
  BY <1>0 DEF TypeOK, Return, RowExistsWhenAnswered, RequestPoint
<1>3. ReadsFund'
  <2>1. \A c \in pool : ReferredBy[c[1]] = RequestedBy[w]
    BY DEF AvailableOf
  <2> HIDE DEF pool
  <2>2. \A v \in Requests \ {w} : request'[v] = request[v] /\ poolRead'[v] = poolRead[v]
    BY <1>0 DEF TypeOK, Return
  <2>3. \/ request'[w] = "commit" /\ poolRead'[w] = pool /\ Funds(pool, w)
        \/ request'[w] # "commit" /\ poolRead'[w] = {}
    BY <1>0 DEF TypeOK, Return
  <2> QED BY <2>1, <2>2, <2>3 DEF ReadsFund, Funds
<1>4. WithdrawnBacksStandingPayout' /\ PendingIsFunded'
  BY DEF ReadPool, Conflict, rowVars, WithdrawnBacksStandingPayout, PendingIsFunded, Backing
<1> QED BY <1>1, <1>2, <1>3, <1>4

\* A commit takes rows nobody holds, so that the new payout is funded and no
\* other one loses anything.
LEMMA CommitPreserves ==
  ASSUME PayoutInv, NEW w \in Requests, NEW S \in SUBSET poolRead[w], Commit(w, S)
  PROVE  PayoutInv'
<1> USE DEF PayoutInv
<1>1. S \subseteq Rows /\ withdrawal[w] = "none" /\ request[w] = "commit"
  BY DEF TypeOK, Commit, RowExistsWhenAnswered
<1>2. \A c \in S : commission[c] = "available"
  BY DEF Commit, Unchanged
<1>3. /\ commission' = [c \in Rows |-> IF c \in S THEN "withdrawn" ELSE commission[c]]
      /\ backs' = [c \in Rows |-> IF c \in S THEN w ELSE backs[c]]
  BY <1>2 DEF Commit
<1>4. TypeOK'
  BY <1>1, <1>3 DEF TypeOK, Commit, Return, creditVars, RowStatus, WithdrawalStatus, RequestPoint
<1>5. RowExistsWhenAnswered'
  BY DEF TypeOK, Commit, Return, RowExistsWhenAnswered
<1>6. ReadsFund'
  BY DEF TypeOK, Commit, Return, ReadsFund
<1>7. WithdrawnBacksStandingPayout'
  BY <1>1, <1>2, <1>3 DEF TypeOK, Commit, ReadsFund, WithdrawnBacksStandingPayout
<1>8. ASSUME NEW v \in Requests, withdrawal'[v] = "pending"
      PROVE  Funds(Backing(v)', v)
  <2>1. CASE v = w
    <3>1. Backing(w)' = S
      BY <1>1, <1>3 DEF Backing, WithdrawnBacksStandingPayout
    <3>2. Funds(S, w)
      BY <1>1 DEF Commit, Consumed, ReadsFund
    <3> QED BY <2>1, <3>1, <3>2
  <2>2. CASE v # w
    <3>1. Backing(v)' = Backing(v)
      BY <1>1, <1>2, <1>3, <2>2 DEF TypeOK, Backing, WithdrawnBacksStandingPayout
    <3>2. withdrawal[v] = "pending"
      BY <1>8, <2>2 DEF TypeOK, Commit
    <3> QED BY <3>1, <3>2 DEF PendingIsFunded
  <2> QED BY <2>1, <2>2
<1>9. PendingIsFunded'
  BY <1>8 DEF PendingIsFunded, Funds
<1> QED BY <1>4, <1>5, <1>6, <1>7, <1>9

\* A review starts on a payout that exists, and a payment leaves the rows with
\* theirs.
LEMMA ReviewAndPayPreserve ==
  ASSUME PayoutInv, NEW r \in Admins,
         MarkPaid(r) \/ \E w \in Requests, decision \in Decision : Review(r, w, decision)
  PROVE  PayoutInv'
<1> USE DEF PayoutInv
<1>1. CASE MarkPaid(r)
  <2>1. review[r].w \in Requests /\ withdrawal[review[r].w] # "none"
    BY <1>1 DEF MarkPaid, RowExistsWhenAnswered
  <2>2. TypeOK'
    BY <1>1, <2>1 DEF TypeOK, MarkPaid, NoReview, creditVars, rowVars, requestVars,
                      WithdrawalStatus
  <2>3. RowExistsWhenAnswered' /\ ReadsFund'
    BY <1>1, <2>1 DEF TypeOK, MarkPaid, NoReview, requestVars, RowExistsWhenAnswered, ReadsFund
  <2>4. WithdrawnBacksStandingPayout' /\ PendingIsFunded'
    BY <1>1, <2>1 DEF TypeOK, MarkPaid, rowVars, WithdrawnBacksStandingPayout, PendingIsFunded,
                      Backing
  <2> QED BY <2>2, <2>3, <2>4
<1>2. ASSUME NEW w \in Requests, NEW decision \in Decision, Review(r, w, decision)
      PROVE  PayoutInv'
  <2>1. TypeOK'
    BY <1>2 DEF TypeOK, Review, creditVars, rowVars, requestVars
  <2>2. RowExistsWhenAnswered' /\ ReadsFund'
    BY <1>2 DEF TypeOK, Review, requestVars, RowExistsWhenAnswered, ReadsFund
  <2>3. WithdrawnBacksStandingPayout' /\ PendingIsFunded'
    BY <1>2 DEF Review, rowVars, WithdrawnBacksStandingPayout, PendingIsFunded, Backing
  <2> QED BY <2>1, <2>2, <2>3
<1> QED BY <1>1, <1>2

\* A rejection gives back its rows, and takes none from another payout.
LEMMA RejectPreserves ==
  ASSUME PayoutInv, NEW r \in Admins, RejectWithdrawal(r)
  PROVE  PayoutInv'
<1> USE DEF PayoutInv
<1> DEFINE w == review[r].w
<1>1. w \in Requests /\ withdrawal[w] # "none"
  BY DEF RejectWithdrawal, RowExistsWhenAnswered
<1>2. TypeOK'
  BY <1>1 DEF TypeOK, RejectWithdrawal, NoReview, Decision, creditVars, requestVars,
              WithdrawalStatus, RowStatus
<1>3. RowExistsWhenAnswered' /\ ReadsFund'
  BY <1>1 DEF TypeOK, RejectWithdrawal, NoReview, requestVars, RowExistsWhenAnswered, ReadsFund
<1>4. WithdrawnBacksStandingPayout'
  BY <1>1 DEF TypeOK, RejectWithdrawal, WithdrawnBacksStandingPayout
<1>5. ASSUME NEW v \in Requests, withdrawal'[v] = "pending"
      PROVE  Funds(Backing(v)', v)
  <2>1. v # w /\ withdrawal[v] = "pending"
    BY <1>1, <1>5 DEF TypeOK, RejectWithdrawal
  <2>2. Backing(v)' = Backing(v)
    BY <1>1, <2>1 DEF TypeOK, RejectWithdrawal, Backing
  <2> QED BY <2>1, <2>2 DEF PendingIsFunded
<1>6. PendingIsFunded'
  BY <1>5 DEF PendingIsFunded, Funds
<1> QED BY <1>2, <1>3, <1>4, <1>6

LEMMA NextPreserves == PayoutInv /\ [Next]_vars => PayoutInv'
<1> SUFFICES ASSUME PayoutInv, [Next]_vars PROVE PayoutInv'
  OBVIOUS
<1>1. ASSUME NEW d \in Deliveries, CreditStep(d) PROVE PayoutInv'
  BY <1>1, CreditTypes, PayoutFrame DEF PayoutInv
<1>2. CASE \/ \E a \in Affiliates : Enroll(a) \/ SetEnabled(a)
           \/ Tick \/ TransitionDuePending
           \/ \E o \in Orders : RefundCommission(o)
  BY <1>2, AccountsAndRowsPreserve
<1>3. ASSUME NEW w \in Requests, RequestStep(w) PROVE PayoutInv'
  BY <1>3, ReadsPreserve, CommitPreserves DEF RequestStep
<1>4. ASSUME NEW r \in Admins, ReviewStep(r) PROVE PayoutInv'
  BY <1>4, ReviewAndPayPreserve, RejectPreserves DEF ReviewStep
<1>5. CASE UNCHANGED vars
  <2>1. TypeOK'
    BY <1>5 DEF PayoutInv, TypeOK, vars, creditVars, rowVars, requestVars
  <2> QED BY <1>5, <2>1, PayoutFrame DEF vars, rowVars
<1> QED BY <1>1, <1>2, <1>3, <1>4, <1>5 DEF Next

\* The inductive invariant holds, for all values of the constants.
THEOREM PayoutInvariant == Spec => []PayoutInv
<1>1. Init => PayoutInv
  BY InitPayouts
<1>2. PayoutInv /\ [Next]_vars => PayoutInv'
  BY NextPreserves
<1> QED BY <1>1, <1>2, PTL DEF Spec

\* Every variable keeps its type, for all values of the constants.
THEOREM AffiliateTypes == Spec => []TypeOK
<1>1. PayoutInv => TypeOK
  BY DEF PayoutInv
<1> QED BY <1>1, PayoutInvariant, PTL

\* An affiliate's queued withdrawal is funded by commissions of its own, for
\* any number of requests, reviewers, sales and refunds and any amounts.
THEOREM AffiliatePayoutFunded == Spec => []PendingIsFunded
<1>1. PayoutInv => PendingIsFunded
  BY DEF PayoutInv
<1> QED BY <1>1, PayoutInvariant, PTL

\* A commission is withdrawn exactly while it backs a standing payout.
THEOREM AffiliateWithdrawnBacks == Spec => []WithdrawnBacksStandingPayout
<1>1. PayoutInv => WithdrawnBacksStandingPayout
  BY DEF PayoutInv
<1> QED BY <1>1, PayoutInvariant, PTL

-----------------------------------------------------------------------------
(* One commission per sale, when handlings of one order do not overlap. *)

\* A handling that looked the order up and found nothing is the only one of
\* the order, and nothing appeared since.
LookUpHolds ==
    /\ \A d, e \in Deliveries : handling[d].at # "idle" /\ handling[e].at # "idle"
                                   /\ handling[d].order = handling[e].order => d = e
    /\ \A d \in Deliveries : handling[d].at \in {"attachReferral", "create"} =>
          \A c \in Rows : c[1] = handling[d].order => commission[c] = "absent"

OneRow ==
    \A c, e \in Rows : c[1] = e[1] /\ commission[c] # "absent" /\ commission[e] # "absent" => c = e

\* At most one row of an order: what OneCommissionPerSale counts.
LEMMA OneRowCounts == OneRow => OneCommissionPerSale
<1> SUFFICES ASSUME OneRow, NEW o \in Orders PROVE Cardinality(RowsOfOrder(o)) <= 1
  BY DEF OneCommissionPerSale
<1>1. CASE RowsOfOrder(o) = {}
  BY <1>1, FS_EmptySet
<1>2. ASSUME NEW c \in RowsOfOrder(o) PROVE Cardinality(RowsOfOrder(o)) <= 1
  <2>1. RowsOfOrder(o) = {c}
    BY <1>2 DEF OneRow, RowsOfOrder
  <2>2. Cardinality(RowsOfOrder(o)) = 1
    BY <2>1, FS_Singleton
  <2> QED BY <2>2
<1> QED BY <1>1, <1>2

\* A step of one handling keeps its look-up and those of the others.
LEMMA CreditOnce ==
  ASSUME ~Overlapping, TypeOK, LookUpHolds, OneRow, NEW d \in Deliveries, CreditStep(d)
  PROVE  LookUpHolds' /\ OneRow'
<1>1. CASE \E o \in Orders, recovered \in BOOLEAN : StartCredit(d, o, recovered)
  <2> PICK o \in Orders, recovered \in BOOLEAN : StartCredit(d, o, recovered)
    BY <1>1
  <2>1. \A e \in Deliveries : handling[e].order # o
    BY DEF StartCredit, Handled
  <2>2. UNCHANGED commission
    BY DEF StartCredit, rowVars
  <2>3. \/ UNCHANGED handling
        \/ handling' = [handling EXCEPT ![d] = Handling("findAccount", o)]
    BY DEF StartCredit
  <2>4. CASE UNCHANGED handling
    BY <2>2, <2>4 DEF LookUpHolds, OneRow
  <2>5. CASE handling' = [handling EXCEPT ![d] = Handling("findAccount", o)]
    <3>1. \A e \in Deliveries \ {d} : handling'[e] = handling[e]
      BY <2>5 DEF TypeOK
    <3>2. handling'[d].at = "findAccount" /\ handling'[d].order = o
      BY <2>5 DEF TypeOK, Handling
    <3> QED BY <2>1, <2>2, <3>1, <3>2 DEF LookUpHolds, OneRow
  <2> QED BY <2>3, <2>4, <2>5
<1>2. CASE FindAccount(d) \/ AttachReferral(d) \/ AbandonCredit(d)
  <2>1. UNCHANGED commission /\ \A e \in Deliveries \ {d} : handling'[e] = handling[e]
    BY <1>2 DEF TypeOK, FindAccount, AttachReferral, AbandonCredit, GoOn, rowVars
  <2>2. \/ handling'[d].at = "idle"
        \/ handling'[d].at = "findExisting" /\ handling'[d].order = handling[d].order
        \/ handling[d].at = "attachReferral" /\ handling'[d].order = handling[d].order
    BY <1>2 DEF TypeOK, FindAccount, AttachReferral, AbandonCredit, GoOn, NotHandling, Handling
  <2>3. handling[d].at # "idle"
    BY <1>2 DEF FindAccount, AttachReferral, AbandonCredit
  <2> QED BY <2>1, <2>2, <2>3 DEF LookUpHolds, OneRow
<1>3. CASE FindExisting(d)
  <2>1. UNCHANGED commission
    BY <1>3 DEF FindExisting, rowVars
  <2>2. handling'[d].at = "attachReferral" =>
           \A c \in Rows : c[1] = handling'[d].order => commission[c] = "absent"
    BY <1>3 DEF TypeOK, FindExisting, GoOn, NotHandling, Handling, RowsOfOrder
  <2>3. /\ \A e \in Deliveries \ {d} : handling'[e] = handling[e]
        /\ handling'[d].at \in {"idle", "attachReferral"}
        /\ handling'[d].at # "idle" => handling'[d].order = handling[d].order
        /\ handling[d].at # "idle"
    BY <1>3 DEF TypeOK, FindExisting, GoOn, NotHandling, Handling
  <2> QED BY <2>1, <2>2, <2>3 DEF LookUpHolds, OneRow
<1>4. CASE CreateCommission(d)
  <2> DEFINE c == <<handling[d].order, d>>
  <2>1. c \in Rows /\ c[1] = handling[d].order
    BY <1>4 DEF TypeOK, CreateCommission, Rows, Orders
  <2>2. commission' = [commission EXCEPT ![c] = "pending"]
    BY <1>4 DEF CreateCommission
  <2>3. \A b \in Rows : b[1] = c[1] => commission[b] = "absent"
    BY <1>4 DEF CreateCommission, LookUpHolds
  <2>4. /\ \A e \in Deliveries \ {d} : handling'[e] = handling[e]
        /\ handling'[d].at = "idle"
        /\ handling[d].at = "create"
    BY <1>4 DEF TypeOK, CreateCommission, GoOn, NotHandling, Handling
  <2> HIDE DEF c
  <2>5. OneRow'
    BY <2>1, <2>2, <2>3 DEF TypeOK, OneRow
  <2>6. LookUpHolds'
    <3>1. \A b \in Rows : b[1] # c[1] => commission'[b] = commission[b]
      BY <2>1, <2>2 DEF TypeOK
    <3>2. \A e \in Deliveries : handling[e].at # "idle" /\ handling[e].order = handling[d].order
                                  => e = d
      BY <2>4 DEF LookUpHolds
    <3> QED BY <2>1, <2>4, <3>1, <3>2 DEF LookUpHolds
  <2> QED BY <2>5, <2>6
<1> QED BY <1>1, <1>2, <1>3, <1>4 DEF CreditStep

\* No other step brings a row to life or moves a handling.
LEMMA OthersKeepOnce ==
  ASSUME TypeOK, LookUpHolds, OneRow, UNCHANGED handling,
         \A c \in Rows : commission[c] = "absent" => commission'[c] = "absent"
  PROVE  LookUpHolds' /\ OneRow'
BY DEF TypeOK, LookUpHolds, OneRow

LEMMA OnceStep ==
  ASSUME ~Overlapping, PayoutInv, LookUpHolds, OneRow, [Next]_vars
  PROVE  LookUpHolds' /\ OneRow'
<1> USE DEF PayoutInv
<1> DEFINE Quiet == /\ UNCHANGED handling
                    /\ \A c \in Rows : commission[c] = "absent" => commission'[c] = "absent"
<1>1. ASSUME NEW d \in Deliveries, CreditStep(d) PROVE LookUpHolds' /\ OneRow'
  BY <1>1, CreditOnce
<1>2. CASE \/ \E a \in Affiliates : Enroll(a) \/ SetEnabled(a)
           \/ Tick \/ TransitionDuePending
           \/ \E o \in Orders : RefundCommission(o)
  <2>1. Quiet
    BY <1>2 DEF TypeOK, Enroll, SetEnabled, Tick, TransitionDuePending, RefundCommission, IsDue,
                creditVars, rowVars
  <2> QED BY <2>1, OthersKeepOnce
<1>3. ASSUME NEW w \in Requests, RequestStep(w) PROVE Quiet
  <2>1. ASSUME NEW S \in SUBSET poolRead[w], Commit(w, S) PROVE Quiet
    BY <2>1 DEF TypeOK, Commit, Unchanged, creditVars
  <2>2. CASE ReadPool(w) \/ \E S \in SUBSET poolRead[w] : Conflict(w, S)
    BY <2>2 DEF ReadPool, Conflict, creditVars, rowVars
  <2> QED BY <1>3, <2>1, <2>2 DEF RequestStep
<1>4. ASSUME NEW r \in Admins, ReviewStep(r) PROVE Quiet
  BY <1>4 DEF TypeOK, ReviewStep, Review, MarkPaid, RejectWithdrawal, creditVars, rowVars
<1>5. UNCHANGED vars => Quiet
  BY DEF vars, creditVars, rowVars
<1> HIDE DEF Quiet
<1>6. Quiet => LookUpHolds' /\ OneRow'
  BY OthersKeepOnce DEF Quiet
<1> QED BY <1>1, <1>2, <1>3, <1>4, <1>5, <1>6 DEF Next

\* Without overlapping handlings of one order, a sale has one commission,
\* however often its approval is sent and wherever a handling broke off.
THEOREM CommissionedOnce == ~Overlapping => (Spec => []OneCommissionPerSale)
<1> SUFFICES ASSUME ~Overlapping PROVE Spec => []OneCommissionPerSale
  OBVIOUS
<1>1. Init => LookUpHolds /\ OneRow
  BY DEF Init, LookUpHolds, OneRow, NotHandling, Handling
<1>2. PayoutInv /\ (LookUpHolds /\ OneRow) /\ [Next]_vars => (LookUpHolds /\ OneRow)'
  BY OnceStep
<1>3. OneRow => OneCommissionPerSale
  BY OneRowCounts
<1> QED BY <1>1, <1>2, <1>3, PayoutInvariant, PTL DEF Spec

-----------------------------------------------------------------------------
(* Nobody is paid more than the sales he brought are worth. *)

OneReviewer == \A r, s \in Admins : r = s

ReviewedIsPending ==
    \A r \in Admins : review[r].do \in Decision => withdrawal[review[r].w] = "pending"

StandingIsFunded ==
    \A w \in Requests : withdrawal[w] \in {"pending", "paid"} => Funds(Backing(w), w)

\* With one reviewer, what a review read of its payout stays true, and a paid payout
\* keeps its rows.
LEMMA StandingStep ==
  ASSUME OneReviewer, PayoutInv, ReviewedIsPending, StandingIsFunded, [Next]_vars
  PROVE  ReviewedIsPending' /\ StandingIsFunded'
<1> USE DEF PayoutInv
<1>1. ASSUME NEW w \in Requests, NEW S \in SUBSET poolRead[w], Commit(w, S)
      PROVE  ReviewedIsPending' /\ StandingIsFunded'
  <2>1. /\ withdrawal[w] = "none" /\ withdrawal' = [withdrawal EXCEPT ![w] = "pending"]
        /\ review' = review /\ S \subseteq Rows
    BY <1>1 DEF TypeOK, Commit, RowExistsWhenAnswered
  <2>2. ReviewedIsPending'
    BY <2>1 DEF TypeOK, ReviewedIsPending, RowExistsWhenAnswered, Decision
  <2>3. PayoutInv'
    BY <1>1, CommitPreserves
  <2>4. ASSUME NEW v \in Requests, withdrawal'[v] = "paid" PROVE Funds(Backing(v)', v)
    <3>1. v # w /\ withdrawal[v] = "paid"
      BY <2>1, <2>4 DEF TypeOK
    <3>2. \A c \in Rows : (backs'[c] = v) <=> (backs[c] = v)
      BY <1>1, <2>1, <3>1 DEF TypeOK, Commit, Unchanged, WithdrawnBacksStandingPayout
    <3>3. Backing(v)' = Backing(v)
      BY <3>2 DEF Backing
    <3> QED
      BY <3>1, <3>3 DEF StandingIsFunded
  <2>5. \A v \in Requests : withdrawal'[v] = "pending" => Funds(Backing(v)', v)
    BY <2>3 DEF PendingIsFunded, Funds
  <2>6. StandingIsFunded'
    BY <2>4, <2>5 DEF StandingIsFunded, Funds
  <2> QED
    BY <2>2, <2>6
<1>2. ASSUME NEW r \in Admins, RejectWithdrawal(r)
      PROVE  ReviewedIsPending' /\ StandingIsFunded'
  <2> DEFINE w == review[r].w
  <2>1. /\ w \in Requests /\ withdrawal' = [withdrawal EXCEPT ![w] = "rejected"]
        /\ review'[r].do = "idle"
    BY <1>2 DEF TypeOK, RejectWithdrawal, RowExistsWhenAnswered, NoReview
  <2>2. ReviewedIsPending'
    BY <2>1 DEF ReviewedIsPending, OneReviewer, Decision
  <2>3. ASSUME NEW v \in Requests, withdrawal'[v] \in {"pending", "paid"}
        PROVE  Funds(Backing(v)', v)
    <3>1. v # w /\ withdrawal[v] \in {"pending", "paid"}
      BY <2>1, <2>3 DEF TypeOK
    <3>2. Backing(v)' = Backing(v)
      BY <1>2, <2>1, <3>1 DEF TypeOK, RejectWithdrawal, Backing
    <3> QED
      BY <3>1, <3>2 DEF StandingIsFunded
  <2>4. StandingIsFunded'
    BY <2>3 DEF StandingIsFunded, Funds
  <2> QED
    BY <2>2, <2>4
<1>3. ASSUME NEW r \in Admins, MarkPaid(r)
      PROVE  ReviewedIsPending' /\ StandingIsFunded'
  <2>1. /\ review[r].w \in Requests /\ withdrawal[review[r].w] = "pending"
        /\ withdrawal' = [withdrawal EXCEPT ![review[r].w] = "paid"]
        /\ backs' = backs /\ review'[r].do = "idle"
    BY <1>3 DEF TypeOK, MarkPaid, RowExistsWhenAnswered, ReviewedIsPending, Decision, rowVars,
                NoReview
  <2>2. ReviewedIsPending'
    BY <2>1 DEF ReviewedIsPending, OneReviewer, Decision
  <2>3. StandingIsFunded'
    BY <2>1 DEF TypeOK, StandingIsFunded, Backing, Funds
  <2> QED
    BY <2>2, <2>3
<1>4. ASSUME UNCHANGED <<backs, withdrawal>>
      PROVE  StandingIsFunded'
  BY <1>4 DEF StandingIsFunded, Backing, Funds
<1>5. ASSUME NEW r \in Admins, NEW w \in Requests, NEW decision \in Decision, Review(r, w, decision)
      PROVE  ReviewedIsPending' /\ StandingIsFunded'
  <2>1. review'[r].w = w /\ withdrawal'[w] = "pending"
    BY <1>5 DEF TypeOK, Review
  <2>2. ReviewedIsPending'
    BY <2>1 DEF ReviewedIsPending, OneReviewer
  <2> QED
    BY <1>4, <1>5, <2>2 DEF Review, rowVars
<1>6. ASSUME UNCHANGED <<backs, withdrawal, review>>
      PROVE  ReviewedIsPending' /\ StandingIsFunded'
  BY <1>4, <1>6 DEF ReviewedIsPending
<1>7. ASSUME NEW w \in Requests, ReadPool(w) \/ \E S \in SUBSET poolRead[w] : Conflict(w, S)
      PROVE  UNCHANGED <<backs, withdrawal, review>>
  BY <1>7 DEF ReadPool, Conflict, rowVars
<1>8. ASSUME NEW d \in Deliveries, CreditStep(d)
      PROVE  UNCHANGED <<backs, withdrawal, review>>
  BY <1>8, CreditTypes
<1>9. ASSUME \/ \E a \in Affiliates : Enroll(a) \/ SetEnabled(a)
             \/ Tick \/ TransitionDuePending
             \/ \E o \in Orders : RefundCommission(o)
             \/ UNCHANGED vars
      PROVE  UNCHANGED <<backs, withdrawal, review>>
  BY <1>9 DEF Enroll, SetEnabled, Tick, TransitionDuePending, RefundCommission, rowVars, vars
<1> QED
  BY <1>1, <1>2, <1>3, <1>5, <1>6, <1>7, <1>8, <1>9 DEF Next, RequestStep, ReviewStep

\* With one reviewer at a time, a paid payout keeps the commissions that funded it.
THEOREM AffiliatePaidOnce == OneReviewer => (Spec => []StandingIsFunded)
<1> SUFFICES ASSUME OneReviewer PROVE Spec => []StandingIsFunded
  OBVIOUS
<1>1. Init => ReviewedIsPending /\ StandingIsFunded
  BY DEF Init, ReviewedIsPending, StandingIsFunded, NoReview, Decision
<1>2. PayoutInv /\ (ReviewedIsPending /\ StandingIsFunded) /\ [Next]_vars
        => (ReviewedIsPending /\ StandingIsFunded)'
  BY StandingStep
<1> QED BY <1>1, <1>2, PayoutInvariant, PTL DEF Spec

BackingAny(W) == {c \in Rows : backs[c] \in W}

LEMMA FiniteTables == IsFiniteSet(Orders) /\ IsFiniteSet(Rows) /\ IsFiniteSet(Requests)
<1>1. IsFiniteSet(Orders)
  BY FS_Interval DEF Orders
<1> QED
  BY <1>1, FS_Product DEF Rows

LEMMA Weights ==
  /\ \A c \in Rows : RowAmount[c] = NetAmount[c[1]] /\ RowAmount[c] \in Nat /\ c[1] \in Orders
  /\ \A o \in Orders : NetAmount[o] \in Nat
  /\ \A w \in Requests : AmountRequested[w] \in Nat
BY DEF RowAmount, Rows

\* Amounts are sums.
LEMMA Amounts ==
  /\ \A S \in SUBSET Rows : Worth(S) = SumOver(RowAmount, S) /\ Worth(S) \in Nat
  /\ \A O \in SUBSET Orders : SumOver(NetAmount, O) \in Nat
  /\ \A W \in SUBSET Requests : SumOver(AmountRequested, W) \in Nat
<1>1. \A S \in SUBSET Rows : Worth(S) = SumOver(RowAmount, S)
  BY DEF Worth, SumOver
<1>2. ASSUME NEW S \in SUBSET Rows PROVE SumOver(RowAmount, S) \in Nat
  <2>1. IsFiniteSet(S) /\ \A c \in S : RowAmount[c] \in Nat
    BY FiniteTables, Weights, FS_Subset
  <2> QED
    BY <2>1, SumTyped
<1>3. ASSUME NEW O \in SUBSET Orders PROVE SumOver(NetAmount, O) \in Nat
  <2>1. IsFiniteSet(O) /\ \A o \in O : NetAmount[o] \in Nat
    BY FiniteTables, Weights, FS_Subset
  <2> QED
    BY <2>1, SumTyped
<1>4. ASSUME NEW W \in SUBSET Requests PROVE SumOver(AmountRequested, W) \in Nat
  <2>1. IsFiniteSet(W) /\ \A w \in W : AmountRequested[w] \in Nat
    BY FiniteTables, Weights, FS_Subset
  <2> QED
    BY <2>1, SumTyped
<1> QED
  BY <1>1, <1>2, <1>3, <1>4

\* Payouts that are funded one by one are funded together, since no row backs two of them.
CoveredTogether(W) == SumOver(AmountRequested, W) <= Worth(BackingAny(W))

LEMMA OneMoreCovered ==
  ASSUME NEW W \in SUBSET Requests, NEW w \in W,
         CoveredTogether(W \ {w}), Funds(Backing(w), w)
  PROVE  CoveredTogether(W)
<1> DEFINE V == W \ {w}
<1>1. SumOver(AmountRequested, W) = AmountRequested[w] + SumOver(AmountRequested, V)
  <2>1. IsFiniteSet(W) /\ \A v \in W : AmountRequested[v] \in Nat
    BY FiniteTables, FS_Subset
  <2> QED
    BY <2>1, SumTakes
<1>2. Worth(BackingAny(W)) = Worth(BackingAny(V)) + Worth(Backing(w))
  <2>1. /\ BackingAny(V) \in SUBSET Rows /\ Backing(w) \in SUBSET Rows
        /\ BackingAny(V) \cap Backing(w) = {}
        /\ BackingAny(W) = BackingAny(V) \cup Backing(w)
    BY DEF BackingAny, Backing
  <2>2. Weighed(RowAmount, Rows) /\ MadeOf(BackingAny(W), BackingAny(V), Backing(w), Rows)
    BY <2>1, FiniteTables, Weights DEF Weighed, MadeOf
  <2>3. SumOver(RowAmount, BackingAny(W))
          = SumOver(RowAmount, BackingAny(V)) + SumOver(RowAmount, Backing(w))
    BY <2>2, SumOfParts
  <2> QED
    BY <2>1, <2>3, Amounts
<1>3. SumOver(AmountRequested, V) <= Worth(BackingAny(V))
  BY DEF CoveredTogether
<1>4. AmountRequested[w] <= Worth(Backing(w))
  <2>1. AmountRequested[w] \in Nat /\ Worth(Backing(w)) \in Nat
    BY Amounts DEF Backing
  <2> QED
    BY <2>1 DEF Funds
<1>5. /\ AmountRequested[w] \in Nat /\ SumOver(AmountRequested, V) \in Nat
      /\ Worth(BackingAny(V)) \in Nat /\ Worth(Backing(w)) \in Nat
  BY Amounts DEF BackingAny, Backing
<1> HIDE DEF V
<1> QED
  BY <1>1, <1>2, <1>3, <1>4, <1>5 DEF CoveredTogether

LEMMA AllCovered ==
  ASSUME NEW W \in SUBSET Requests, \A w \in W : Funds(Backing(w), w)
  PROVE  CoveredTogether(W)
<1> DEFINE T == {n \in Nat : \E V \in SUBSET W : Cardinality(V) = n /\ ~CoveredTogether(V)}
<1>1. IsFiniteSet(W)
  BY FiniteTables, FS_Subset
<1>2. SUFFICES ASSUME T # {} PROVE FALSE
  BY <1>1, SubsetCards
<1>3. PICK n \in T : \A m \in T : n <= m
  BY <1>2, LeastOf
<1>4. PICK V \in SUBSET W : Cardinality(V) = n /\ ~CoveredTogether(V)
  BY <1>3
<1>5. V # {}
  <2>1. BackingAny({}) = {}
    BY DEF BackingAny
  <2>2. SumOver(AmountRequested, {}) = 0 /\ Worth(BackingAny({})) \in Nat
    BY <2>1, SumOfNone, Amounts
  <2>3. CoveredTogether({})
    BY <2>2 DEF CoveredTogether
  <2> QED
    BY <1>4, <2>3
<1>6. PICK w \in V : TRUE
  BY <1>5
<1>7. V \ {w} \in SUBSET W /\ Cardinality(V \ {w}) = n - 1 /\ n - 1 \in Nat
  BY <1>1, <1>4, <1>6, SubsetCards
<1>8. n - 1 \notin T
  <2>1. n \in Nat /\ ~(n <= n - 1)
    BY <1>3
  <2> HIDE DEF T
  <2> QED
    BY <1>3, <2>1
<1>9. CoveredTogether(V \ {w})
  BY <1>7, <1>8
<1> QED
  BY <1>4, <1>6, <1>9, OneMoreCovered

\* Rows of different orders are worth what their orders are.
OrdersOf(S) == {c[1] : c \in S}

LEMMA RowsAreSales ==
  ASSUME NEW S \in SUBSET Rows, \A c, e \in S : c[1] = e[1] => c = e
  PROVE  SumOver(RowAmount, S) = SumOver(NetAmount, OrdersOf(S))
<1> DEFINE Bad(s) == SumOver(RowAmount, s) # SumOver(NetAmount, OrdersOf(s))
           T == {n \in Nat : \E s \in SUBSET S : Cardinality(s) = n /\ Bad(s)}
<1>1. IsFiniteSet(S)
  BY FiniteTables, FS_Subset
<1>2. SUFFICES ASSUME T # {} PROVE FALSE
  BY <1>1, SubsetCards
<1>3. PICK n \in T : \A m \in T : n <= m
  BY <1>2, LeastOf
<1>4. PICK s \in SUBSET S : Cardinality(s) = n /\ Bad(s)
  BY <1>3
<1>5. s # {}
  <2>1. OrdersOf({}) = {}
    BY DEF OrdersOf
  <2> QED
    BY <1>4, <2>1, SumOfNone
<1>6. PICK c \in s : TRUE
  BY <1>5
<1> DEFINE rest == s \ {c}
<1>7. rest \in SUBSET S /\ Cardinality(rest) = n - 1 /\ n - 1 \in Nat
  BY <1>1, <1>4, <1>6, SubsetCards
<1>8. ~Bad(rest)
  <2>1. n - 1 \notin T
    <3>1. n \in Nat /\ ~(n <= n - 1)
      BY <1>3
    <3> HIDE DEF T
    <3> QED
      BY <1>3, <3>1
  <2> QED
    BY <1>7, <2>1
<1>9. SumOver(RowAmount, s) = RowAmount[c] + SumOver(RowAmount, rest)
  <2>1. IsFiniteSet(s) /\ \A e \in s : RowAmount[e] \in Nat
    BY <1>1, FS_Subset, Weights
  <2> QED
    BY <2>1, SumTakes
<1>10. SumOver(NetAmount, OrdersOf(s)) = NetAmount[c[1]] + SumOver(NetAmount, OrdersOf(s) \ {c[1]})
  <2>1. OrdersOf(s) \in SUBSET Orders /\ c[1] \in OrdersOf(s)
    BY Weights DEF OrdersOf
  <2>2. IsFiniteSet(OrdersOf(s)) /\ \A o \in OrdersOf(s) : NetAmount[o] \in Nat
    BY <2>1, FiniteTables, FS_Subset, Weights
  <2> QED
    BY <2>1, <2>2, SumTakes
<1>11. OrdersOf(rest) = OrdersOf(s) \ {c[1]}
  BY DEF OrdersOf
<1>12. RowAmount[c] = NetAmount[c[1]]
  BY Weights
<1> HIDE DEF rest
<1> QED
  BY <1>4, <1>8, <1>9, <1>10, <1>11, <1>12

\* With one reviewer and no overlapping handlings of an order, an affiliate's payouts
\* never exceed what the sales he brought are worth, each counted once, for any number of
\* affiliates, sales, deliveries and requests and any amounts.
THEOREM AffiliateNeverOverpaid ==
    OneReviewer /\ ~Overlapping => (Spec => []NeverOverpaid)
<1> SUFFICES ASSUME OneReviewer, ~Overlapping PROVE Spec => []NeverOverpaid
  OBVIOUS
<1>1. PayoutInv /\ OneRow /\ StandingIsFunded => NeverOverpaid
  <2> SUFFICES ASSUME PayoutInv, OneRow, StandingIsFunded, NEW a \in Affiliates
               PROVE  SumOver(AmountRequested, Standing(a)) <= SumOver(NetAmount, PaidOutSales(a))
    BY DEF NeverOverpaid, SumOver
  <2> DEFINE W == Standing(a)
             S == BackingAny(W)
  <2>1. W \in SUBSET Requests /\ \A w \in W : Funds(Backing(w), w)
    BY DEF Standing, StandingIsFunded
  <2>2. CoveredTogether(W)
    BY <2>1, AllCovered
  <2>3. S \in SUBSET Rows /\ \A c, e \in S : c[1] = e[1] => c = e
    <3>1. \A c \in S : c \in Rows /\ commission[c] = "withdrawn"
      BY <2>1 DEF BackingAny, PayoutInv, WithdrawnBacksStandingPayout
    <3> QED
      BY <3>1 DEF OneRow
  <2>4. Worth(S) = SumOver(NetAmount, OrdersOf(S))
    BY <2>3, RowsAreSales, Amounts
  <2>5. OrdersOf(S) \subseteq PaidOutSales(a) /\ PaidOutSales(a) \in SUBSET Orders
    <3>1. ASSUME NEW c \in S PROVE c[1] \in PaidOutSales(a)
      <4>1. /\ c \in Rows /\ commission[c] = "withdrawn" /\ backs[c] \in W /\ c[1] \in Orders
        BY <2>1, Weights DEF BackingAny, PayoutInv, WithdrawnBacksStandingPayout
      <4>2. ReferredBy[c[1]] = a
        BY <4>1 DEF Standing, PayoutInv, WithdrawnBacksStandingPayout
      <4> QED
        BY <4>1, <4>2 DEF PaidOutSales, RowsOfOrder
    <3> QED
      BY <3>1 DEF OrdersOf, PaidOutSales
  <2>6. SumOver(NetAmount, OrdersOf(S)) <= SumOver(NetAmount, PaidOutSales(a))
    <3>1. IsFiniteSet(PaidOutSales(a)) /\ \A o \in PaidOutSales(a) : NetAmount[o] \in Nat
      BY <2>5, FiniteTables, FS_Subset, Weights
    <3> QED
      BY <2>5, <3>1, SumGrows
  <2>7. /\ SumOver(AmountRequested, W) \in Nat /\ Worth(S) \in Nat
        /\ SumOver(NetAmount, PaidOutSales(a)) \in Nat
    BY <2>1, <2>3, <2>5, Amounts
  <2>8. SumOver(AmountRequested, W) <= Worth(S)
    BY <2>2 DEF CoveredTogether
  <2> HIDE DEF W, S
  <2>9. SumOver(AmountRequested, W) <= SumOver(NetAmount, PaidOutSales(a))
    BY <2>4, <2>6, <2>7, <2>8
  <2> QED
    BY <2>9 DEF W
<1>2. Init => LookUpHolds /\ OneRow
  BY DEF Init, LookUpHolds, OneRow, NotHandling, Handling
<1>3. PayoutInv /\ (LookUpHolds /\ OneRow) /\ [Next]_vars => (LookUpHolds /\ OneRow)'
  BY OnceStep
<1> QED
  BY <1>1, <1>2, <1>3, AffiliatePaidOnce, PayoutInvariant, PTL DEF Spec

-----------------------------------------------------------------------------
(* The greedy loop of requestWithdrawal has exactly one outcome. *)

LEMMA FundsMore ==
  ASSUME NEW A \in SUBSET Rows, NEW B \in SUBSET Rows, A \subseteq B,
         NEW w \in Requests, Funds(A, w)
  PROVE  Funds(B, w)
<1>1. IsFiniteSet(B) /\ \A c \in B : RowAmount[c] \in Nat
  BY FiniteTables, Weights, FS_Subset
<1>2. SumOver(RowAmount, A) <= SumOver(RowAmount, B)
  BY <1>1, SumGrows
<1>3. Worth(A) <= Worth(B) /\ Worth(A) \in Nat /\ Worth(B) \in Nat /\ AmountRequested[w] \in Nat
  BY <1>2, Amounts
<1> QED
  BY <1>3 DEF Funds

Older(c, pool) == {d \in pool : d[1] < c[1]}

LEMMA ConsumedUnfolds ==
  ASSUME NEW pool, NEW S, NEW w
  PROVE  Consumed(S, pool, w) <=>
           /\ S \subseteq pool
           /\ \A c \in S : Older(c, pool) \subseteq S
           /\ S # {} => \E last \in S : /\ \A c \in S : c[1] <= last[1]
                                       /\ ~Funds(S \ {last}, w)
           /\ Funds(S, w) \/ S = pool
BY DEF Consumed, Older

\* Whatever rows a call has read, its loop ends with a set of them to consume, and it is
\* the only one: oldest first, the last row whole, or the whole pool. Rows of a pool are
\* of different sales, as CommissionedOnce shows.
THEOREM AffiliateConsumption ==
  ASSUME NEW w \in Requests, NEW pool \in SUBSET Rows, \A c, d \in pool : c[1] = d[1] => c = d
  PROVE  /\ \E S \in SUBSET pool : Consumed(S, pool, w)
         /\ \A S, R \in SUBSET pool : Consumed(S, pool, w) /\ Consumed(R, pool, w) => S = R
<1>1. LastOrder \in Nat /\ \A c \in pool : c[1] \in Nat /\ c[1] <= LastOrder
  BY DEF Rows, Orders
<1> DEFINE S == {c \in pool : ~Funds(Older(c, pool), w)}
<1>2. ASSUME NEW c \in S PROVE Older(c, pool) \subseteq S
  <2> SUFFICES ASSUME NEW d \in Older(c, pool) PROVE ~Funds(Older(d, pool), w)
    BY DEF Older
  <2>1. /\ Older(d, pool) \subseteq Older(c, pool)
        /\ Older(d, pool) \in SUBSET Rows /\ Older(c, pool) \in SUBSET Rows
    BY <1>1 DEF Older
  <2> QED
    BY <2>1, FundsMore
<1>3. ASSUME S # pool PROVE Funds(S, w)
  <2> DEFINE T == {c[1] : c \in pool \ S}
  <2>1. T \subseteq Nat /\ T # {}
    BY <1>1, <1>3
  <2>2. PICK n \in T : \A m \in T : n <= m
    BY <2>1, LeastOf
  <2>3. PICK c \in pool \ S : n = c[1]
    BY <2>2
  <2>4. Older(c, pool) \subseteq S
    <3> SUFFICES ASSUME NEW d \in Older(c, pool), d \notin S PROVE FALSE
      OBVIOUS
    <3>1. d \in pool /\ d[1] < c[1]
      BY DEF Older
    <3>2. c[1] <= d[1]
      BY <2>2, <2>3, <3>1
    <3>3. c[1] \in Nat /\ d[1] \in Nat
      BY <1>1, <3>1
    <3> QED
      BY <3>1, <3>2, <3>3
  <2>5. Older(c, pool) \in SUBSET Rows /\ S \in SUBSET Rows /\ Funds(Older(c, pool), w)
    BY <2>3 DEF Older
  <2> QED
    BY <2>4, <2>5, FundsMore
<1>4. ASSUME S # {}
      PROVE  \E last \in S : /\ \A c \in S : c[1] <= last[1]
                            /\ ~Funds(S \ {last}, w)
  <2> DEFINE T == {LastOrder - c[1] : c \in S}
  <2>1. T \subseteq Nat /\ T # {}
    BY <1>1, <1>4
  <2>2. PICK n \in T : \A m \in T : n <= m
    BY <2>1, LeastOf
  <2>3. PICK last \in S : n = LastOrder - last[1]
    BY <2>2
  <2>4. ASSUME NEW c \in S PROVE c[1] <= last[1]
    <3>1. LastOrder - last[1] <= LastOrder - c[1]
      BY <2>2, <2>3, <2>4
    <3>2. c[1] \in Nat /\ last[1] \in Nat
      BY <1>1
    <3> QED
      BY <1>1, <3>1, <3>2
  <2>5. S \ {last} \subseteq Older(last, pool)
    <3> SUFFICES ASSUME NEW c \in S, c # last PROVE c[1] < last[1]
      BY DEF Older
    <3>1. c[1] <= last[1] /\ c[1] # last[1] /\ c[1] \in Nat /\ last[1] \in Nat
      BY <1>1, <2>4
    <3> QED
      BY <3>1
  <2>6. /\ S \ {last} \in SUBSET Rows /\ Older(last, pool) \in SUBSET Rows
        /\ ~Funds(Older(last, pool), w)
    BY DEF Older
  <2>7. ~Funds(S \ {last}, w)
    BY <2>5, <2>6, FundsMore
  <2> QED
    BY <2>4, <2>7
<1>5. \E R \in SUBSET pool : Consumed(R, pool, w)
  <2>1. S \in SUBSET pool
    OBVIOUS
  <2> HIDE DEF S
  <2> QED
    BY <1>2, <1>3, <1>4, <2>1, ConsumedUnfolds
<1>6. ASSUME NEW A \in SUBSET pool, NEW B \in SUBSET pool,
             Consumed(A, pool, w), Consumed(B, pool, w)
      PROVE  A \subseteq B
  <2> SUFFICES ASSUME NEW c \in A, c \notin B PROVE FALSE
    OBVIOUS
  <2>1. Funds(B, w)
    BY <1>6, ConsumedUnfolds
  <2>2. PICK last \in A : (\A d \in A : d[1] <= last[1]) /\ ~Funds(A \ {last}, w)
    BY <1>6, ConsumedUnfolds
  <2>3. B \subseteq A \ {last}
    <3> SUFFICES ASSUME NEW d \in B PROVE d \in A /\ d # last
      OBVIOUS
    <3>1. d[1] < c[1]
      <4>1. c \notin Older(d, pool)
        BY <1>6, ConsumedUnfolds
      <4>2. ~(c[1] < d[1]) /\ c[1] # d[1] /\ c[1] \in Nat /\ d[1] \in Nat
        BY <1>1, <4>1 DEF Older
      <4> QED
        BY <4>2
    <3>2. d \in A
      <4>1. d \in Older(c, pool)
        BY <3>1 DEF Older
      <4> QED
        BY <1>6, <4>1, ConsumedUnfolds
    <3>3. c[1] <= last[1] /\ c[1] \in Nat /\ d[1] \in Nat /\ last[1] \in Nat
      BY <1>1, <2>2
    <3>4. d # last
      BY <3>1, <3>3
    <3> QED
      BY <3>2, <3>4
  <2>4. Funds(A \ {last}, w)
    BY <2>1, <2>3, FundsMore
  <2> QED
    BY <2>2, <2>4
<1> QED
  BY <1>5, <1>6

-----------------------------------------------------------------------------
(* AffiliateLedger implements PayoutLedger. *)

LEMMA StepImplements ==
  ASSUME PayoutInv, [Next]_vars
  PROVE  [Payout!Next]_(Payout!abstractVars)
<1> USE DEF PayoutInv
<1> DEFINE Same == UNCHANGED <<commission, backs, withdrawal>>
<1>0. ASSUME Same PROVE UNCHANGED Payout!abstractVars
  BY <1>0 DEF Payout!abstractVars
<1>1. ASSUME NEW d \in Deliveries, CreateCommission(d) PROVE Payout!Next
  <2> DEFINE c == <<handling[d].order, d>>
  <2>1. c \in Rows
    BY <1>1 DEF TypeOK, CreateCommission, Rows, Orders
  <2>2. Payout!Credit(c)
    BY <1>1 DEF CreateCommission, Payout!Credit
  <2> HIDE DEF c
  <2> QED BY <2>1, <2>2 DEF Payout!Next
<1>2. ASSUME NEW d \in Deliveries, CreditStep(d), ~CreateCommission(d) PROVE Same
  BY <1>2 DEF CreditStep, StartCredit, FindAccount, FindExisting, AttachReferral, AbandonCredit,
              rowVars
<1>3. ASSUME TransitionDuePending PROVE Payout!Next
  <2>1. Payout!Mature({c \in Rows : IsDue(c)})
    BY <1>3 DEF TransitionDuePending, IsDue, Payout!Mature
  <2> QED BY <2>1 DEF Payout!Next
<1>4. ASSUME NEW o \in Orders, RefundCommission(o) PROVE Payout!Next
  <2>1. Payout!Reverse({c \in Rows : c[1] = o /\ commission[c] \in {"pending", "available"}})
    BY <1>4 DEF RefundCommission, Payout!Reverse
  <2> QED BY <2>1 DEF Payout!Next
<1>5. ASSUME NEW w \in Requests, NEW S \in SUBSET poolRead[w], Commit(w, S) PROVE Payout!Next
  <2>1. withdrawal[w] = "none" /\ S \in SUBSET Rows
    BY <1>5 DEF TypeOK, Commit, RowExistsWhenAnswered
  <2>2. Payout!Reserve(w, S)
    BY <1>5, <2>1 DEF Commit, Unchanged, Payout!Reserve
  <2> QED BY <2>1, <2>2 DEF Payout!Next
<1>6. ASSUME NEW r \in Admins, MarkPaid(r) PROVE Payout!Next
  <2>1. Payout!Pay(review[r].w) /\ review[r].w \in Requests
    BY <1>6 DEF MarkPaid, RowExistsWhenAnswered, rowVars, Payout!Pay
  <2> QED BY <2>1 DEF Payout!Next
<1>7. ASSUME NEW r \in Admins, RejectWithdrawal(r) PROVE Payout!Next
  <2>1. review[r].w \in Requests /\ withdrawal[review[r].w] # "none"
    BY <1>7 DEF RejectWithdrawal, RowExistsWhenAnswered
  <2>2. \A c \in Rows : backs[c] = review[r].w => commission[c] = "withdrawn"
    BY <2>1 DEF WithdrawnBacksStandingPayout
  <2>3. Payout!Release(review[r].w)
    BY <1>7, <2>1, <2>2 DEF RejectWithdrawal, Payout!Release
  <2> QED BY <2>1, <2>3 DEF Payout!Next
<1>8. ASSUME \/ \E a \in Affiliates : Enroll(a) \/ SetEnabled(a)
             \/ Tick
             \/ \E w \in Requests : ReadPool(w) \/ \E S \in SUBSET poolRead[w] : Conflict(w, S)
             \/ \E r \in Admins, w \in Requests, decision \in Decision : Review(r, w, decision)
             \/ UNCHANGED vars
      PROVE  Same
  BY <1>8 DEF Enroll, SetEnabled, Tick, ReadPool, Conflict, Review, rowVars, vars
<1>9. Same \/ Payout!Next
  BY <1>1, <1>2, <1>3, <1>4, <1>5, <1>6, <1>7, <1>8 DEF Next, RequestStep, ReviewStep
<1> QED BY <1>0, <1>9

\* Every behaviour of the affiliate ledger is one of the atomic PayoutLedger.
THEOREM AffiliateImplementsPayout == Spec => ImplementsPayout
<1>1. Init => Payout!Init
  BY DEF Init, Payout!Init
<1>2. PayoutInv /\ [Next]_vars => [Payout!Next]_(Payout!abstractVars)
  BY StepImplements
<1> QED BY <1>1, <1>2, PayoutInvariant, PTL DEF Spec, ImplementsPayout, Payout!Spec
=============================================================================
