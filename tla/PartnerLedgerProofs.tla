------------------------- MODULE PartnerLedgerProofs -------------------------
(***************************************************************************)
(* Proofs about PartnerLedger for every set of partners, orders, costs,    *)
(* requests and reviewers and all amounts.                                 *)
(***************************************************************************)
EXTENDS PartnerLedger, FiniteSetTheorems, WellFoundedInduction, TLAPS

(* Sums: Worth and Owed are sums of a function over a finite set. That such a *)
(* sum is well defined is proved by least counterexamples.                   *)

\* What MapThenSumSet computes, for a function.
SumOver(f, S) == MapThenSumSet(LAMBDA x : f[x], S)

Some(s) == CHOOSE x \in s : TRUE
SumsTo(f, S, g) ==
    g = [s \in SUBSET S |-> IF s = {} THEN 0 ELSE f[Some(s)] + g[s \ {Some(s)}]]

\* A set of naturals that is not empty has a least element.
LEMMA LeastOf ==
  ASSUME NEW T, T \subseteq Nat, T # {}
  PROVE  \E n \in T : \A m \in T : n <= m
<1> DEFINE R == OpToRel(<, Nat)
<1>1. IsWellFoundedOn(R, Nat)
  BY NatLessThanWellFounded
<1>2. PICK n \in T : \A m \in T : ~(<<m, n>> \in R)
  BY <1>1, WFMin
<1>3. ASSUME NEW m \in T PROVE n <= m
  <2>1. ~(m < n)
    BY <1>2, <1>3 DEF OpToRel
  <2> QED
    BY <2>1
<1> QED
  BY <1>3

Weighed(f, S) == IsFiniteSet(S) /\ \A x \in S : f[x] \in Nat
Solution(f, S, g) == g \in [SUBSET S -> Nat] /\ SumsTo(f, S, g)
OrderFree(f, S, g) == \A s \in SUBSET S : \A x \in s : g[s] = f[x] + g[s \ {x}]

Upto(S, n) == {s \in SUBSET S : Cardinality(s) <= n}

\* The recursion has a solution on the subsets of at most n elements.
Solves(f, S, n, g) ==
    /\ g \in [Upto(S, n) -> Nat]
    /\ \A s \in Upto(S, n) : g[s] = IF s = {} THEN 0 ELSE f[Some(s)] + g[s \ {Some(s)}]

LEMMA SubsetCards ==
  ASSUME NEW S, IsFiniteSet(S), NEW s \in SUBSET S
  PROVE  /\ IsFiniteSet(s) /\ Cardinality(s) \in Nat /\ Cardinality(s) <= Cardinality(S)
         /\ Cardinality(s) = 0 <=> s = {}
         /\ s # {} => Some(s) \in s
         /\ \A x \in s : Cardinality(s \ {x}) = Cardinality(s) - 1
<1>1. IsFiniteSet(s) /\ Cardinality(s) <= Cardinality(S)
  BY FS_Subset
<1>2. Cardinality(s) \in Nat /\ Cardinality(S) \in Nat
  BY <1>1, FS_CardinalityType
<1>3. Cardinality(s) = 0 <=> s = {}
  BY <1>1, FS_EmptySet
<1>4. \A x \in s : Cardinality(s \ {x}) = Cardinality(s) - 1
  BY <1>1, FS_RemoveElement
<1> QED
  BY <1>1, <1>2, <1>3, <1>4 DEF Some

LEMMA SolutionsExist ==
  ASSUME NEW S, IsFiniteSet(S), NEW f, \A x \in S : f[x] \in Nat, NEW k \in Nat
  PROVE  \E g : Solves(f, S, k, g)
<1> DEFINE T == {n \in Nat : ~\E g : Solves(f, S, n, g)}
<1>1. SUFFICES ASSUME T # {} PROVE FALSE
  OBVIOUS
<1>2. PICK n \in T : \A m \in T : n <= m
  BY <1>1, LeastOf
<1>3. CASE n = 0
  <2>1. Upto(S, 0) = {{}}
    BY SubsetCards DEF Upto
  <2>2. Solves(f, S, 0, [s \in Upto(S, 0) |-> 0])
    BY <2>1 DEF Solves
  <2> QED
    BY <1>3, <2>2
<1>4. CASE n # 0
  <2>1. n - 1 \in Nat /\ ~(n <= n - 1)
    BY <1>4
  <2>2. PICK g : Solves(f, S, n - 1, g)
    BY <1>2, <2>1
  <2> DEFINE h == [s \in Upto(S, n) |-> IF s = {} THEN 0 ELSE f[Some(s)] + g[s \ {Some(s)}]]
  <2>3. ASSUME NEW s \in Upto(S, n), s # {}
        PROVE  Some(s) \in S /\ s \ {Some(s)} \in Upto(S, n - 1) /\ s \ {Some(s)} \in Upto(S, n)
    BY <2>3, SubsetCards DEF Upto
  <2>4. h \in [Upto(S, n) -> Nat]
    <3>1. ASSUME NEW s \in Upto(S, n), s # {} PROVE f[Some(s)] + g[s \ {Some(s)}] \in Nat
      BY <2>2, <2>3, <3>1 DEF Solves
    <3> QED
      BY <3>1
  <2>5. ASSUME NEW s \in Upto(S, n - 1) PROVE s \in Upto(S, n) /\ h[s] = g[s]
    <3>1. s \in Upto(S, n)
      BY SubsetCards DEF Upto
    <3>2. g[s] = IF s = {} THEN 0 ELSE f[Some(s)] + g[s \ {Some(s)}]
      BY <2>2 DEF Solves
    <3> QED
      BY <3>1, <3>2
  <2>6. ASSUME NEW s \in Upto(S, n)
        PROVE  h[s] = IF s = {} THEN 0 ELSE f[Some(s)] + h[s \ {Some(s)}]
    BY <2>3, <2>5
  <2> HIDE DEF h
  <2>7. Solves(f, S, n, h)
    BY <2>4, <2>6 DEF Solves
  <2> QED
    BY <2>7
<1> QED
  BY <1>3, <1>4

\* The recursion has a solution, and the sum is its value.
LEMMA SumSolved ==
  ASSUME NEW S, IsFiniteSet(S), NEW f, \A x \in S : f[x] \in Nat
  PROVE  \E g \in [SUBSET S -> Nat] : SumsTo(f, S, g) /\ SumOver(f, S) = g[S]
<1> DEFINE n == Cardinality(S)
<1>1. n \in Nat /\ Upto(S, n) = SUBSET S
  BY FS_CardinalityType, SubsetCards DEF Upto
<1>2. PICK g : Solves(f, S, n, g)
  BY <1>1, SolutionsExist
<1>3. SumsTo(f, S, g)
  BY <1>1, <1>2 DEF Solves, SumsTo
<1> DEFINE h == CHOOSE h : SumsTo(f, S, h)
<1>4. SumsTo(f, S, h)
  BY <1>3
<1>5. SumOver(f, S) = h[S]
  BY DEF SumOver, MapThenSumSet, MapThenFoldSet, SumsTo, Some
<1> HIDE DEF h
<1>6. ASSUME NEW s \in SUBSET S PROVE h[s] \in Nat
  <2> DEFINE T == {m \in Nat : \E t \in SUBSET S : Cardinality(t) = m /\ h[t] \notin Nat}
  <2>1. SUFFICES ASSUME T # {} PROVE FALSE
    BY SubsetCards
  <2>2. PICK m \in T : \A k \in T : m <= k
    BY <2>1, LeastOf
  <2>3. PICK t \in SUBSET S : Cardinality(t) = m /\ h[t] \notin Nat
    BY <2>2
  <2>4. h[t] = IF t = {} THEN 0 ELSE f[Some(t)] + h[t \ {Some(t)}]
    BY <1>4 DEF SumsTo
  <2>5. t # {}
    BY <2>3, <2>4
  <2>6. Some(t) \in S /\ t \ {Some(t)} \in SUBSET S /\ Cardinality(t \ {Some(t)}) = m - 1 /\ m - 1 \in Nat
    BY <2>3, <2>5, SubsetCards
  <2>7. h[t \ {Some(t)}] \in Nat
    BY <2>2, <2>6
  <2> QED
    BY <2>3, <2>4, <2>5, <2>6, <2>7
<1>7. h \in [SUBSET S -> Nat]
  BY <1>4, <1>6 DEF SumsTo
<1> QED
  BY <1>4, <1>5, <1>7

\* Which element is taken first makes no difference.
LEMMA AnyFirst ==
  ASSUME NEW S, NEW f, NEW g, Weighed(f, S), Solution(f, S, g)
  PROVE  OrderFree(f, S, g)
<1>1. SUFFICES ASSUME IsFiniteSet(S), \A x \in S : f[x] \in Nat,
                    g \in [SUBSET S -> Nat], SumsTo(f, S, g)
             PROVE  \A s \in SUBSET S : \A x \in s : g[s] = f[x] + g[s \ {x}]
  BY DEF Weighed, Solution, OrderFree
<1> DEFINE T == {n \in Nat : \E s \in SUBSET S : /\ Cardinality(s) = n
                                                  /\ \E x \in s : g[s] # f[x] + g[s \ {x}]}
<1>2. SUFFICES ASSUME T # {} PROVE FALSE
  BY <1>1, SubsetCards
<1>3. PICK n \in T : \A m \in T : n <= m
  BY <1>2, LeastOf
<1>4. PICK s \in SUBSET S : Cardinality(s) = n /\ \E x \in s : g[s] # f[x] + g[s \ {x}]
  BY <1>3
<1>5. PICK x \in s : g[s] # f[x] + g[s \ {x}]
  BY <1>4
<1> DEFINE c == Some(s)
           rest == s \ {c, x}
<1>6. c \in s /\ c \in S /\ x \in S
  BY <1>1, <1>5, SubsetCards
<1> HIDE DEF c
<1>7. g[s] = f[c] + g[s \ {c}]
  BY <1>6, <1>1 DEF SumsTo, c
<1>8. c # x
  BY <1>5, <1>7
<1>9. /\ s \ {c} \in SUBSET S /\ s \ {x} \in SUBSET S /\ rest \in SUBSET S
      /\ Cardinality(s \ {c}) = n - 1 /\ Cardinality(s \ {x}) = n - 1 /\ n - 1 \in Nat
      /\ x \in s \ {c} /\ c \in s \ {x}
      /\ (s \ {c}) \ {x} = rest /\ (s \ {x}) \ {c} = rest
  BY <1>4, <1>6, <1>8, <1>1, SubsetCards
<1>10. n - 1 \notin T
  BY <1>3, <1>9
<1>11. \A t \in SUBSET S : Cardinality(t) = n - 1 => \A y \in t : g[t] = f[y] + g[t \ {y}]
  BY <1>9, <1>10
<1> HIDE DEF T, rest
<1>12. g[s \ {c}] = f[x] + g[rest]
  <2>1. g[s \ {c}] = f[x] + g[(s \ {c}) \ {x}]
    BY <1>9, <1>11
  <2> QED
    BY <1>9, <2>1
<1>13. g[s \ {x}] = f[c] + g[rest]
  <2>1. g[s \ {x}] = f[c] + g[(s \ {x}) \ {c}]
    BY <1>9, <1>11
  <2> QED
    BY <1>9, <2>1
<1>14. f[c] \in Nat /\ f[x] \in Nat /\ g[rest] \in Nat
  BY <1>6, <1>9, <1>1
<1> QED
  BY <1>5, <1>7, <1>12, <1>13, <1>14

\* A sum over a part is the same, whichever set the recursion started from.
LEMMA PartsAgree ==
  ASSUME NEW S, NEW R, NEW f, NEW g, NEW h, IsFiniteSet(S), R \subseteq S,
         Solution(f, S, g), Solution(f, R, h)
  PROVE  \A s \in SUBSET R : g[s] = h[s]
<1>1. /\ g \in [SUBSET S -> Nat] /\ SumsTo(f, S, g)
      /\ h \in [SUBSET R -> Nat] /\ SumsTo(f, R, h)
  BY DEF Solution
<1> DEFINE T == {n \in Nat : \E s \in SUBSET R : Cardinality(s) = n /\ g[s] # h[s]}
<1>2. IsFiniteSet(R)
  BY FS_Subset
<1>3. SUFFICES ASSUME T # {} PROVE FALSE
  BY <1>2, SubsetCards
<1>4. PICK n \in T : \A m \in T : n <= m
  BY <1>3, LeastOf
<1>5. PICK s \in SUBSET R : Cardinality(s) = n /\ g[s] # h[s]
  BY <1>4
<1>6. /\ g[s] = IF s = {} THEN 0 ELSE f[Some(s)] + g[s \ {Some(s)}]
      /\ h[s] = IF s = {} THEN 0 ELSE f[Some(s)] + h[s \ {Some(s)}]
  BY <1>1 DEF SumsTo
<1>7. s # {}
  BY <1>5, <1>6
<1>8. s \ {Some(s)} \in SUBSET R /\ Cardinality(s \ {Some(s)}) = n - 1 /\ n - 1 \in Nat
  BY <1>2, <1>5, <1>7, SubsetCards
<1>9. g[s \ {Some(s)}] = h[s \ {Some(s)}]
  BY <1>4, <1>8
<1> QED
  BY <1>5, <1>6, <1>7, <1>9

LEMMA SumTyped ==
  ASSUME NEW S, IsFiniteSet(S), NEW f, \A x \in S : f[x] \in Nat
  PROVE  SumOver(f, S) \in Nat
<1>1. PICK g \in [SUBSET S -> Nat] : SumsTo(f, S, g) /\ SumOver(f, S) = g[S]
  BY SumSolved
<1> QED
  BY <1>1

LEMMA SumOfNone ==
  ASSUME NEW f
  PROVE  SumOver(f, {}) = 0
<1>1. IsFiniteSet({})
  BY FS_EmptySet
<1>2. PICK g \in [SUBSET {} -> Nat] : SumsTo(f, {}, g) /\ SumOver(f, {}) = g[{}]
  BY <1>1, SumSolved
<1> QED
  BY <1>2 DEF SumsTo

LEMMA SumTakes ==
  ASSUME NEW S, IsFiniteSet(S), NEW f, \A x \in S : f[x] \in Nat, NEW x \in S
  PROVE  SumOver(f, S) = f[x] + SumOver(f, S \ {x})
<1> DEFINE R == S \ {x}
<1>1. IsFiniteSet(R) /\ R \subseteq S /\ (\A y \in R : f[y] \in Nat)
  BY FS_Subset
<1>2. PICK g : Solution(f, S, g) /\ SumOver(f, S) = g[S]
  BY SumSolved DEF Solution
<1> HIDE DEF R
<1>3. PICK h : Solution(f, R, h) /\ SumOver(f, R) = h[R]
  BY <1>1, SumSolved DEF Solution
<1>4. OrderFree(f, S, g)
  <2>1. Weighed(f, S)
    BY DEF Weighed
  <2> QED
    BY <1>2, <2>1, AnyFirst
<1>5. g[S] = f[x] + g[R]
  BY <1>4 DEF OrderFree, R
<1>6. g[R] = h[R]
  BY <1>1, <1>2, <1>3, PartsAgree
<1> QED
  BY <1>2, <1>3, <1>5, <1>6 DEF R

\* The sum over two sets that share nothing.
LEMMA SumOfBoth ==
  ASSUME NEW S, IsFiniteSet(S), NEW f, \A x \in S : f[x] \in Nat,
         NEW A \in SUBSET S, NEW B \in SUBSET S, A \cap B = {}
  PROVE  SumOver(f, A \cup B) = SumOver(f, A) + SumOver(f, B)
<1> DEFINE T == {n \in Nat : \E C \in SUBSET B : /\ Cardinality(C) = n
                               /\ SumOver(f, A \cup C) # SumOver(f, A) + SumOver(f, C)}
<1>1. IsFiniteSet(B)
  BY FS_Subset
<1>2. SUFFICES ASSUME T # {} PROVE FALSE
  BY <1>1, SubsetCards
<1>3. PICK n \in T : \A m \in T : n <= m
  BY <1>2, LeastOf
<1>4. PICK C \in SUBSET B : /\ Cardinality(C) = n
                            /\ SumOver(f, A \cup C) # SumOver(f, A) + SumOver(f, C)
  BY <1>3
<1>5. \A D \in SUBSET S : IsFiniteSet(D) /\ SumOver(f, D) \in Nat
  BY FS_Subset, SumTyped
<1>6. CASE C = {}
  <2>1. A \cup C = A
    BY <1>6
  <2>2. SumOver(f, C) = 0 /\ SumOver(f, A) \in Nat
    BY <1>5, <1>6, SumOfNone
  <2> QED
    BY <1>4, <2>1, <2>2
<1>7. CASE C # {}
  <2>1. PICK x \in C : TRUE
    BY <1>7
  <2> DEFINE D == C \ {x}
  <2>2. D \in SUBSET B /\ Cardinality(D) = n - 1 /\ n - 1 \in Nat
    BY <1>1, <1>4, <1>7, SubsetCards
  <2>3. SumOver(f, A \cup D) = SumOver(f, A) + SumOver(f, D)
    <3>1. n \in Nat /\ ~(n <= n - 1)
      BY <1>3
    <3>3. n - 1 \notin T
      <4> HIDE DEF T, D
      <4> QED
        BY <1>3, <3>1
    <3>2. \A E \in SUBSET B : Cardinality(E) = n - 1 =>
              SumOver(f, A \cup E) = SumOver(f, A) + SumOver(f, E)
      BY <2>2, <3>3
    <3> HIDE DEF D, T
    <3> QED
      BY <2>2, <3>2
  <2>4. SumOver(f, C) = f[x] + SumOver(f, D)
    <3>1. IsFiniteSet(C) /\ \A y \in C : f[y] \in Nat
      BY <1>5
    <3> QED
      BY <3>1, SumTakes
  <2>5. SumOver(f, A \cup C) = f[x] + SumOver(f, A \cup D)
    <3>1. IsFiniteSet(A \cup C) /\ (\A y \in A \cup C : f[y] \in Nat) /\ (A \cup C) \ {x} = A \cup D
      BY <1>5, <2>1
    <3> QED
      BY <3>1, SumTakes
  <2>6. f[x] \in Nat /\ SumOver(f, A) \in Nat /\ SumOver(f, D) \in Nat
    BY <1>5, <2>2
  <2> QED
    BY <1>4, <2>3, <2>4, <2>5, <2>6
<1> QED
  BY <1>6, <1>7

\* C is a part of S made of A and B, that share nothing.
MadeOf(C, A, B, S) == C \subseteq S /\ C = A \cup B /\ A \cap B = {}

LEMMA SumOfParts ==
  ASSUME NEW S, NEW f, NEW A, NEW B, NEW C, Weighed(f, S), MadeOf(C, A, B, S)
  PROVE  SumOver(f, C) = SumOver(f, A) + SumOver(f, B)
<1>1. A \in SUBSET S /\ B \in SUBSET S /\ A \cap B = {} /\ C = A \cup B
  BY DEF MadeOf
<1>2. IsFiniteSet(S) /\ \A x \in S : f[x] \in Nat
  BY DEF Weighed
<1> QED
  BY <1>1, <1>2, SumOfBoth

\* A larger set has no smaller sum.
LEMMA SumGrows ==
  ASSUME NEW S, IsFiniteSet(S), NEW f, \A x \in S : f[x] \in Nat, NEW A \in SUBSET S
  PROVE  SumOver(f, A) <= SumOver(f, S)
<1>1. SumOver(f, A \cup (S \ A)) = SumOver(f, A) + SumOver(f, S \ A)
  BY SumOfBoth
<1>2. A \cup (S \ A) = S
  OBVIOUS
<1>3. \A D \in SUBSET S : SumOver(f, D) \in Nat
  BY FS_Subset, SumTyped
<1> QED
  BY <1>1, <1>2, <1>3

-----------------------------------------------------------------------------

\* A request answers "ok" exactly when its withdrawal row exists, and a review
\* is only ever about a row that exists.
RowExistsWhenAnswered ==
    /\ \A w \in Requests : withdrawal[w] # "none" <=> request[w] = "ok"
    /\ \A a \in Admins : admin[a].at # "idle" =>
          admin[a].w \in Requests /\ withdrawal[admin[a].w] # "none"

\* A debit is settled exactly when it names the withdrawal that absorbed it.
SettledNamesPayout ==
    \A s \in Shares :
        /\ share[s] = "settled" <=> settledBy[s] # None
        /\ settledBy[s] # None => withdrawal[settledBy[s]] # "none"

\* A request about to commit has read enough, all of it of its own partner.
ReadsCover ==
    \A w \in Requests :
        /\ \A c \in poolRead[w] : c[1] = RequestedBy[w]
        /\ request[w] = "commit" => Covers(poolRead[w], w, owedRead[w])

\* The inductive invariant: a payout stays funded because the rows that back
\* it and the debits it settled can be told from all others.
LedgerInv ==
    /\ TypeOK
    /\ RowExistsWhenAnswered
    /\ SettledNamesPayout
    /\ ReadsCover
    /\ WithdrawnBacksStandingPayout
    /\ PendingIsFunded

USE ConstantsAssumption

\* The ledger is in order at first: no payout, and no row out of the pool.
LEMMA InitLedger == Init => LedgerInv
<1> SUFFICES ASSUME Init PROVE LedgerInv
  OBVIOUS
<1>1. TypeOK
  BY DEF Init, TypeOK, Idle, Reviewing, NoBalance, Balances, Orders, Rows, RowStatus,
         WithdrawalStatus, RequestPoint, ReviewPoint
<1>2. RowExistsWhenAnswered /\ SettledNamesPayout /\ ReadsCover
  BY DEF Init, RowExistsWhenAnswered, SettledNamesPayout, ReadsCover, Idle, Reviewing
<1>3. WithdrawnBacksStandingPayout /\ PendingIsFunded
  BY DEF Init, WithdrawnBacksStandingPayout, PendingIsFunded
<1> QED BY <1>1, <1>2, <1>3 DEF LedgerInv

(* Each group of actions preserves LedgerInv. *)

\* A credit, whole, repeated or cut short, only adds pending rows.
LEMMA CreditPreserves ==
  ASSUME LedgerInv, NEW o \in Orders,
         StartCredit(o) \/ AbandonCredit(o) \/ \E p \in Partners : CreditPartner(o, p)
  PROVE  LedgerInv'
<1> USE DEF LedgerInv
<1> DEFINE OnlyNewRows ==
             /\ commission' \in [Rows -> RowStatus]
             /\ \A c \in Rows : \/ commission'[c] = commission[c]
                                \/ commission[c] = "absent" /\ commission'[c] = "pending"
<1>0. OnlyNewRows
  <2>1. CASE StartCredit(o) \/ AbandonCredit(o)
    BY <2>1 DEF TypeOK, StartCredit, AbandonCredit, rowVars
  <2>2. ASSUME NEW p \in Partners, CreditPartner(o, p) PROVE OnlyNewRows
    <3> DEFINE c0 == <<p, o>>
    <3>1. c0 \in Rows
      BY DEF Rows
    <3>2. \/ commission' = commission
          \/ commission[c0] = "absent" /\ commission' = [commission EXCEPT ![c0] = "pending"]
      BY <2>2 DEF CreditPartner
    <3> HIDE DEF c0
    <3> QED BY <3>1, <3>2 DEF TypeOK, RowStatus
  <2> QED BY <2>1, <2>2
<1>f. /\ UNCHANGED <<enabled, due, backs, share, settledBy, withdrawal, request, poolRead,
                     owedRead, admin, offboarded>>
      /\ crediting' \in [Orders -> SUBSET Partners]
  <2>1. CASE StartCredit(o) \/ AbandonCredit(o)
    BY <2>1 DEF TypeOK, StartCredit, AbandonCredit, rowVars, shareVars, requestVars
  <2>2. ASSUME NEW p \in Partners, CreditPartner(o, p)
        PROVE  /\ UNCHANGED <<enabled, due, backs, shareVars, withdrawal, requestVars, admin,
                              offboarded>>
               /\ crediting' = [crediting EXCEPT ![o] = @ \ {p}]
    BY <2>2, Zenon DEF CreditPartner
  <2> QED BY <2>1, <2>2 DEF TypeOK, shareVars, requestVars
<1> HIDE DEF OnlyNewRows
<1>1. TypeOK'
  BY <1>0, <1>f DEF TypeOK, OnlyNewRows
<1>2. RowExistsWhenAnswered' /\ SettledNamesPayout'
  BY DEF StartCredit, AbandonCredit, CreditPartner, rowVars, shareVars, requestVars,
         RowExistsWhenAnswered, SettledNamesPayout
<1>3. ReadsCover'
  BY DEF StartCredit, AbandonCredit, CreditPartner, requestVars, ReadsCover
<1>4. WithdrawnBacksStandingPayout'
  BY <1>0, <1>f DEF OnlyNewRows, WithdrawnBacksStandingPayout
<1>5. PendingIsFunded'
  BY DEF StartCredit, AbandonCredit, CreditPartner, rowVars, shareVars, PendingIsFunded,
         Backing, SettledWith
<1> QED BY <1>1, <1>2, <1>3, <1>4, <1>5

\* Maturity and reversal leave the rows that back a payout alone.
LEMMA MaturityAndReversalPreserve ==
  ASSUME LedgerInv, TransitionDuePending \/ \E o \in Orders : ReversePartners(o)
  PROVE  LedgerInv'
<1> USE DEF LedgerInv
<1>1. TypeOK'
  BY DEF TypeOK, TransitionDuePending, ReversePartners, creditVars, shareVars, requestVars,
         RowStatus
<1>2. RowExistsWhenAnswered' /\ SettledNamesPayout' /\ ReadsCover'
  BY DEF TransitionDuePending, ReversePartners, shareVars, requestVars,
         RowExistsWhenAnswered, SettledNamesPayout, ReadsCover
<1>3. WithdrawnBacksStandingPayout'
  BY DEF TypeOK, TransitionDuePending, ReversePartners, IsDue, WithdrawnBacksStandingPayout
<1>4. PendingIsFunded'
  BY DEF TransitionDuePending, ReversePartners, shareVars, PendingIsFunded, Backing, SettledWith
<1> QED BY <1>1, <1>2, <1>3, <1>4

\* The clock and the pool of partners touch no row.
LEMMA ClockAndPoolPreserve ==
  ASSUME LedgerInv, Tick \/ \E p \in Partners : SetEnabled(p)
  PROVE  LedgerInv'
<1> USE DEF LedgerInv
<1>1. TypeOK'
  BY DEF TypeOK, Tick, SetEnabled, rowVars, shareVars, requestVars
<1>2. RowExistsWhenAnswered' /\ SettledNamesPayout' /\ ReadsCover'
  BY DEF Tick, SetEnabled, shareVars, requestVars,
         RowExistsWhenAnswered, SettledNamesPayout, ReadsCover
<1>3. WithdrawnBacksStandingPayout' /\ PendingIsFunded'
  BY DEF Tick, SetEnabled, rowVars, shareVars, WithdrawnBacksStandingPayout, PendingIsFunded,
         Backing, SettledWith
<1> QED BY <1>1, <1>2, <1>3

\* A new or deleted cost touches no debit that is settled.
LEMMA CostsPreserve ==
  ASSUME LedgerInv, NEW k \in Costs, CreateCost(k) \/ DeleteCost(k)
  PROVE  LedgerInv'
<1> USE DEF LedgerInv
<1>1. TypeOK'
  BY DEF TypeOK, CreateCost, DeleteCost, creditVars, rowVars, requestVars
<1>2. RowExistsWhenAnswered' /\ ReadsCover'
  BY DEF CreateCost, DeleteCost, requestVars, RowExistsWhenAnswered, ReadsCover
<1>3. SettledNamesPayout'
  BY DEF TypeOK, CreateCost, DeleteCost, SettledNamesPayout, Shares
<1>4. WithdrawnBacksStandingPayout' /\ PendingIsFunded'
  BY DEF CreateCost, DeleteCost, rowVars, WithdrawnBacksStandingPayout, PendingIsFunded,
         Backing, SettledWith
<1> QED BY <1>1, <1>2, <1>3, <1>4

\* The reads of a request, a refusal and a conflict write nothing.
LEMMA ReadsPreserve ==
  ASSUME LedgerInv, NEW w \in Requests,
         ReadPool(w) \/ ReadShares(w) \/ \E S \in SUBSET poolRead[w] : Conflict(w, S)
  PROVE  LedgerInv'
<1> USE DEF LedgerInv
<1>1. TypeOK'
  BY DEF TypeOK, ReadPool, ReadShares, Conflict, Return, creditVars, rowVars, shareVars,
         RequestPoint, RowsOf, OpenSharesOf
<1>2. RowExistsWhenAnswered' /\ SettledNamesPayout'
  BY DEF TypeOK, ReadPool, ReadShares, Conflict, Return, shareVars,
         RowExistsWhenAnswered, SettledNamesPayout, RequestPoint
<1>3. ReadsCover'
  BY DEF TypeOK, ReadPool, ReadShares, Conflict, Return, ReadsCover, RowsOf
<1>4. WithdrawnBacksStandingPayout' /\ PendingIsFunded'
  BY DEF ReadPool, ReadShares, Conflict, rowVars, shareVars, WithdrawnBacksStandingPayout,
         PendingIsFunded, Backing, SettledWith
<1> QED BY <1>1, <1>2, <1>3, <1>4

\* A commit takes nothing that another payout holds.
LEMMA CommitFrame ==
  ASSUME LedgerInv, NEW w \in Requests, NEW S \in SUBSET poolRead[w], Commit(w, S),
         NEW v \in Requests, v # w
  PROVE  /\ Backing(v)' = Backing(v)
         /\ SettledWith(v)' = SettledWith(v)
         /\ withdrawal'[v] = withdrawal[v]
<1> USE DEF LedgerInv
<1>1. S \subseteq Rows /\ owedRead[w] \subseteq Shares
  BY DEF TypeOK
<1>2. Backing(v)' = Backing(v)
  BY <1>1 DEF TypeOK, Commit, Unchanged, Backing, WithdrawnBacksStandingPayout
<1>3. SettledWith(v)' = SettledWith(v)
  BY <1>1 DEF TypeOK, Commit, Unchanged, SettledWith, SettledNamesPayout
<1>4. withdrawal'[v] = withdrawal[v]
  BY DEF TypeOK, Commit
<1> QED BY <1>2, <1>3, <1>4

\* A rejection frees the rows of its own payout only.
LEMMA RejectFrame ==
  ASSUME LedgerInv, NEW a \in Admins, Reject(a), NEW v \in Requests, v # admin[a].w
  PROVE  /\ Backing(v)' = Backing(v)
         /\ SettledWith(v)' = SettledWith(v)
         /\ withdrawal'[v] = withdrawal[v]
<1> USE DEF LedgerInv
<1>1. admin[a].w \in Requests
  BY DEF Reject, RowExistsWhenAnswered
<1>2. Backing(v)' = Backing(v)
  BY <1>1 DEF TypeOK, Reject, Backing
<1>3. SettledWith(v)' = SettledWith(v) /\ withdrawal'[v] = withdrawal[v]
  BY <1>1 DEF TypeOK, Reject, shareVars, SettledWith
<1> QED BY <1>2, <1>3

\* The heart of the ledger: the commit takes rows and debits that nobody holds,
\* so that the new payout is funded and no other one loses anything.
LEMMA CommitPreserves ==
  ASSUME LedgerInv, NEW w \in Requests, NEW S \in SUBSET poolRead[w], Commit(w, S)
  PROVE  LedgerInv'
<1> USE DEF LedgerInv
<1> DEFINE D == owedRead[w]
<1>1. S \subseteq Rows /\ D \subseteq Shares
  BY DEF TypeOK
<1>2. withdrawal[w] = "none" /\ request[w] = "commit"
  BY DEF TypeOK, Commit, RowExistsWhenAnswered
<1>3. TypeOK'
  BY <1>1 DEF TypeOK, Commit, Return, creditVars, RowStatus, WithdrawalStatus, RequestPoint
<1>4. RowExistsWhenAnswered'
  BY DEF TypeOK, Commit, Return, RowExistsWhenAnswered
<1>5. SettledNamesPayout'
  BY <1>1 DEF TypeOK, Commit, SettledNamesPayout
<1>6. ReadsCover'
  BY DEF TypeOK, Commit, Return, ReadsCover
<1>7. WithdrawnBacksStandingPayout'
  BY <1>1, <1>2 DEF TypeOK, Commit, ReadsCover, WithdrawnBacksStandingPayout
<1>8. ASSUME NEW v \in Requests, withdrawal'[v] = "pending"
      PROVE  Covers(Backing(v)', v, SettledWith(v)')
  <2>1. CASE v = w
    <3>1. Backing(w)' = S
      BY <1>1, <1>2 DEF Commit, Backing, WithdrawnBacksStandingPayout
    <3>2. SettledWith(w)' = D
      BY <1>1, <1>2 DEF Commit, SettledWith, SettledNamesPayout
    <3>3. Covers(S, w, D)
      BY DEF Commit, Consumed, ReadsCover
    <3> QED BY <2>1, <3>1, <3>2, <3>3
  <2>2. CASE v # w
    BY <1>8, <2>2, CommitFrame DEF PendingIsFunded
  <2> QED BY <2>1, <2>2
<1>9. PendingIsFunded'
  BY <1>8 DEF PendingIsFunded, Covers
<1> QED BY <1>3, <1>4, <1>5, <1>6, <1>7, <1>9

\* A review starts on a payout that exists.
LEMMA ReviewPreserves ==
  ASSUME LedgerInv, NEW a \in Admins,
         NEW w \in Requests, NEW decision \in {"approve", "reject"}, Review(a, w, decision)
  PROVE  LedgerInv'
<1> USE DEF LedgerInv
<1>1. TypeOK'
  BY DEF TypeOK, Review, Reviewing, NoBalance, Balances, creditVars, rowVars, shareVars,
         requestVars, ReviewPoint
<1>2. RowExistsWhenAnswered'
  BY DEF TypeOK, Review, Reviewing, requestVars, RowExistsWhenAnswered
<1>3. SettledNamesPayout' /\ ReadsCover' /\ WithdrawnBacksStandingPayout' /\ PendingIsFunded'
  BY DEF Review, rowVars, shareVars, requestVars, SettledNamesPayout, ReadsCover,
         WithdrawnBacksStandingPayout, PendingIsFunded, Backing, SettledWith
<1> QED BY <1>1, <1>2, <1>3

\* A payment leaves the rows with their payout.
LEMMA ApprovePreserves ==
  ASSUME LedgerInv, NEW a \in Admins, Approve(a)
  PROVE  LedgerInv'
<1> USE DEF LedgerInv
<1> DEFINE w == admin[a].w
<1>1. w \in Requests /\ withdrawal[w] # "none"
  BY DEF Approve, RowExistsWhenAnswered
<1>2. TypeOK'
  BY <1>1 DEF TypeOK, Approve, Idle, Reviewing, NoBalance, Balances, creditVars, rowVars,
              shareVars, requestVars, ReviewPoint, WithdrawalStatus
<1>3. RowExistsWhenAnswered'
  BY <1>1 DEF TypeOK, Approve, Idle, Reviewing, requestVars, RowExistsWhenAnswered
<1>4. SettledNamesPayout' /\ ReadsCover'
  BY <1>1 DEF TypeOK, Approve, shareVars, requestVars, SettledNamesPayout, ReadsCover
<1>5. WithdrawnBacksStandingPayout' /\ PendingIsFunded'
  BY <1>1 DEF TypeOK, Approve, rowVars, shareVars, WithdrawnBacksStandingPayout,
              PendingIsFunded, Backing, SettledWith
<1> QED BY <1>2, <1>3, <1>4, <1>5

\* A rejection gives back its rows, and takes none from another payout.
LEMMA RejectPreserves ==
  ASSUME LedgerInv, NEW a \in Admins, Reject(a)
  PROVE  LedgerInv'
<1> USE DEF LedgerInv
<1> DEFINE w == admin[a].w
<1>1. w \in Requests /\ withdrawal[w] # "none"
  BY DEF Reject, RowExistsWhenAnswered
<1>2. TypeOK'
  BY <1>1 DEF TypeOK, Reject, Idle, Reviewing, NoBalance, Balances, creditVars, shareVars,
              requestVars, ReviewPoint, WithdrawalStatus, RowStatus
<1>3. RowExistsWhenAnswered'
  BY <1>1 DEF TypeOK, Reject, Idle, Reviewing, requestVars, RowExistsWhenAnswered
<1>4. SettledNamesPayout' /\ ReadsCover'
  BY <1>1 DEF TypeOK, Reject, shareVars, requestVars, SettledNamesPayout, ReadsCover
<1>5. WithdrawnBacksStandingPayout'
  BY <1>1 DEF TypeOK, Reject, WithdrawnBacksStandingPayout
<1>6. ASSUME NEW v \in Requests, withdrawal'[v] = "pending"
      PROVE  Covers(Backing(v)', v, SettledWith(v)')
  <2>1. v # w /\ withdrawal[v] = "pending"
    BY <1>1, <1>6 DEF TypeOK, Reject
  <2> QED BY <2>1, RejectFrame DEF PendingIsFunded
<1>7. PendingIsFunded'
  BY <1>6 DEF PendingIsFunded, Covers
<1> QED BY <1>2, <1>3, <1>4, <1>5, <1>7

\* The automatic offboarding reads balances and touches no row.
LEMMA OffboardPreserves ==
  ASSUME LedgerInv, NEW a \in Admins,
         \/ \E part \in BalancePart : ReadAggregate(a, part)
         \/ CheckBalance(a) \/ CountPending(a) \/ Scrub(a)
  PROVE  LedgerInv'
<1> USE DEF LedgerInv
<1>1. admin[a].at # "idle" /\ admin[a].w \in Requests /\ withdrawal[admin[a].w] # "none"
  BY DEF ReadAggregate, CheckBalance, CountPending, Scrub, RowExistsWhenAnswered
<1>2. TypeOK'
  <2>1. CASE \E part \in BalancePart : ReadAggregate(a, part)
    <3> PICK part \in BalancePart : ReadAggregate(a, part)
      BY <2>1
    <3> DEFINE total == Worth(RowsOf(RequestedBy[admin[a].w], {part}))
    <3>1. total \in Balances
      BY DEF RowsOf, Balances
    <3>2. admin[a].read \in [BalancePart -> Balances]
      BY DEF TypeOK
    <3>3. [admin[a].read EXCEPT ![part] = total] \in [BalancePart -> Balances]
      <4> HIDE DEF total
      <4> QED BY <3>1, <3>2
    <3>4. admin' \in [Admins -> [at : ReviewPoint, w : Requests \cup {None},
                                 read : [BalancePart -> Balances]]]
      BY <1>1, <3>3 DEF TypeOK, ReadAggregate, ReviewPoint
    <3> QED BY <3>4 DEF TypeOK, ReadAggregate, creditVars, rowVars, shareVars, requestVars
  <2>2. CASE CheckBalance(a) \/ CountPending(a) \/ Scrub(a)
    BY <1>1, <2>2 DEF TypeOK, CheckBalance, CountPending, Scrub, Idle, Reviewing, NoBalance,
                      Balances, creditVars, rowVars, shareVars, requestVars, ReviewPoint
  <2> QED BY <2>1, <2>2
<1>3. RowExistsWhenAnswered'
  <2>1. admin'[a].at # "idle" => admin'[a].w = admin[a].w
    <3>1. ASSUME NEW part \in BalancePart, ReadAggregate(a, part)
          PROVE  admin'[a].w = admin[a].w
      BY <3>1 DEF TypeOK, ReadAggregate
    <3>2. CASE CheckBalance(a) \/ CountPending(a) \/ Scrub(a)
      BY <1>1, <3>2 DEF TypeOK, CheckBalance, CountPending, Scrub, Idle, Reviewing
    <3> QED BY <3>1, <3>2
  <2>2. \A b \in Admins \ {a} : admin'[b] = admin[b]
    BY DEF TypeOK, ReadAggregate, CheckBalance, CountPending, Scrub
  <2>3. UNCHANGED <<withdrawal, request>>
    BY DEF ReadAggregate, CheckBalance, CountPending, Scrub, requestVars
  <2> QED BY <1>1, <2>1, <2>2, <2>3 DEF RowExistsWhenAnswered
<1>4. UNCHANGED <<commission, backs, share, settledBy, withdrawal, request, poolRead, owedRead>>
  BY DEF ReadAggregate, CheckBalance, CountPending, Scrub, rowVars, shareVars, requestVars
<1>5. SettledNamesPayout' /\ ReadsCover' /\ WithdrawnBacksStandingPayout' /\ PendingIsFunded'
  BY <1>4 DEF SettledNamesPayout, ReadsCover, WithdrawnBacksStandingPayout, PendingIsFunded,
              Backing, SettledWith
<1> QED BY <1>2, <1>3, <1>5

\* What LedgerInv speaks of are variables of the ledger.
LEMMA StutterPreserves == LedgerInv /\ UNCHANGED vars => LedgerInv'
BY DEF LedgerInv, vars, creditVars, rowVars, shareVars, requestVars, TypeOK,
       RowExistsWhenAnswered, SettledNamesPayout, ReadsCover, WithdrawnBacksStandingPayout,
       PendingIsFunded, Backing, SettledWith

\* LedgerInv is inductive.
LEMMA NextPreserves == LedgerInv /\ [Next]_vars => LedgerInv'
<1> SUFFICES ASSUME LedgerInv, [Next]_vars PROVE LedgerInv'
  OBVIOUS
<1>1. ASSUME NEW o \in Orders, OrderStep(o) PROVE LedgerInv'
  BY <1>1, CreditPreserves, MaturityAndReversalPreserve DEF OrderStep
<1>2. CASE Tick \/ \E p \in Partners : SetEnabled(p)
  BY <1>2, ClockAndPoolPreserve
<1>3. CASE TransitionDuePending
  BY <1>3, MaturityAndReversalPreserve
<1>4. ASSUME NEW k \in Costs, CreateCost(k) \/ DeleteCost(k) PROVE LedgerInv'
  BY <1>4, CostsPreserve
<1>5. ASSUME NEW w \in Requests, RequestStep(w) PROVE LedgerInv'
  BY <1>5, ReadsPreserve, CommitPreserves DEF RequestStep
<1>6. ASSUME NEW a \in Admins, AdminStep(a) PROVE LedgerInv'
  BY <1>6, ReviewPreserves, ApprovePreserves, RejectPreserves, OffboardPreserves DEF AdminStep
<1>7. CASE UNCHANGED vars
  BY <1>7, StutterPreserves
<1> QED BY <1>1, <1>2, <1>3, <1>4, <1>5, <1>6, <1>7 DEF Next

\* The inductive invariant holds, for all values of the constants.
THEOREM LedgerInvariant == Spec => []LedgerInv
<1>1. Init => LedgerInv
  BY InitLedger
<1>2. LedgerInv /\ [Next]_vars => LedgerInv'
  BY NextPreserves
<1> QED BY <1>1, <1>2, PTL DEF Spec

\* Every variable keeps its type, for all values of the constants.
THEOREM LedgerTypes == Spec => []TypeOK
<1>1. LedgerInv => TypeOK
  BY DEF LedgerInv
<1> QED BY <1>1, LedgerInvariant, PTL

\* A withdrawal waiting for review is funded by rows and debits of its own, for
\* any number of requests, reviewers, sales and costs and any amounts.
THEOREM PendingAlwaysFunded == Spec => []PendingIsFunded
<1>1. LedgerInv => PendingIsFunded
  BY DEF LedgerInv
<1> QED BY <1>1, LedgerInvariant, PTL

\* No commission is stranded: it is withdrawn exactly while it backs a payout
\* that stands, even when two reviewers decide the same withdrawal at once.
THEOREM WithdrawnAlwaysBacks == Spec => []WithdrawnBacksStandingPayout
<1>1. LedgerInv => WithdrawnBacksStandingPayout
  BY DEF LedgerInv
<1> QED BY <1>1, LedgerInvariant, PTL

\* A reversed commission never comes back, whatever a withdrawal, a rejection
\* or the maturity tick had read before the refund.
THEOREM ReversalStays == Spec => ReversalIsFinal
<1> DEFINE Kept == \A c \in Rows : commission[c] = "refunded" => commission'[c] = "refunded"
<1>1. LedgerInv /\ [Next]_vars => [Kept]_vars
  <2> SUFFICES ASSUME LedgerInv, Next PROVE Kept
    OBVIOUS
  <2> USE DEF LedgerInv, TypeOK
  <2>1. ASSUME NEW o \in Orders, NEW p \in Partners, CreditPartner(o, p) PROVE Kept
    <3> DEFINE c0 == <<p, o>>
    <3>1. \/ commission' = commission
          \/ commission[c0] = "absent" /\ commission' = [commission EXCEPT ![c0] = "pending"]
      BY <2>1 DEF CreditPartner
    <3> HIDE DEF c0
    <3> QED BY <3>1
  <2>2. ASSUME NEW o \in Orders, StartCredit(o) \/ AbandonCredit(o) \/ ReversePartners(o)
        PROVE  Kept
    BY <2>2 DEF StartCredit, AbandonCredit, ReversePartners, rowVars
  <2>3. ASSUME NEW w \in Requests, RequestStep(w) PROVE Kept
    BY <2>3 DEF RequestStep, ReadPool, ReadShares, Conflict, Commit, Unchanged, rowVars
  <2>4. ASSUME NEW a \in Admins, AdminStep(a) PROVE Kept
    <3>1. CASE Reject(a)
      BY <3>1 DEF Reject
    <3>2. CASE AdminStep(a) /\ ~Reject(a)
      BY <3>2 DEF AdminStep, Review, Approve, ReadAggregate, CheckBalance, CountPending, Scrub,
                  rowVars
    <3> QED BY <2>4, <3>1, <3>2
  <2>5. CASE \/ Tick \/ TransitionDuePending
             \/ \E p \in Partners : SetEnabled(p)
             \/ \E k \in Costs : CreateCost(k) \/ DeleteCost(k)
    BY <2>5 DEF Tick, TransitionDuePending, IsDue, SetEnabled, CreateCost, DeleteCost, rowVars
  <2> QED BY <2>1, <2>2, <2>3, <2>4, <2>5 DEF Next, OrderStep
<1> QED BY <1>1, LedgerInvariant, PTL DEF Spec, ReversalIsFinal

-----------------------------------------------------------------------------
(* One reviewer at a time: a paid payout keeps its funding. *)

OneReviewer == \A a, b \in Admins : a = b

ReviewedIsPending ==
    \A a \in Admins : admin[a].at \in {"approve", "reject"} => withdrawal[admin[a].w] = "pending"

\* With one reviewer, what a review read of its payout stays true.
LEMMA ReviewStep ==
  ASSUME OneReviewer, LedgerInv, ReviewedIsPending, PaidStaysFunded, [Next]_vars
  PROVE  ReviewedIsPending' /\ PaidStaysFunded'
<1> USE DEF LedgerInv
<1>1. ASSUME NEW w \in Requests, NEW S \in SUBSET poolRead[w], Commit(w, S)
      PROVE  ReviewedIsPending' /\ PaidStaysFunded'
  <2>1. withdrawal[w] = "none" /\ withdrawal'[w] = "pending" /\ admin' = admin
    BY <1>1 DEF TypeOK, Commit, RowExistsWhenAnswered
  <2>2. ReviewedIsPending'
    BY <1>1, <2>1, CommitFrame DEF ReviewedIsPending, RowExistsWhenAnswered
  <2>3. PaidStaysFunded'
    BY <1>1, <2>1, CommitFrame DEF PaidStaysFunded, Covers
  <2> QED BY <2>2, <2>3
<1>2. ASSUME NEW a \in Admins, Reject(a)
      PROVE  ReviewedIsPending' /\ PaidStaysFunded'
  <2>1. admin[a].w \in Requests /\ withdrawal'[admin[a].w] = "rejected" /\ admin'[a].at = "idle"
    BY <1>2 DEF TypeOK, Reject, RowExistsWhenAnswered, Idle, Reviewing
  <2>2. ReviewedIsPending'
    BY <2>1 DEF ReviewedIsPending, OneReviewer
  <2>3. PaidStaysFunded'
    BY <1>2, <2>1, RejectFrame DEF PaidStaysFunded, Covers
  <2> QED BY <2>2, <2>3
<1>3. ASSUME NEW a \in Admins, Approve(a)
      PROVE  ReviewedIsPending' /\ PaidStaysFunded'
  <2>1. /\ admin[a].w \in Requests
        /\ withdrawal[admin[a].w] = "pending"
        /\ withdrawal' = [withdrawal EXCEPT ![admin[a].w] = "paid"]
        /\ UNCHANGED <<backs, settledBy>>
    BY <1>3 DEF Approve, RowExistsWhenAnswered, ReviewedIsPending, rowVars, shareVars
  <2>2. admin'[a].at \in {"idle", "offboard"}
    BY <1>3 DEF TypeOK, Approve, Idle, Reviewing
  <2>3. ReviewedIsPending'
    BY <2>2 DEF ReviewedIsPending, OneReviewer
  <2>4. PaidStaysFunded'
    BY <2>1 DEF TypeOK, PaidStaysFunded, PendingIsFunded, Backing, SettledWith
  <2> QED BY <2>3, <2>4
<1>4. ASSUME UNCHANGED <<backs, settledBy, withdrawal>>
      PROVE  PaidStaysFunded'
  BY <1>4 DEF PaidStaysFunded, Backing, SettledWith
<1>5. ASSUME NEW a \in Admins, NEW w \in Requests, NEW d \in {"approve", "reject"}, Review(a, w, d)
      PROVE  ReviewedIsPending' /\ PaidStaysFunded'
  <2>1. admin'[a].w = w /\ withdrawal'[w] = "pending"
    BY <1>5 DEF TypeOK, Review, Reviewing
  <2>2. ReviewedIsPending'
    BY <2>1 DEF ReviewedIsPending, OneReviewer
  <2> QED BY <1>4, <1>5, <2>2 DEF Review, rowVars, shareVars
<1>6. ASSUME NEW a \in Admins, \/ \E part \in BalancePart : ReadAggregate(a, part)
                               \/ CheckBalance(a) \/ CountPending(a) \/ Scrub(a)
      PROVE  ReviewedIsPending' /\ PaidStaysFunded'
  <2>1. admin'[a].at \notin {"approve", "reject"}
    <3>1. ASSUME NEW part \in BalancePart, ReadAggregate(a, part)
          PROVE  admin'[a].at = "offboard"
      BY <3>1 DEF TypeOK, ReadAggregate
    <3>2. CASE CheckBalance(a) \/ CountPending(a) \/ Scrub(a)
      BY <3>2 DEF TypeOK, CheckBalance, CountPending, Scrub, Idle, Reviewing
    <3> QED BY <1>6, <3>1, <3>2
  <2>2. UNCHANGED <<backs, settledBy, withdrawal>>
    BY <1>6 DEF ReadAggregate, CheckBalance, CountPending, Scrub, rowVars, shareVars
  <2>3. ReviewedIsPending'
    BY <2>1 DEF ReviewedIsPending, OneReviewer
  <2> QED BY <1>4, <2>2, <2>3
<1>7. ASSUME UNCHANGED <<backs, settledBy, withdrawal, admin>>
      PROVE  ReviewedIsPending' /\ PaidStaysFunded'
  BY <1>4, <1>7 DEF ReviewedIsPending
<1>8. ASSUME NEW w \in Requests,
             ReadPool(w) \/ ReadShares(w) \/ \E S \in SUBSET poolRead[w] : Conflict(w, S)
      PROVE  UNCHANGED <<backs, settledBy, withdrawal, admin>>
  BY <1>8 DEF ReadPool, ReadShares, Conflict, rowVars, shareVars
<1>9. ASSUME NEW o \in Orders, OrderStep(o)
      PROVE  UNCHANGED <<backs, settledBy, withdrawal, admin>>
  <2>1. ASSUME NEW p \in Partners, CreditPartner(o, p)
        PROVE  UNCHANGED <<backs, shareVars, withdrawal, admin>>
    BY <2>1, Zenon DEF CreditPartner
  <2>2. CASE StartCredit(o) \/ AbandonCredit(o) \/ ReversePartners(o)
    BY <2>2 DEF StartCredit, AbandonCredit, ReversePartners, rowVars, shareVars
  <2> QED BY <1>9, <2>1, <2>2 DEF OrderStep, shareVars
<1>10. ASSUME \/ Tick \/ TransitionDuePending
              \/ \E p \in Partners : SetEnabled(p)
              \/ \E k \in Costs : CreateCost(k) \/ DeleteCost(k)
              \/ UNCHANGED vars
       PROVE  UNCHANGED <<backs, settledBy, withdrawal, admin>>
  BY <1>10 DEF Tick, TransitionDuePending, SetEnabled, CreateCost, DeleteCost, rowVars,
               shareVars, vars
<1> QED BY <1>1, <1>2, <1>3, <1>5, <1>6, <1>7, <1>8, <1>9, <1>10
        DEF Next, RequestStep, AdminStep

\* When reviews are made one at a time, a payout that was paid stays funded, so
\* that no commission is ever paid twice.
THEOREM PaidOnce == OneReviewer => (Spec => []PaidStaysFunded)
<1> SUFFICES ASSUME OneReviewer PROVE Spec => []PaidStaysFunded
  OBVIOUS
<1>1. Init => ReviewedIsPending /\ PaidStaysFunded
  BY DEF Init, ReviewedIsPending, PaidStaysFunded, Idle, Reviewing
<1>2. LedgerInv /\ (ReviewedIsPending /\ PaidStaysFunded) /\ [Next]_vars
        => (ReviewedIsPending /\ PaidStaysFunded)'
  BY ReviewStep
<1> QED BY <1>1, <1>2, LedgerInvariant, PTL DEF Spec

-----------------------------------------------------------------------------
(* Nobody is paid more than his sales are worth. *)

BackingAny(W) == {c \in Rows : backs[c] \in W}

LEMMA FiniteTables == IsFiniteSet(Rows) /\ IsFiniteSet(Shares) /\ IsFiniteSet(Requests)
<1>1. IsFiniteSet(Orders)
  BY FS_Interval DEF Orders
<1>2. IsFiniteSet(Rows)
  BY <1>1, FS_Product DEF Rows
<1>3. IsFiniteSet(Shares)
  BY FS_Product DEF Shares
<1> QED
  BY <1>2, <1>3

\* Amounts are sums.
LEMMA Amounts ==
  /\ \A S \in SUBSET Rows : Worth(S) = SumOver(CommissionAmount, S) /\ Worth(S) \in Nat
  /\ \A D \in SUBSET Shares : Owed(D) = SumOver(ShareAmount, D) /\ Owed(D) \in Nat
  /\ \A W \in SUBSET Requests : SumOver(AmountRequested, W) \in Nat
<1>1. \A S \in SUBSET Rows : Worth(S) = SumOver(CommissionAmount, S)
  BY DEF Worth, SumOver
<1>2. \A D \in SUBSET Shares : Owed(D) = SumOver(ShareAmount, D)
  BY DEF Owed, SumOver
<1>3. ASSUME NEW S \in SUBSET Rows PROVE SumOver(CommissionAmount, S) \in Nat
  <2>1. IsFiniteSet(S) /\ \A c \in S : CommissionAmount[c] \in Nat
    BY FiniteTables, FS_Subset
  <2> QED
    BY <2>1, SumTyped
<1>4. ASSUME NEW D \in SUBSET Shares PROVE SumOver(ShareAmount, D) \in Nat
  <2>1. IsFiniteSet(D) /\ \A s \in D : ShareAmount[s] \in Nat
    BY FiniteTables, FS_Subset
  <2> QED
    BY <2>1, SumTyped
<1>5. ASSUME NEW W \in SUBSET Requests PROVE SumOver(AmountRequested, W) \in Nat
  <2>1. IsFiniteSet(W) /\ \A w \in W : AmountRequested[w] \in Nat
    BY FiniteTables, FS_Subset
  <2> QED
    BY <2>1, SumTyped
<1> QED
  BY <1>1, <1>2, <1>3, <1>4, <1>5

\* Payouts that are funded one by one are funded together, since no row and no debit
\* belongs to two of them.
CoveredTogether(W) ==
    SumOver(AmountRequested, W) + Owed(SettledBy(W)) <= Worth(BackingAny(W))

LEMMA OneMoreCovered ==
  ASSUME NEW W \in SUBSET Requests, NEW w \in W,
         CoveredTogether(W \ {w}), Covers(Backing(w), w, SettledWith(w))
  PROVE  CoveredTogether(W)
<1> DEFINE V == W \ {w}
<1>1. SumOver(AmountRequested, W) = AmountRequested[w] + SumOver(AmountRequested, V)
  <2>1. IsFiniteSet(W) /\ \A v \in W : AmountRequested[v] \in Nat
    BY FiniteTables, FS_Subset
  <2> QED
    BY <2>1, SumTakes
<1>2. Owed(SettledBy(W)) = Owed(SettledBy(V)) + Owed(SettledWith(w))
  <2>1. /\ SettledBy(V) \in SUBSET Shares /\ SettledWith(w) \in SUBSET Shares
        /\ SettledBy(V) \cap SettledWith(w) = {}
        /\ SettledBy(W) = SettledBy(V) \cup SettledWith(w)
    BY DEF SettledBy, SettledWith
  <2>2. Weighed(ShareAmount, Shares) /\ MadeOf(SettledBy(W), SettledBy(V), SettledWith(w), Shares)
    BY <2>1, FiniteTables DEF Weighed, MadeOf
  <2>3. SumOver(ShareAmount, SettledBy(W))
          = SumOver(ShareAmount, SettledBy(V)) + SumOver(ShareAmount, SettledWith(w))
    BY <2>2, SumOfParts
  <2> QED
    BY <2>1, <2>3, Amounts
<1>3. Worth(BackingAny(W)) = Worth(BackingAny(V)) + Worth(Backing(w))
  <2>1. /\ BackingAny(V) \in SUBSET Rows /\ Backing(w) \in SUBSET Rows
        /\ BackingAny(V) \cap Backing(w) = {}
        /\ BackingAny(W) = BackingAny(V) \cup Backing(w)
    BY DEF BackingAny, Backing
  <2>2. Weighed(CommissionAmount, Rows) /\ MadeOf(BackingAny(W), BackingAny(V), Backing(w), Rows)
    BY <2>1, FiniteTables DEF Weighed, MadeOf
  <2>3. SumOver(CommissionAmount, BackingAny(W))
          = SumOver(CommissionAmount, BackingAny(V)) + SumOver(CommissionAmount, Backing(w))
    BY <2>2, SumOfParts
  <2> QED
    BY <2>1, <2>3, Amounts
<1>4. SumOver(AmountRequested, V) + Owed(SettledBy(V)) <= Worth(BackingAny(V))
  BY DEF CoveredTogether
<1>5. AmountRequested[w] + Owed(SettledWith(w)) <= Worth(Backing(w))
  <2>1. /\ AmountRequested[w] \in Nat
        /\ Owed(SettledWith(w)) \in Nat /\ Worth(Backing(w)) \in Nat
    BY Amounts DEF SettledWith, Backing
  <2> QED
    BY <2>1 DEF Covers
<1>6. /\ AmountRequested[w] \in Nat /\ SumOver(AmountRequested, V) \in Nat
      /\ Owed(SettledBy(V)) \in Nat /\ Owed(SettledWith(w)) \in Nat
      /\ Worth(BackingAny(V)) \in Nat /\ Worth(Backing(w)) \in Nat
  BY Amounts DEF SettledBy, SettledWith, BackingAny, Backing
<1> HIDE DEF V
<1> QED
  BY <1>1, <1>2, <1>3, <1>4, <1>5, <1>6 DEF CoveredTogether

LEMMA AllCovered ==
  ASSUME NEW W \in SUBSET Requests, \A w \in W : Covers(Backing(w), w, SettledWith(w))
  PROVE  CoveredTogether(W)
<1> DEFINE T == {n \in Nat : \E V \in SUBSET W : Cardinality(V) = n /\ ~CoveredTogether(V)}
<1>1. IsFiniteSet(W)
  BY FiniteTables, FS_Subset
<1>2. SUFFICES ASSUME T # {} PROVE FALSE
  BY <1>1, SubsetCards
<1>3. PICK n \in T : \A m \in T : n <= m
  BY <1>2, LeastOf
<1>4. PICK V \in SUBSET W : Cardinality(V) = n /\ ~CoveredTogether(V)
  BY <1>3
<1>5. V # {}
  <2>1. SettledBy({}) = {} /\ BackingAny({}) = {}
    BY DEF SettledBy, BackingAny
  <2>2. SumOver(AmountRequested, {}) = 0
    BY SumOfNone
  <2>3. Owed(SettledBy({})) = 0 /\ Worth(BackingAny({})) = 0
    <3>1. Owed({}) = 0 /\ Worth({}) = 0
      BY SumOfNone, Amounts
    <3> QED
      BY <2>1, <3>1
  <2>4. CoveredTogether({})
    <3>1. 0 + 0 <= 0
      OBVIOUS
    <3> QED
      BY <2>2, <2>3, <3>1 DEF CoveredTogether
  <2> QED
    BY <1>4, <2>4
<1>6. PICK w \in V : TRUE
  BY <1>5
<1>7. V \ {w} \in SUBSET W /\ Cardinality(V \ {w}) = n - 1 /\ n - 1 \in Nat
  BY <1>1, <1>4, <1>6, SubsetCards
<1>8. n - 1 \notin T
  <2>1. n \in Nat /\ ~(n <= n - 1)
    BY <1>3
  <2> HIDE DEF T
  <2> QED
    BY <1>3, <2>1
<1>9. CoveredTogether(V \ {w})
  BY <1>7, <1>8
<1> QED
  BY <1>4, <1>6, <1>9, OneMoreCovered

\* With one reviewer, a partner's payouts never exceed what his sales are worth, for any
\* number of partners, sales, costs and requests and any amounts.
THEOREM NobodyOverpaid == OneReviewer => (Spec => []NeverOverpaid)
<1> SUFFICES ASSUME OneReviewer PROVE Spec => []NeverOverpaid
  OBVIOUS
<1>1. LedgerInv /\ PaidStaysFunded => NeverOverpaid
  <2> SUFFICES ASSUME LedgerInv, PaidStaysFunded, NEW p \in Partners
               PROVE  SumOver(AmountRequested, Standing(p)) + Owed(SettledBy(Standing(p)))
                          <= Worth(RowsOf(p, {"withdrawn"}))
    BY DEF NeverOverpaid, SumOver
  <2> DEFINE W == Standing(p)
             R == RowsOf(p, {"withdrawn"})
  <2>1. W \in SUBSET Requests /\ \A w \in W : Covers(Backing(w), w, SettledWith(w))
    BY DEF Standing, LedgerInv, PendingIsFunded, PaidStaysFunded
  <2>2. CoveredTogether(W)
    BY <2>1, AllCovered
  <2>3. BackingAny(W) \subseteq R /\ R \subseteq Rows
    BY DEF Standing, BackingAny, RowsOf, LedgerInv, WithdrawnBacksStandingPayout
  <2>4. Worth(BackingAny(W)) <= Worth(R)
    <3>1. IsFiniteSet(R) /\ \A c \in R : CommissionAmount[c] \in Nat
      BY <2>3, FiniteTables, FS_Subset
    <3>2. SumOver(CommissionAmount, BackingAny(W)) <= SumOver(CommissionAmount, R)
      BY <2>3, <3>1, SumGrows
    <3> QED
      BY <2>3, <3>2, Amounts
  <2>5. /\ SumOver(AmountRequested, W) \in Nat /\ Owed(SettledBy(W)) \in Nat
        /\ Worth(BackingAny(W)) \in Nat /\ Worth(R) \in Nat
    BY <2>1, <2>3, Amounts DEF SettledBy
  <2> HIDE DEF W, R
  <2>6. SumOver(AmountRequested, W) + Owed(SettledBy(W)) <= Worth(R)
    BY <2>2, <2>4, <2>5 DEF CoveredTogether
  <2> QED
    BY <2>6 DEF W, R
<1> QED
  BY <1>1, LedgerInvariant, PaidOnce, PTL

-----------------------------------------------------------------------------
(* The greedy loop of requestWithdrawal has exactly one outcome. *)

LEMMA CoversMore ==
  ASSUME NEW A \in SUBSET Rows, NEW B \in SUBSET Rows, A \subseteq B,
         NEW w \in Requests, NEW D \in SUBSET Shares, Covers(A, w, D)
  PROVE  Covers(B, w, D)
<1>1. IsFiniteSet(B) /\ \A c \in B : CommissionAmount[c] \in Nat
  BY FiniteTables, FS_Subset
<1>2. SumOver(CommissionAmount, A) <= SumOver(CommissionAmount, B)
  BY <1>1, SumGrows
<1>3. Worth(A) <= Worth(B) /\ Worth(A) \in Nat /\ Worth(B) \in Nat /\ Owed(D) \in Nat
  BY <1>2, Amounts
<1> QED
  BY <1>3 DEF Covers

Older(c, pool) == {d \in pool : d[2] < c[2]}

LEMMA ConsumedUnfolds ==
  ASSUME NEW pool, NEW S, NEW w, NEW D
  PROVE  Consumed(S, pool, w, D) <=>
           /\ S \subseteq pool
           /\ \A c \in S : Older(c, pool) \subseteq S /\ ~Covers(Older(c, pool), w, D)
           /\ Covers(S, w, D) \/ S = pool
BY DEF Consumed, Older

\* Whatever a call has read, its loop ends with a set of rows to consume, and it is the
\* only one: oldest first, the last row whole, or the whole pool.
THEOREM ConsumptionIsUnique ==
  ASSUME NEW w \in Requests, NEW p \in Partners, NEW D \in SUBSET Shares,
         NEW pool \in SUBSET Rows, \A c \in pool : c[1] = p
  PROVE  /\ \E S \in SUBSET pool : Consumed(S, pool, w, D)
         /\ \A S, R \in SUBSET pool :
              Consumed(S, pool, w, D) /\ Consumed(R, pool, w, D) => S = R
<1>1. \A c \in pool : c[2] \in Nat
  BY DEF Rows, Orders
<1>2. \A c, d \in pool : c[2] = d[2] => c = d
  BY DEF Rows
<1> DEFINE S == {c \in pool : ~Covers(Older(c, pool), w, D)}
<1>3. ASSUME NEW c \in S PROVE Older(c, pool) \subseteq S
  <2> SUFFICES ASSUME NEW d \in Older(c, pool) PROVE ~Covers(Older(d, pool), w, D)
    BY DEF Older
  <2>1. /\ Older(d, pool) \subseteq Older(c, pool)
        /\ Older(d, pool) \in SUBSET Rows /\ Older(c, pool) \in SUBSET Rows
    BY <1>1 DEF Older
  <2> QED
    BY <2>1, CoversMore
<1>4. ASSUME S # pool PROVE Covers(S, w, D)
  <2> DEFINE T == {c[2] : c \in pool \ S}
  <2>1. T \subseteq Nat /\ T # {}
    BY <1>1, <1>4
  <2>2. PICK n \in T : \A m \in T : n <= m
    BY <2>1, LeastOf
  <2>3. PICK c \in pool \ S : n = c[2]
    BY <2>2
  <2>4. Older(c, pool) \subseteq S
    <3> SUFFICES ASSUME NEW d \in Older(c, pool), d \notin S PROVE FALSE
      OBVIOUS
    <3>1. d \in pool /\ d[2] < c[2]
      BY DEF Older
    <3>2. c[2] <= d[2]
      BY <2>2, <2>3, <3>1
    <3>3. c[2] \in Nat /\ d[2] \in Nat
      BY <1>1, <3>1
    <3> QED
      BY <3>1, <3>2, <3>3
  <2>5. Older(c, pool) \in SUBSET Rows /\ S \in SUBSET Rows /\ Covers(Older(c, pool), w, D)
    BY <2>3 DEF Older
  <2> QED
    BY <2>4, <2>5, CoversMore
<1>5. \E R \in SUBSET pool : Consumed(R, pool, w, D)
  <2>1. S \in SUBSET pool /\ \A c \in S : ~Covers(Older(c, pool), w, D)
    OBVIOUS
  <2> HIDE DEF S
  <2> QED
    BY <1>3, <1>4, <2>1, ConsumedUnfolds
<1>6. ASSUME NEW A \in SUBSET pool, NEW B \in SUBSET pool,
             Consumed(A, pool, w, D), Consumed(B, pool, w, D)
      PROVE  A \subseteq B
  <2> SUFFICES ASSUME NEW c \in A, c \notin B PROVE FALSE
    OBVIOUS
  <2>1. Covers(B, w, D)
    BY <1>6, ConsumedUnfolds
  <2>2. B \subseteq Older(c, pool)
    <3> SUFFICES ASSUME NEW d \in B, ~(d[2] < c[2]) PROVE FALSE
      BY DEF Older
    <3>1. c \in Older(d, pool)
      BY <1>1, <1>2 DEF Older
    <3> QED
      BY <1>6, <3>1, ConsumedUnfolds
  <2>3. Older(c, pool) \in SUBSET Rows /\ B \in SUBSET Rows
    BY DEF Older
  <2>4. Covers(Older(c, pool), w, D)
    BY <2>1, <2>2, <2>3, CoversMore
  <2> QED
    BY <1>6, <2>4, ConsumedUnfolds
<1> QED
  BY <1>5, <1>6

\* What a request is going to consume.
OneOutcome ==
    \A w \in Requests :
        \E S \in SUBSET poolRead[w] :
            /\ Consumed(S, poolRead[w], w, owedRead[w])
            /\ \A R \in SUBSET poolRead[w] : Consumed(R, poolRead[w], w, owedRead[w]) => R = S

\* At any time a request has one set of rows to consume and no other, so that it goes on
\* to a commit or a conflict and never chooses between sets (requestWithdrawal).
THEOREM RequestsHaveOneOutcome == Spec => []OneOutcome
<1>1. LedgerInv => OneOutcome
  <2> SUFFICES ASSUME LedgerInv, NEW w \in Requests
               PROVE  \E S \in SUBSET poolRead[w] :
                        /\ Consumed(S, poolRead[w], w, owedRead[w])
                        /\ \A R \in SUBSET poolRead[w] :
                             Consumed(R, poolRead[w], w, owedRead[w]) => R = S
    BY DEF OneOutcome
  <2>1. /\ poolRead[w] \in SUBSET Rows /\ owedRead[w] \in SUBSET Shares
        /\ RequestedBy[w] \in Partners /\ \A c \in poolRead[w] : c[1] = RequestedBy[w]
    BY DEF LedgerInv, TypeOK, ReadsCover
  <2> QED
    BY <2>1, ConsumptionIsUnique
<1> QED BY <1>1, LedgerInvariant, PTL

-----------------------------------------------------------------------------
(* PartnerLedger implements PayoutLedger. *)

\* Every step of the ledger is a step of PayoutLedger or changes none of
\* its variables.
LEMMA StepImplements ==
  ASSUME LedgerInv, [Next]_vars
  PROVE  [Payout!Next]_(Payout!abstractVars)
<1> USE DEF LedgerInv
<1> DEFINE Same == UNCHANGED <<commission, backs, withdrawal>>
<1>0. ASSUME Same PROVE UNCHANGED Payout!abstractVars
  BY <1>0 DEF Payout!abstractVars
<1>1. ASSUME NEW o \in Orders, NEW p \in Partners, CreditPartner(o, p)
      PROVE  Same \/ Payout!Next
  <2> DEFINE c0 == <<p, o>>
  <2>1. c0 \in Rows
    BY DEF Rows
  <2>2. \/ commission' = commission
        \/ commission[c0] = "absent" /\ commission' = [commission EXCEPT ![c0] = "pending"]
    BY <1>1 DEF CreditPartner
  <2>3. UNCHANGED <<backs, withdrawal>>
    BY <1>1, Zenon DEF CreditPartner
  <2> HIDE DEF c0
  <2> QED BY <2>1, <2>2, <2>3 DEF Payout!Next, Payout!Credit
<1>2. ASSUME TransitionDuePending PROVE Payout!Next
  <2> DEFINE S == {c \in Rows : IsDue(c)}
  <2>1. Payout!Mature(S)
    BY <1>2 DEF TransitionDuePending, IsDue, Payout!Mature
  <2> QED BY <2>1 DEF Payout!Next
<1>3. ASSUME NEW o \in Orders, ReversePartners(o) PROVE Payout!Next
  <2> DEFINE S == {c \in Rows : c[2] = o /\ commission[c] \in {"pending", "available"}}
  <2>1. Payout!Reverse(S)
    BY <1>3 DEF ReversePartners, Payout!Reverse
  <2> QED BY <2>1 DEF Payout!Next
<1>4. ASSUME NEW w \in Requests, NEW S \in SUBSET poolRead[w], Commit(w, S) PROVE Payout!Next
  <2>1. withdrawal[w] = "none" /\ S \in SUBSET Rows
    BY <1>4 DEF TypeOK, Commit, RowExistsWhenAnswered
  <2>2. Payout!Reserve(w, S)
    BY <1>4, <2>1 DEF Commit, Unchanged, Payout!Reserve
  <2> QED BY <2>1, <2>2 DEF Payout!Next
<1>5. ASSUME NEW a \in Admins, Approve(a) PROVE Payout!Next
  <2>1. Payout!Pay(admin[a].w) /\ admin[a].w \in Requests
    BY <1>5 DEF Approve, RowExistsWhenAnswered, rowVars, Payout!Pay
  <2> QED BY <2>1 DEF Payout!Next
<1>6. ASSUME NEW a \in Admins, Reject(a) PROVE Payout!Next
  <2>1. admin[a].w \in Requests /\ withdrawal[admin[a].w] # "none"
    BY <1>6 DEF Reject, RowExistsWhenAnswered
  <2>2. \A c \in Rows : backs[c] = admin[a].w => commission[c] = "withdrawn"
    BY <2>1 DEF WithdrawnBacksStandingPayout
  <2>3. Payout!Release(admin[a].w)
    BY <1>6, <2>1, <2>2 DEF Reject, Payout!Release
  <2> QED BY <2>1, <2>3 DEF Payout!Next
<1>7. ASSUME NEW o \in Orders, StartCredit(o) \/ AbandonCredit(o) PROVE Same
  BY <1>7 DEF StartCredit, AbandonCredit, rowVars
<1>8. ASSUME NEW w \in Requests,
             ReadPool(w) \/ ReadShares(w) \/ \E S \in SUBSET poolRead[w] : Conflict(w, S)
      PROVE  Same
  BY <1>8 DEF ReadPool, ReadShares, Conflict, rowVars
<1>9. ASSUME NEW a \in Admins,
             \/ \E w \in Requests, d \in {"approve", "reject"} : Review(a, w, d)
             \/ \E part \in BalancePart : ReadAggregate(a, part)
             \/ CheckBalance(a) \/ CountPending(a) \/ Scrub(a)
      PROVE  Same
  BY <1>9 DEF Review, ReadAggregate, CheckBalance, CountPending, Scrub, rowVars
<1>10. ASSUME \/ Tick
              \/ \E p \in Partners : SetEnabled(p)
              \/ \E k \in Costs : CreateCost(k) \/ DeleteCost(k)
              \/ UNCHANGED vars
       PROVE  Same
  BY <1>10 DEF Tick, SetEnabled, CreateCost, DeleteCost, rowVars, vars
<1>11. Same \/ Payout!Next
  BY <1>1, <1>2, <1>3, <1>4, <1>5, <1>6, <1>7, <1>8, <1>9, <1>10
     DEF Next, OrderStep, RequestStep, AdminStep
<1> QED BY <1>0, <1>11

\* Every behaviour of the partner ledger, with all its interleaved reads and
\* writes, is a behaviour of the atomic PayoutLedger.
THEOREM LedgerImplementsPayout == Spec => ImplementsPayout
<1>1. Init => Payout!Init
  BY DEF Init, Payout!Init
<1>2. LedgerInv /\ [Next]_vars => [Payout!Next]_(Payout!abstractVars)
  BY StepImplements
<1> QED BY <1>1, <1>2, LedgerInvariant, PTL DEF Spec, ImplementsPayout, Payout!Spec
=============================================================================
