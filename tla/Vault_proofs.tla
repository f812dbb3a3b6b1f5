---------------------------- MODULE Vault_proofs ----------------------------
(***************************************************************************)
(* Proofs about the vault, its dormant accounts, and the sums of balances  *)
(* that the vault and the contracts are stated with, for any accounts,     *)
(* callers, amounts and fees.                                              *)
(***************************************************************************)
EXTENDS VaultBooks, TLAPS

-----------------------------------------------------------------------------
(* Dormant accounts.                                                        *)

(* An account listed as dormant was listed no earlier than its last         *)
(* activity, unless a call has recorded newer activity and has not reached  *)
(* the list, or newer activity left the account on it.                      *)
ListedAfterActivity(a) ==
    \/ dormant_accounts[a].since >= last_activity[a]
    \/ \E u \in DormUsers : dormUser[u].address = a
    \/ a \in passedOver

DormInv ==
    /\ dormNow \in Nat
    /\ \A a \in DOMAIN last_activity : last_activity[a] \in 0..dormNow
    /\ \A a \in DOMAIN dormant_accounts :
           /\ DOMAIN dormant_accounts[a] = {"balance", "since", "burnedAt"}
           /\ dormant_accounts[a].since \in Nat
           /\ dormant_accounts[a].burnedAt # -1 =>
                  /\ dormant_accounts[a].burnedAt \in Nat
                  /\ dormant_accounts[a].burnedAt >= grace_end(dormant_accounts[a])
           /\ a \in DOMAIN last_activity => ListedAfterActivity(a)
    /\ DOMAIN dormant_accounts \subseteq DormAddresses
    /\ DOMAIN dormUser = DormUsers
    /\ \A u \in DormUsers : dormUser[u].at = "idle" => dormUser[u].address = 0

LEMMA DormInit == BooksInit => DormInv
BY DEF BooksInit, DormInv, DormIdle

(* Creating an account again while it is listed is one of the exceptions;   *)
(* otherwise the account is not listed and nothing is claimed of it.        *)
LEMMA AddAccountKeeps ==
    ASSUME DormInv, NEW a \in DormAddresses, NEW time \in 0..dormNow, add_account(a, time)
    PROVE  DormInv'
BY DEF DormInv, ListedAfterActivity, grace_end, add_account, Put

(* New activity makes the caller itself the exception until it has taken    *)
(* the account off the list.                                                *)
LEMMA DormBeginsKeeps ==
    ASSUME DormInv, NEW u \in DormUsers, NEW a \in DormAddresses,
           NEW time \in 0..dormNow, DormBegins(u, a, time)
    PROVE  DormInv'
<1>1. PICK at \in {"active", "remove"} : dormUser' = [dormUser EXCEPT ![u] = [at |-> at, address |-> a]]
  BY Zenon DEF DormBegins
<1>2. /\ dormUser'[u].address = a /\ dormUser'[u].at # "idle" /\ DOMAIN dormUser' = DormUsers
      /\ \A w \in DormUsers \ {u} : dormUser'[w] = dormUser[w]
  BY <1>1, Zenon DEF DormInv
<1>3. dormUser[u].at = "idle" /\ dormant_accounts' = dormant_accounts /\ dormNow' = dormNow
      /\ passedOver' = passedOver
  BY Zenon DEF DormBegins
<1>4. \A b \in DOMAIN last_activity' :
          \/ b \in DOMAIN last_activity /\ last_activity'[b] = last_activity[b]
          \/ b = a /\ last_activity'[b] = time
  BY Zenon DEF DormBegins, Drop, Put
<1>5. \A b \in DOMAIN dormant_accounts : b \in DOMAIN last_activity' => ListedAfterActivity(b)'
  <2> SUFFICES ASSUME NEW b \in DOMAIN dormant_accounts, b \in DOMAIN last_activity', b # a
               PROVE  ListedAfterActivity(b)'
    BY <1>2, Zenon DEF ListedAfterActivity
  <2>1. ListedAfterActivity(b) /\ last_activity'[b] = last_activity[b]
    BY <1>4, Zenon DEF DormInv
  <2>2. dormUser[u].address # b
    BY <1>3, BooksAssumption, Zenon DEF DormInv
  <2> QED BY <1>2, <1>3, <2>1, <2>2, Zenon DEF ListedAfterActivity
<1> QED BY <1>2, <1>3, <1>4, <1>5 DEF DormInv, grace_end

(* The end of the call takes the account off the list, so it no longer      *)
(* needs its exception; the exceptions of other accounts are other calls'.  *)
LEMMA DormEndsKeeps ==
    ASSUME DormInv, NEW u \in DormUsers, DormEnds(u)
    PROVE  DormInv'
<1>1. /\ dormant_accounts' = Drop(dormant_accounts, dormUser[u].address)
      /\ dormUser' = [dormUser EXCEPT ![u] = DormIdle]
      /\ UNCHANGED <<last_activity, dormNow>> /\ passedOver' = passedOver \ {dormUser[u].address}
  BY Zenon DEF DormEnds
<1>2. /\ DOMAIN dormUser' = DormUsers /\ dormUser'[u] = DormIdle
      /\ \A w \in DormUsers \ {u} : dormUser'[w] = dormUser[w]
  BY <1>1, Zenon DEF DormInv
<1>3. \A b \in DOMAIN dormant_accounts' :
          /\ b \in DOMAIN dormant_accounts /\ b # dormUser[u].address
          /\ dormant_accounts'[b] = dormant_accounts[b]
  BY <1>1, Zenon DEF Drop
<1>4. \A b \in DOMAIN dormant_accounts' : b \in DOMAIN last_activity' => ListedAfterActivity(b)'
  BY <1>1, <1>2, <1>3 DEF DormInv, ListedAfterActivity
<1> QED BY <1>1, <1>2, <1>3, <1>4 DEF DormInv, grace_end, DormIdle

(* Whatever check_dormancy saw, an account is listed at a time that is not  *)
(* before its last activity, or it is an exception.                         *)
LEMMA MarkDormantKeeps ==
    ASSUME DormInv, NEW a \in DormAddresses, NEW balance, NEW since \in 0..dormNow,
           mark_dormant(a, balance, since)
    PROVE  DormInv'
BY DEF DormInv, ListedAfterActivity, grace_end, mark_dormant, Put

LEMMA BurnDormantKeeps ==
    ASSUME DormInv, NEW a \in DormAddresses, burn_dormant(a)
    PROVE  DormInv'
<1>1. /\ dormant_accounts' = [dormant_accounts EXCEPT ![a].burnedAt = dormNow]
      /\ dormNow >= grace_end(dormant_accounts[a]) /\ a \in DOMAIN dormant_accounts
      /\ UNCHANGED <<last_activity, dormNow, dormUser, passedOver>>
  BY Zenon DEF burn_dormant
<1>2. \A b \in DOMAIN dormant_accounts :
          /\ dormant_accounts'[b].since = dormant_accounts[b].since
          /\ DOMAIN dormant_accounts'[b] = DOMAIN dormant_accounts[b]
          /\ b # a => dormant_accounts'[b] = dormant_accounts[b]
  BY <1>1, Zenon DEF DormInv
<1>3. dormant_accounts'[a].burnedAt = dormant_accounts[a].burnedAt
      \/ dormant_accounts'[a].burnedAt = dormNow
  BY <1>1, Zenon DEF DormInv
<1> QED BY <1>1, <1>2, <1>3 DEF DormInv, ListedAfterActivity, grace_end

LEMMA DormNextKeeps == DormInv /\ [DormNext]_dormVars => DormInv'
<1> SUFFICES ASSUME DormInv, [DormNext]_dormVars PROVE DormInv'
  BY Zenon
<1>1. CASE \E a \in DormAddresses, time \in 0..dormNow : add_account(a, time)
  BY <1>1, AddAccountKeeps, Zenon
<1>2. CASE \E a \in DormAddresses : burn_dormant(a)
  BY <1>2, BurnDormantKeeps, Zenon
<1>3. CASE \E u \in DormUsers, a \in DormAddresses, time \in 0..dormNow : DormBegins(u, a, time)
  BY <1>3, DormBeginsKeeps, Zenon
<1>4. CASE \E a \in DormAddresses, balance \in BookAmounts, time \in 0..dormNow : mark_dormant(a, balance, time)
  BY <1>4, MarkDormantKeeps, Zenon
<1>5. CASE \E u \in DormUsers : DormEnds(u)
  BY <1>5, DormEndsKeeps, Zenon
<1>6. CASE DormPasses
  BY <1>6 DEF DormInv, ListedAfterActivity, grace_end, DormPasses
<1>7. CASE \/ \E a \in DormAddresses : mark_warning_sent(a)
           \/ check_dormancy \/ UNCHANGED dormVars
  BY <1>7, Zenon DEF DormInv, ListedAfterActivity, grace_end, mark_warning_sent, check_dormancy, dormVars
<1> QED BY <1>1, <1>2, <1>3, <1>4, <1>5, <1>6, <1>7, Zenon DEF DormNext

(* For any number of accounts and callers and any threshold and grace       *)
(* period, an account is burned only after both have passed since its last  *)
(* activity, with the two exceptions the property names.  About             *)
(* mark_dormant, burn_dormant, record_activity and add_account.             *)
THEOREM GraceAlwaysGiven == DormSpec => []DormantBurnedOnlyAfterGrace
<1>1. DormInv => DormantBurnedOnlyAfterGrace
  BY BooksAssumption DEF DormInv, ListedAfterActivity, DormantBurnedOnlyAfterGrace, grace_end
<1> QED BY <1>1, DormInit, DormNextKeeps, PTL DEF DormSpec

-----------------------------------------------------------------------------
(***************************************************************************)
(* What SumFunctionOnSet computes.  The library defines it by recursion    *)
(* over subsets, so each fact is an induction over the subsets of a finite *)
(* set, made through a minimal counterexample.                             *)
(***************************************************************************)
INSTANCE WellFoundedInduction

LEMMA NatMin ==
    ASSUME NEW T \in SUBSET Nat, T # {}
    PROVE  \E n \in T : \A m \in T : n <= m
<1> DEFINE R == OpToRel(<, Nat)
<1>1. IsWellFoundedOn(R, Nat)
  BY NatLessThanWellFounded, Zenon
<1>2. \A x, y \in Nat : x < y => <<x, y>> \in R
  BY Zenon DEF OpToRel
<1> HIDE DEF R
<1>3. PICK n \in T : \A m \in T : ~(<<m, n>> \in R)
  BY <1>1, WFMin, Zenon
<1>4. ASSUME NEW m \in T PROVE n <= m
  <2>1. n \in Nat /\ m \in Nat /\ ~(m < n)
    BY <1>2, <1>3, Zenon
  <2> QED BY <2>1
<1> QED BY <1>4, Zenon

LEMMA SubsetFinite ==
    ASSUME NEW S, IsFiniteSet(S), NEW T \in SUBSET S
    PROVE  IsFiniteSet(T)
<1>1. PICK q \in Seq(S) : \A s \in S : \E n \in 1..Len(q) : q[n] = s
  BY Zenon DEF IsFiniteSet
<1>2. CASE T = {}
  <2>1. <<>> \in Seq(T)
    OBVIOUS
  <2> QED BY <1>2, <2>1, Zenon DEF IsFiniteSet
<1>3. CASE T # {}
  <2>1. PICK t : t \in T
    BY <1>3, Zenon
  <2> DEFINE r == [n \in 1..Len(q) |-> IF q[n] \in T THEN q[n] ELSE t]
  <2>2. r \in Seq(T) /\ Len(r) = Len(q)
    BY <2>1
  <2>3. \A s \in T : \E n \in 1..Len(r) : r[n] = s
    BY <1>1, <2>2, Zenon
  <2> HIDE DEF r
  <2> QED BY <2>2, <2>3, Zenon DEF IsFiniteSet
<1> QED BY <1>2, <1>3, Zenon

LEMMA AddFinite ==
    ASSUME NEW S, IsFiniteSet(S), NEW x
    PROVE  IsFiniteSet(S \cup {x})
<1>1. PICK q \in Seq(S) : \A s \in S : \E n \in 1..Len(q) : q[n] = s
  BY Zenon DEF IsFiniteSet
<1> DEFINE r == Append(q, x)
<1>2. q \in Seq(S \cup {x}) /\ Len(q) \in Nat
  OBVIOUS
<1>3. r \in Seq(S \cup {x}) /\ Len(r) = Len(q) + 1 /\ r[Len(q) + 1] = x /\ \A n \in 1..Len(q) : r[n] = q[n]
  BY <1>2
<1> HIDE DEF r
<1>4. ASSUME NEW s \in S PROVE \E n \in 1..Len(r) : r[n] = s
  <2>1. PICK n \in 1..Len(q) : q[n] = s
    BY <1>1, Zenon
  <2> QED BY <1>2, <1>3, <2>1
<1>5. \E n \in 1..Len(r) : r[n] = x
  BY <1>2, <1>3
<1>6. \A s \in S \cup {x} : \E n \in 1..Len(r) : r[n] = s
  BY <1>4, <1>5, Zenon
<1> QED BY <1>3, <1>6, Zenon DEF IsFiniteSet

(* A set of subsets has one of which no element can be taken away: by       *)
(* induction on how many of the elements of S its members may differ in.    *)
LEMMA MinimalSubset ==
    ASSUME NEW S, IsFiniteSet(S), NEW B \in SUBSET SUBSET S, B # {}
    PROVE  \E s \in B : \A x \in s : s \ {x} \notin B
<1>1. PICK q \in Seq(S) : \A x \in S : \E i \in 1..Len(q) : q[i] = x
  BY Zenon DEF IsFiniteSet
<1> DEFINE First(n) == {q[i] : i \in 1..n}
           Minimal(C) == \E s \in C : \A x \in s : s \ {x} \notin C
           Alike(n, C) == \A s, t \in C : s \ First(n) = t \ First(n)
           Bad == {n \in 0..Len(q) : \E C \in SUBSET B : C # {} /\ Alike(n, C) /\ ~Minimal(C)}
<1>2. Bad = {}
  <2> SUFFICES ASSUME Bad # {} PROVE FALSE
    BY Zenon
  <2>1. PICK n \in Bad : \A m \in Bad : n <= m
    <3>1. Bad \in SUBSET Nat
      OBVIOUS
    <3> HIDE DEF Bad
    <3> QED BY <3>1, NatMin, Zenon
  <2>2. PICK C \in SUBSET B : C # {} /\ Alike(n, C) /\ ~Minimal(C)
    BY Zenon
  <2>3. n # 0
    <3> SUFFICES ASSUME n = 0 PROVE Minimal(C)
      BY <2>2, Zenon
    <3>1. \A s, t \in C : s = t
      <4>1. First(0) = {}
        OBVIOUS
      <4> HIDE DEF First
      <4> QED BY <2>2, <4>1
    <3> QED BY <2>2, <3>1
  <2> DEFINE x == q[n]
             Without == {s \in C : x \notin s}
             D == IF Without = {} THEN C ELSE Without
  <2>4. n - 1 \in 0..Len(q) /\ n - 1 \notin Bad
    <3>1. n \in 0..Len(q)
      BY Zenon
    <3> HIDE DEF Bad
    <3> QED BY <2>1, <2>3, <3>1
  <2>5. First(n) = First(n - 1) \cup {x}
    <3>1. n \in Nat \ {0}
      BY <2>3
    <3>2. 1..n = (1..n - 1) \cup {n}
      <4> HIDE DEF Bad
      <4> QED BY <3>1
    <3> QED BY <3>2, Zenon
  <2> HIDE DEF First, x
  <2>6. D \in SUBSET B /\ D # {} /\ Alike(n - 1, D)
    <3>1. D \in SUBSET C /\ D # {} /\ \A s, t \in D : x \in s <=> x \in t
      BY <2>2, Zenon
    <3> HIDE DEF D
    <3> QED BY <2>2, <2>5, <3>1
  <2>7. PICK s \in D : \A y \in s : s \ {y} \notin D
    <3> HIDE DEF D
    <3> QED BY <2>4, <2>6, Zenon
  <2>8. s \in C /\ \A y \in s : s \ {y} \notin C
    BY <2>7, Zenon
  <2> QED BY <2>2, <2>8, Zenon
<1>3. Alike(Len(q), B)
  BY <1>1, Zenon
<1>4. Len(q) \in 0..Len(q)
  OBVIOUS
<1> HIDE DEF Alike
<1> QED BY <1>2, <1>3, <1>4, Zenon

Any(s) == CHOOSE x \in s : TRUE
Step(F, g, s) == IF s = {} THEN 0 ELSE F[Any(s)] + g[s \ {Any(s)}]
Iterates(F, g, S) == g = [s \in SUBSET S |-> Step(F, g, s)]

LEMMA AnyIn == ASSUME NEW s, s # {} PROVE Any(s) \in s
BY Zenon DEF Any

LEMMA Unfold ==
    ASSUME NEW F, NEW S
    PROVE  SumFunctionOnSet(F, S) = (CHOOSE g : Iterates(F, g, S))[S]
BY Zenon DEF SumFunctionOnSet, FoldFunctionOnSet, MapThenFoldSet, Any, Step, Iterates

LEMMA IterationUnique ==
    ASSUME NEW F, NEW S, IsFiniteSet(S), NEW U \in SUBSET S, NEW V \in SUBSET S,
           NEW g, Iterates(F, g, U), NEW h, Iterates(F, h, V),
           NEW r \in SUBSET U, r \in SUBSET V
    PROVE  g[r] = h[r]
<1> DEFINE Bad == {s \in SUBSET S : s \subseteq U /\ s \subseteq V /\ g[s] # h[s]}
<1> SUFFICES ASSUME Bad # {} PROVE FALSE
  BY Zenon
<1>1. PICK s \in Bad : \A x \in s : s \ {x} \notin Bad
  <2>1. Bad \in SUBSET SUBSET S
    BY Zenon
  <2> HIDE DEF Bad
  <2> QED BY <2>1, MinimalSubset, Zenon
<1>2. g[s] = Step(F, g, s) /\ h[s] = Step(F, h, s)
  BY Zenon DEF Iterates
<1>3. s # {}
  BY <1>2, Zenon DEF Step
<1>4. g[s \ {Any(s)}] = h[s \ {Any(s)}]
  BY <1>1, <1>3, AnyIn, Zenon
<1> QED BY <1>2, <1>3, <1>4, Zenon DEF Step

(* A smallest set without an iteration has one all the same: every smaller  *)
(* set lies in one that lacks an element, and those have theirs.            *)
LEMMA IterationExists ==
    ASSUME NEW F, NEW S, IsFiniteSet(S)
    PROVE  \E g : Iterates(F, g, S)
<1> DEFINE Bad == {T \in SUBSET S : ~\E g : Iterates(F, g, T)}
<1> SUFFICES ASSUME Bad # {} PROVE FALSE
  BY Zenon
<1>1. PICK T \in Bad : \A x \in T : T \ {x} \notin Bad
  <2>1. Bad \in SUBSET SUBSET S
    BY Zenon
  <2> HIDE DEF Bad
  <2> QED BY <2>1, MinimalSubset, Zenon
<1> DEFINE Got(U) == CHOOSE g : Iterates(F, g, U)
           Lacks(s) == T \ {Any(T \ s)}
           Here(s) == IF s = T THEN Step(F, Got(T \ {Any(T)}), T) ELSE Got(Lacks(s))[s]
           g == [s \in SUBSET T |-> Here(s)]
<1>2. \A x \in T : T \ {x} \in SUBSET S /\ Iterates(F, Got(T \ {x}), T \ {x})
  BY <1>1, Zenon
<1>3. ASSUME NEW s \in SUBSET T, s # T
      PROVE  Lacks(s) \in SUBSET S /\ s \subseteq Lacks(s) /\ Iterates(F, Got(Lacks(s)), Lacks(s))
  <2>1. Any(T \ s) \in T \ s
    BY <1>3, AnyIn
  <2> QED BY <1>2, <2>1, Zenon
<1> HIDE DEF Got, Lacks
<1>4. ASSUME NEW s \in SUBSET T PROVE Here(s) = Step(F, g, s)
  <2> DEFINE r == s \ {Any(s)}
  <2>1. CASE s = {}
    <3>1. s # T => Got(Lacks(s))[s] = Step(F, Got(Lacks(s)), s)
      BY <1>3, Zenon DEF Iterates
    <3> QED BY <2>1, <3>1, Zenon DEF Step
  <2>2. CASE s # {}
    <3>1. Any(s) \in s /\ r \in SUBSET T /\ r \in SUBSET S /\ r # T
      BY <2>2, AnyIn, Zenon
    <3>2. g[r] = Got(Lacks(r))[r]
      BY <3>1, Zenon
    <3>3. r \subseteq Lacks(r) /\ Lacks(r) \in SUBSET S /\ Iterates(F, Got(Lacks(r)), Lacks(r))
      BY <1>3, <3>1, Zenon
    <3> HIDE DEF g
    <3>4. CASE s = T
      <4>1. r \in SUBSET S /\ Iterates(F, Got(r), r)
        BY <1>2, <3>1, <3>4, Zenon
      <4>2. Got(r)[r] = Got(Lacks(r))[r]
        <5> HIDE DEF r
        <5> QED BY <3>3, <4>1, IterationUnique
      <4> QED BY <2>2, <3>2, <3>4, <4>2, Zenon DEF Step
    <3>5. CASE s # T
      <4>1. s \subseteq Lacks(s) /\ Lacks(s) \in SUBSET S /\ Iterates(F, Got(Lacks(s)), Lacks(s))
        BY <1>3, <3>5, Zenon
      <4>2. Got(Lacks(s))[s] = F[Any(s)] + Got(Lacks(s))[r]
        BY <2>2, <4>1, Zenon DEF Iterates, Step
      <4>3. Got(Lacks(s))[r] = Got(Lacks(r))[r]
        <5>1. r \subseteq s
          BY Zenon
        <5> HIDE DEF r
        <5> QED BY <3>3, <4>1, <5>1, IterationUnique
      <4> QED BY <2>2, <3>2, <3>5, <4>2, <4>3, Zenon DEF Step
    <3> QED BY <3>4, <3>5, Zenon
  <2> QED BY <2>1, <2>2, Zenon
<1>5. Iterates(F, g, T)
  BY <1>4, Zenon DEF Iterates
<1> HIDE DEF g
<1> QED BY <1>5, Zenon

(* The recursion the library's definition stands for.                       *)
LEMMA SumStep ==
    ASSUME NEW F, NEW S, IsFiniteSet(S)
    PROVE  /\ S = {} => SumFunctionOnSet(F, S) = 0
           /\ S # {} => SumFunctionOnSet(F, S) = F[Any(S)] + SumFunctionOnSet(F, S \ {Any(S)})
<1> DEFINE rest == S \ {Any(S)}
           g == CHOOSE g : Iterates(F, g, S)
           h == CHOOSE h : Iterates(F, h, rest)
<1>1. IsFiniteSet(rest) /\ rest \in SUBSET S
  BY SubsetFinite, Zenon
<1>2. Iterates(F, g, S) /\ Iterates(F, h, rest)
  BY <1>1, IterationExists, Zenon
<1>3. SumFunctionOnSet(F, S) = g[S] /\ SumFunctionOnSet(F, rest) = h[rest]
  BY Unfold, Zenon
<1> HIDE DEF g, h, rest
<1>4. g[S] = Step(F, g, S)
  BY <1>2, Zenon DEF Iterates
<1>5. g[rest] = h[rest]
  BY <1>1, <1>2, IterationUnique
<1> QED BY <1>3, <1>4, <1>5, Zenon DEF Step, rest

(* From here on the definition is not needed.                               *)
(* A set that holds 0 and the terms, and every sum of two of its elements,  *)
(* holds the sum.                                                           *)
LEMMA SumClosed ==
    ASSUME NEW S, IsFiniteSet(S), NEW D, 0 \in D, \A a, b \in D : a + b \in D,
           NEW F, \A x \in S : F[x] \in D
    PROVE  \A s \in SUBSET S : SumFunctionOnSet(F, s) \in D
<1> DEFINE Bad == {s \in SUBSET S : SumFunctionOnSet(F, s) \notin D}
<1> SUFFICES ASSUME Bad # {} PROVE FALSE
  BY Zenon
<1>1. PICK s \in Bad : \A x \in s : s \ {x} \notin Bad
  <2>1. Bad \in SUBSET SUBSET S
    BY Zenon
  <2> HIDE DEF Bad
  <2> QED BY <2>1, MinimalSubset, Zenon
<1>2. IsFiniteSet(s)
  BY SubsetFinite, Zenon
<1>3. s # {}
  BY <1>2, SumStep, Zenon
<1>4. Any(s) \in s /\ SumFunctionOnSet(F, s \ {Any(s)}) \in D
  BY <1>1, <1>3, AnyIn, Zenon
<1> QED BY <1>2, <1>3, <1>4, SumStep

(* A sum of integers is an integer ...                                      *)
LEMMA SumType ==
    ASSUME NEW S, IsFiniteSet(S), NEW F, \A x \in S : F[x] \in Int
    PROVE  \A s \in SUBSET S : SumFunctionOnSet(F, s) \in Int
<1>1. 0 \in Int /\ \A a, b \in Int : a + b \in Int
  OBVIOUS
<1> QED BY <1>1, SumClosed, Zenon

(* ... and a sum of natural numbers is one.                                 *)
LEMMA SumNat ==
    ASSUME NEW S, IsFiniteSet(S), NEW F, \A x \in S : F[x] \in Nat
    PROVE  \A s \in SUBSET S : SumFunctionOnSet(F, s) \in Nat
<1>1. 0 \in Nat /\ \A a, b \in Nat : a + b \in Nat
  OBVIOUS
<1> QED BY <1>1, SumClosed, Zenon

(* The order of summation does not matter: any element may come first.      *)
LEMMA SumRemove ==
    ASSUME NEW S, IsFiniteSet(S), NEW F, \A x \in S : F[x] \in Int
    PROVE  \A x \in S : SumFunctionOnSet(F, S) = F[x] + SumFunctionOnSet(F, S \ {x})
<1> DEFINE Sum(s) == SumFunctionOnSet(F, s)
           Bad == {s \in SUBSET S : \E x \in s : Sum(s) # F[x] + Sum(s \ {x})}
<1>1. \A s \in SUBSET S : IsFiniteSet(s) /\ Sum(s) \in Int
  BY SubsetFinite, SumType, Zenon
<1>2. \A s \in SUBSET S : s # {} => Sum(s) = F[Any(s)] + Sum(s \ {Any(s)})
  BY <1>1, SumStep, Zenon
<1> HIDE DEF Sum
<1>3. Bad = {}
  <2> SUFFICES ASSUME Bad # {} PROVE FALSE
    BY Zenon
  <2>1. PICK s \in Bad : \A x \in s : s \ {x} \notin Bad
    <3>1. Bad \in SUBSET SUBSET S
      BY Zenon
    <3> HIDE DEF Bad
    <3> QED BY <3>1, MinimalSubset, Zenon
  <2>2. PICK x \in s : Sum(s) # F[x] + Sum(s \ {x})
    BY Zenon
  <2> DEFINE a == Any(s)
             both == s \ {a, x}
  <2>3. a \in s /\ Sum(s) = F[a] + Sum(s \ {a})
    BY <1>2, AnyIn, Zenon
  <2> HIDE DEF a
  <2>4. a # x
    BY <2>2, <2>3, Zenon
  <2>5. (s \ {a}) \ {x} = both /\ (s \ {x}) \ {a} = both
    BY Zenon
  <2>6. Sum(s \ {a}) = F[x] + Sum(both) /\ Sum(s \ {x}) = F[a] + Sum(both)
    <3>1. /\ s \ {a} \in SUBSET S /\ s \ {a} \notin Bad /\ x \in s \ {a}
          /\ s \ {x} \in SUBSET S /\ s \ {x} \notin Bad /\ a \in s \ {x}
      BY <2>1, <2>3, <2>4, Zenon
    <3>2. Sum(s \ {a}) = F[x] + Sum((s \ {a}) \ {x}) /\ Sum(s \ {x}) = F[a] + Sum((s \ {x}) \ {a})
      BY <3>1, Zenon
    <3> QED BY <2>5, <3>2, Zenon
  <2>7. both \in SUBSET S /\ Sum(both) \in Int /\ F[x] \in Int /\ F[a] \in Int
    BY <1>1, <2>3, Zenon
  <2> HIDE DEF both
  <2> QED BY <2>2, <2>3, <2>6, <2>7
<1>4. \A x \in S : Sum(S) = F[x] + Sum(S \ {x})
  BY <1>3, Zenon
<1> QED BY <1>4, Zenon DEF Sum

(* Functions that agree on a set have one sum over it.                      *)
LEMMA SumSame ==
    ASSUME NEW S, IsFiniteSet(S), NEW F, NEW G, \A x \in S : F[x] = G[x]
    PROVE  SumFunctionOnSet(F, S) = SumFunctionOnSet(G, S)
<1> DEFINE Bad == {s \in SUBSET S : SumFunctionOnSet(F, s) # SumFunctionOnSet(G, s)}
<1> SUFFICES ASSUME Bad # {} PROVE FALSE
  BY Zenon
<1>1. PICK s \in Bad : \A x \in s : s \ {x} \notin Bad
  <2>1. Bad \in SUBSET SUBSET S
    BY Zenon
  <2> HIDE DEF Bad
  <2> QED BY <2>1, MinimalSubset, Zenon
<1>2. IsFiniteSet(s)
  BY SubsetFinite, Zenon
<1>3. s # {}
  BY <1>2, SumStep, Zenon
<1>4. Any(s) \in s /\ SumFunctionOnSet(F, s \ {Any(s)}) = SumFunctionOnSet(G, s \ {Any(s)})
  BY <1>1, <1>3, AnyIn, Zenon
<1> QED BY <1>2, <1>3, <1>4, SumStep

(* One term of a sum is replaced.                                           *)
LEMMA SumUpdate ==
    ASSUME NEW S, IsFiniteSet(S), NEW F, NEW G, NEW k \in S,
           \A x \in S : F[x] \in Int /\ G[x] \in Int, \A x \in S \ {k} : F[x] = G[x]
    PROVE  SumFunctionOnSet(G, S) = SumFunctionOnSet(F, S) - F[k] + G[k]
<1>1. IsFiniteSet(S \ {k})
  BY SubsetFinite, Zenon
<1>2. SumFunctionOnSet(F, S \ {k}) = SumFunctionOnSet(G, S \ {k})
  BY <1>1, SumSame, Zenon
<1>3. SumFunctionOnSet(F, S \ {k}) \in Int
  BY SumType, Zenon
<1>4. SumFunctionOnSet(F, S) = F[k] + SumFunctionOnSet(F, S \ {k})
  BY SumRemove, Zenon
<1>5. SumFunctionOnSet(G, S) = G[k] + SumFunctionOnSet(G, S \ {k})
  BY SumRemove, Zenon
<1> QED BY <1>2, <1>3, <1>4, <1>5

(* A sum of zeros.                                                          *)
LEMMA SumZero ==
    ASSUME NEW S, IsFiniteSet(S), NEW F, \A x \in S : F[x] = 0
    PROVE  SumFunctionOnSet(F, S) = 0
<1> DEFINE D == {0}
<1>1. 0 \in D /\ \A a, b \in D : a + b \in D
  OBVIOUS
<1>2. \A x \in S : F[x] \in D
  BY Zenon
<1> HIDE DEF D
<1>3. SumFunctionOnSet(F, S) \in D
  BY <1>1, <1>2, SumClosed, Zenon
<1> QED BY <1>3, Zenon DEF D

(* One term is added to a sum.                                              *)
LEMMA SumInsert ==
    ASSUME NEW S, IsFiniteSet(S), NEW F, NEW G, NEW k, k \notin S,
           \A x \in S : F[x] \in Int /\ F[x] = G[x], G[k] \in Int
    PROVE  SumFunctionOnSet(G, S \cup {k}) = SumFunctionOnSet(F, S) + G[k]
<1>1. IsFiniteSet(S \cup {k}) /\ (S \cup {k}) \ {k} = S
  BY AddFinite, Zenon
<1>2. \A x \in S \cup {k} : G[x] \in Int
  BY Zenon
<1>3. SumFunctionOnSet(G, S \cup {k}) = G[k] + SumFunctionOnSet(G, (S \cup {k}) \ {k})
  BY <1>1, <1>2, SumRemove, Zenon
<1>4. SumFunctionOnSet(G, S) = SumFunctionOnSet(F, S) /\ SumFunctionOnSet(F, S) \in Int
  BY SumSame, SumType, Zenon
<1>5. SumFunctionOnSet(G, S \cup {k}) = G[k] + SumFunctionOnSet(G, S)
  BY <1>1, <1>3, Zenon
<1> QED BY <1>4, <1>5

-----------------------------------------------------------------------------
(***************************************************************************)
(* The vault.  While no two calls overlap, a transfer in progress has read *)
(* balances that are still there, so what it goes on to write is bounded   *)
(* by what the accounts hold now: the treasury's share is at most the fee, *)
(* the debit takes amount and fee, the credit gives the amount back.       *)
(***************************************************************************)
VaultStages == {"idle", "to", "genesis", "pay", "debit", "credit", "hung"}

VaultTyped ==
    /\ IsFiniteSet(DOMAIN vaultBalance) /\ DOMAIN vaultBalance \subseteq VaultAddresses
    /\ vaultBalance \in [DOMAIN vaultBalance -> Nat]
    /\ total_supply \in 0..TOTAL_SUPPLY /\ feesIn \in Nat /\ feesOut \in Nat
    /\ vaultExcused \in BOOLEAN
    /\ vaultUser \in [VaultUsers ->
           [at : VaultStages, from : VaultAddresses, to : VaultAddresses, amount : Nat, fee : Nat,
            fromBalance : Nat, toBalance : Nat, credit : Nat]]
    /\ distributor \in [at : {"idle", "write"}, credit : Nat, read : Nat]

(* All the money there ever was but for n, and n that is still to be        *)
(* written.                                                                 *)
Within(n) == Funds + feesOut + n <= VaultGenesisBalance + VaultFounderShare + feesIn

Active(u) == vaultUser[u].at \notin {"idle", "hung"}

(* What transfer has read still bounds what it will write.                  *)
TransferSound(t) ==
    /\ t.from # t.to
    /\ t.at \in {"to", "genesis", "pay", "debit"} =>
           /\ t.from \in DOMAIN vaultBalance
           /\ t.fromBalance + t.amount + t.fee <= vaultBalance[t.from]
    /\ t.at \in {"genesis", "pay", "debit", "credit"} => t.toBalance <= BalanceOf(t.to) + t.amount
    /\ t.at = "genesis" => t.credit <= t.fee
    /\ t.at = "pay" => /\ BalanceOf(VaultGenesis) <= t.credit
                       /\ t.credit <= BalanceOf(VaultGenesis) + t.fee
    /\ t.at \in {"to", "genesis", "pay"} => Within(0)
    /\ t.at = "debit" => Within(0 - t.fee)
    /\ t.at = "credit" => Within(t.amount)

VaultInv ==
    /\ VaultTyped
    /\ ~vaultExcused =>
           /\ Quiet => Within(0)
           /\ \A u \in VaultUsers : Active(u) =>
                  /\ distributor.at = "idle" /\ \A v \in VaultUsers : Active(v) => v = u
                  /\ TransferSound(vaultUser[u])
           /\ distributor.at = "write" =>
                  Within(distributor.credit) /\ distributor.read <= BalanceOf(VaultGenesis)

LEMMA ShareBound ==
    ASSUME NEW fee \in Nat, NEW rate \in Int, rate <= RateUnit
    PROVE  Share(fee, rate) \in Nat /\ Share(fee, rate) <= fee
<1>1. CASE rate < 0
  BY <1>1 DEF Share
<1>2. CASE rate >= 0
  <2> DEFINE p == fee * rate
  <2>1. p \in Nat /\ p <= fee * 1500
    BY <1>2 DEF RateUnit, PhaseSpan
  <2> HIDE DEF p
  <2>2. p \div 1500 \in Nat /\ p \div 1500 <= fee
    BY <2>1
  <2> QED BY <1>2, <2>2 DEF Share, p, RateUnit, PhaseSpan
<1> QED BY <1>1, <1>2

LEMMA SharesBound ==
    ASSUME NEW fee \in Nat, NEW b \in Int, NEW n \in Int, b + n <= RateUnit, b >= 0, n >= 0
    PROVE  Share(fee, b) + Share(fee, n) <= fee
<1> DEFINE p == fee * b
           q == fee * n
<1>1. p \in Nat /\ q \in Nat /\ p + q <= fee * 1500
  <2>1. p \in Nat /\ q \in Nat /\ p + q = fee * (b + n)
    OBVIOUS
  <2>2. fee * (b + n) <= fee * 1500
    BY DEF RateUnit, PhaseSpan
  <2> QED BY <2>1, <2>2
<1> HIDE DEF p, q
<1>2. p \div 1500 + q \div 1500 <= fee
  BY <1>1
<1> QED BY <1>2 DEF Share, p, q, RateUnit, PhaseSpan

(* The rates: the treasury's is a part of the whole, and where it is not    *)
(* negative the burned part and the nodes' are no more than the whole.      *)
LEMMA Rates ==
    ASSUME NEW s \in 0..TOTAL_SUPPLY
    PROVE  /\ burn_rate(s) \in Nat /\ genesis_rate(s) \in Int /\ node_rate(s) \in Nat
           /\ burn_rate(s) <= RateUnit /\ genesis_rate(s) <= RateUnit /\ node_rate(s) <= RateUnit
           /\ ~(from_supply(s) = "GreatBurn" /\ genesis_rate(s) < 0) =>
                 burn_rate(s) + node_rate(s) <= RateUnit
<1> USE DEF RateUnit, PhaseSpan, TOTAL_SUPPLY, GreatBurnFloor, TransitionFloor
<1>1. CASE s > 40
  <2>1. from_supply(s) = "GreatBurn"
    BY <1>1, Zenon DEF from_supply
  <2>2. burn_rate(s) = 900 + 30 * (55 - s) /\ node_rate(s) = 540
        /\ genesis_rate(s) = 1500 - (900 + 30 * (55 - s)) - 540
    BY <2>1 DEF burn_rate, node_rate, genesis_rate
  <2> QED BY <1>1, <2>1, <2>2
<1>2. CASE s <= 40 /\ s > 25
  <2>1. from_supply(s) = "Transition"
    BY <1>2 DEF from_supply
  <2>2. burn_rate(s) = 90 * (s - 25) /\ genesis_rate(s) = 15 + 9 * (40 - s)
    BY <2>1, Zenon DEF burn_rate, genesis_rate
  <2>3. node_rate(s) = 1500 - burn_rate(s) - genesis_rate(s)
    BY <2>1 DEF node_rate
  <2> QED BY <1>2, <2>1, <2>2, <2>3
<1>3. CASE s <= 25
  <2>1. from_supply(s) = "GoldenEra"
    BY <1>3 DEF from_supply
  <2>2. burn_rate(s) = 0 /\ genesis_rate(s) = 150 /\ node_rate(s) = 1350
    BY <2>1 DEF burn_rate, node_rate, genesis_rate
  <2> QED BY <1>3, <2>1, <2>2
<1> QED BY <1>1, <1>2, <1>3

(* Writing one account: what all accounts hold changes by as much.          *)
LEMMA SetBalanceFacts ==
    ASSUME VaultTyped, NEW a \in VaultAddresses, NEW n \in Nat, vaultBalance' = SetBalance(a, n)
    PROVE  /\ IsFiniteSet(DOMAIN vaultBalance') /\ DOMAIN vaultBalance' \subseteq VaultAddresses
           /\ vaultBalance' \in [DOMAIN vaultBalance' -> Nat]
           /\ DOMAIN vaultBalance \subseteq DOMAIN vaultBalance'
           /\ \A b \in DOMAIN vaultBalance : b # a => vaultBalance'[b] = vaultBalance[b]
           /\ \A b : b # a => BalanceOf(b)' = BalanceOf(b)
           /\ a \in DOMAIN vaultBalance' /\ vaultBalance'[a] = n /\ BalanceOf(a)' = n
           /\ Funds \in Nat /\ Funds' \in Nat /\ Funds' = Funds - BalanceOf(a) + n
<1> DEFINE D == DOMAIN vaultBalance
           E == D \cup {a}
<1>1. /\ DOMAIN vaultBalance' = E
      /\ \A b \in E : vaultBalance'[b] = IF b = a THEN n ELSE vaultBalance[b]
      /\ vaultBalance' = [b \in E |-> vaultBalance'[b]]
  BY Zenon DEF SetBalance
<1>2. IsFiniteSet(D) /\ IsFiniteSet(E) /\ D \subseteq VaultAddresses
  BY AddFinite, Zenon DEF VaultTyped
<1>3. /\ \A b \in D : vaultBalance[b] \in Nat
      /\ \A b \in E : vaultBalance'[b] \in Nat
  BY <1>1, Zenon DEF VaultTyped
<1>4. Funds \in Nat /\ Funds' \in Nat
  BY <1>1, <1>2, <1>3, SumNat, Zenon DEF Funds
<1>5. Funds = SumFunctionOnSet(vaultBalance, D) /\ Funds' = SumFunctionOnSet(vaultBalance', E)
  BY <1>1, Zenon DEF Funds
<1>6. E = D \cup {a} /\ (a \in D => E = D)
  BY Zenon
<1>7. BalanceOf(a) = IF a \in D THEN vaultBalance[a] ELSE 0
  BY Zenon DEF BalanceOf
<1> HIDE DEF D, E
<1>8. Funds' = Funds - BalanceOf(a) + n
  <2>1. /\ \A b \in D : vaultBalance[b] \in Int /\ vaultBalance'[b] \in Int
        /\ vaultBalance'[a] \in Int /\ vaultBalance'[a] = n
        /\ \A b \in D \ {a} : vaultBalance[b] = vaultBalance'[b]
    BY <1>1, <1>3, <1>6
  <2>2. CASE a \in D
    <3>1. SumFunctionOnSet(vaultBalance', D) = SumFunctionOnSet(vaultBalance, D) - vaultBalance[a] + vaultBalance'[a]
      BY <1>2, <2>1, <2>2, SumUpdate
    <3> QED BY <1>5, <1>6, <1>7, <2>1, <2>2, <3>1, Zenon
  <2>3. CASE a \notin D
    <3>1. \A b \in D : vaultBalance[b] \in Int /\ vaultBalance[b] = vaultBalance'[b]
      BY <2>1, <2>3, Zenon
    <3>2. SumFunctionOnSet(vaultBalance', D \cup {a}) = SumFunctionOnSet(vaultBalance, D) + vaultBalance'[a]
      BY <1>2, <2>1, <2>3, <3>1, SumInsert
    <3>3. Funds' = Funds + n /\ BalanceOf(a) = 0
      BY <1>5, <1>6, <1>7, <2>1, <2>3, <3>2, Zenon
    <3> QED BY <1>4, <3>3
  <2> QED BY <2>2, <2>3, Zenon
<1> QED BY <1>1, <1>2, <1>3, <1>4, <1>8, Zenon DEF BalanceOf, D, E

LEMMA BalanceTyped ==
    ASSUME VaultTyped PROVE Funds \in Nat /\ \A a : BalanceOf(a) \in Nat
<1>1. Funds \in Nat
  <2>1. IsFiniteSet(DOMAIN vaultBalance) /\ \A a \in DOMAIN vaultBalance : vaultBalance[a] \in Nat
    BY Zenon DEF VaultTyped
  <2> QED BY <2>1, SumNat, Zenon DEF Funds
<1>2. 0 \in Nat
  BY Zenon
<1> QED BY <1>1, <1>2, Zenon DEF BalanceOf, VaultTyped

(* A step that leaves no call under way and the money where it was, or      *)
(* that makes a call which the property excuses.                            *)
LEMMA ExcusedKeeps == ASSUME VaultTyped', vaultExcused' PROVE VaultInv'
BY Zenon DEF VaultInv

LEMMA TransferStarts ==
    ASSUME VaultInv, NEW u \in VaultUsers, transfer(u) PROVE VaultInv'
<1> USE VaultAssumption
<1>1. PICK from \in DOMAIN vaultBalance, to \in VaultAddresses, amount \in VaultAmounts, fee \in VaultFees :
          /\ amount >= VaultMinBalance /\ from # to
          /\ vaultBalance[from] >= amount + fee
          /\ vaultUser' = [vaultUser EXCEPT ![u] =
                [at |-> "to", from |-> from, to |-> to, amount |-> amount, fee |-> fee,
                 fromBalance |-> vaultBalance[from] - (amount + fee), toBalance |-> 0, credit |-> 0]]
  BY Zenon DEF transfer
<1>2. /\ vaultExcused' = (vaultExcused \/ ~Quiet)
      /\ UNCHANGED <<vaultBalance, total_supply, total_burned, supplyLost, distributor, feesIn, feesOut>>
  BY Zenon DEF transfer, VaultCalled
<1> DEFINE left == vaultBalance[from] - (amount + fee)
<1>3. /\ amount \in Nat /\ fee \in Nat /\ left \in Nat /\ left + amount + fee <= vaultBalance[from]
      /\ from \in VaultAddresses
  <2>1. amount \in Nat /\ fee \in Nat /\ vaultBalance[from] \in Nat /\ from \in VaultAddresses
    BY Zenon DEF VaultInv, VaultTyped
  <2> QED BY <1>1, <2>1
<1> HIDE DEF left
<1>4. /\ vaultUser'[u] = [at |-> "to", from |-> from, to |-> to, amount |-> amount, fee |-> fee,
                          fromBalance |-> left, toBalance |-> 0, credit |-> 0]
      /\ \A v \in VaultUsers : v # u => vaultUser'[v] = vaultUser[v]
  BY <1>1, Zenon DEF VaultInv, VaultTyped, left
<1>5. VaultTyped'
  <2>1. [at |-> "to", from |-> from, to |-> to, amount |-> amount, fee |-> fee,
         fromBalance |-> left, toBalance |-> 0, credit |-> 0]
          \in [at : VaultStages, from : VaultAddresses, to : VaultAddresses, amount : Nat, fee : Nat,
               fromBalance : Nat, toBalance : Nat, credit : Nat]
    BY <1>3, Zenon DEF VaultStages
  <2>2. vaultExcused' \in BOOLEAN
    BY <1>2, Zenon DEF Quiet
  <2> QED BY <1>1, <1>2, <2>1, <2>2, Zenon DEF VaultInv, VaultTyped, left
<1>6. CASE ~vaultExcused'
  <2>1. Quiet /\ ~vaultExcused /\ Within(0) /\ distributor.at = "idle"
        /\ \A v \in VaultUsers : ~Active(v)
    BY <1>2, <1>6, Zenon DEF VaultInv, Quiet, Active
  <2>2. Active(u)' /\ (\A v \in VaultUsers : Active(v)' => v = u) /\ ~Quiet' /\ distributor'.at # "write"
    BY <1>2, <1>4, <2>1 DEF Active, Quiet
  <2>3. Within(0)'
    BY <1>2, <2>1, Zenon DEF Within, Funds
  <2>4. TransferSound(vaultUser[u])'
    BY <1>1, <1>2, <1>3, <1>4, <2>3 DEF TransferSound
  <2> QED BY <1>2, <1>5, <2>1, <2>2, <2>4, Zenon DEF VaultInv
<1> QED BY <1>5, <1>6, ExcusedKeeps, Zenon

(* A further step of the call of one user.                                  *)
LEMMA UserStep ==
    ASSUME VaultInv, NEW u \in VaultUsers, Active(u), VaultTyped',
           UNCHANGED <<distributor, vaultExcused>>,
           \A v \in VaultUsers : v # u => vaultUser'[v] = vaultUser[v],
           ~vaultExcused => IF Active(u)' THEN TransferSound(vaultUser[u])' ELSE Within(0)'
    PROVE  VaultInv'
<1> SUFFICES ASSUME ~vaultExcused' PROVE VaultInv'
  BY ExcusedKeeps, Zenon
<1>1. ~vaultExcused /\ distributor.at = "idle" /\ \A v \in VaultUsers : Active(v) => v = u
  BY Zenon DEF VaultInv
<1>2. distributor'.at = "idle" /\ \A v \in VaultUsers : Active(v)' => v = u
  BY <1>1, Zenon DEF Active
<1>3. Quiet' => ~Active(u)'
  BY Zenon DEF Quiet, Active
<1>4. distributor'.at # "write"
  BY <1>2, Zenon
<1> QED BY <1>1, <1>2, <1>3, <1>4, Zenon DEF VaultInv

(* What is known of the user whose call takes a step.                       *)
LEMMA StepFacts ==
    ASSUME VaultInv, NEW u \in VaultUsers, Active(u)
    PROVE  /\ VaultTyped
           /\ vaultUser[u] \in [at : VaultStages, from : VaultAddresses, to : VaultAddresses,
                                amount : Nat, fee : Nat, fromBalance : Nat, toBalance : Nat, credit : Nat]
           /\ ~vaultExcused => TransferSound(vaultUser[u])
BY Zenon DEF VaultInv, VaultTyped

LEMMA SplitKeeps ==
    ASSUME VaultInv, NEW u \in VaultUsers, TransferSplits(u) PROVE VaultInv'
<1> DEFINE t == vaultUser[u]
           burned == Share(t.fee, burn_rate(total_supply))
           share == Share(t.fee, genesis_rate(total_supply))
           at == IF burned > 0 THEN "hung" ELSE IF share > 0 THEN "genesis" ELSE "debit"
           target == BalanceOf(t.to) + t.amount
<1>1. /\ t.at = "to" /\ Active(u)
      /\ vaultUser' = [vaultUser EXCEPT ![u].toBalance = target, ![u].credit = share, ![u].at = at]
      /\ UNCHANGED <<vaultBalance, total_supply, distributor, feesIn, feesOut, vaultExcused>>
  BY Zenon DEF TransferSplits, Active
<1>2. /\ VaultTyped /\ (~vaultExcused => TransferSound(t))
      /\ t \in [at : VaultStages, from : VaultAddresses, to : VaultAddresses,
                amount : Nat, fee : Nat, fromBalance : Nat, toBalance : Nat, credit : Nat]
  BY <1>1, StepFacts, Zenon
<1>3. share \in Nat /\ share <= t.fee
  <2>1. total_supply \in 0..TOTAL_SUPPLY /\ t.fee \in Nat
    BY <1>2, Zenon DEF VaultTyped
  <2>2. genesis_rate(total_supply) \in Int /\ genesis_rate(total_supply) <= RateUnit
    BY <2>1, Rates, Zenon
  <2> QED BY <2>1, <2>2, ShareBound, Zenon
<1>4. target \in Nat
  <2>1. BalanceOf(t.to) \in Nat /\ t.amount \in Nat
    BY <1>2, BalanceTyped, Zenon
  <2> QED BY <2>1
<1>5. at \in {"hung", "genesis", "debit"}
  BY Zenon
<1> HIDE DEF share, at, target
<1>6. /\ vaultUser'[u] = [t EXCEPT !.toBalance = target, !.credit = share, !.at = at]
      /\ \A v \in VaultUsers : v # u => vaultUser'[v] = vaultUser[v]
      /\ vaultUser' = [v \in VaultUsers |-> vaultUser'[v]]
  BY <1>1, <1>2, Zenon DEF VaultTyped
<1>7. /\ vaultUser'[u] \in [at : VaultStages, from : VaultAddresses, to : VaultAddresses,
                            amount : Nat, fee : Nat, fromBalance : Nat, toBalance : Nat, credit : Nat]
      /\ vaultUser'[u].at = at /\ vaultUser'[u].from = t.from /\ vaultUser'[u].to = t.to
      /\ vaultUser'[u].amount = t.amount /\ vaultUser'[u].fee = t.fee
      /\ vaultUser'[u].fromBalance = t.fromBalance /\ vaultUser'[u].toBalance = target
      /\ vaultUser'[u].credit = share
  BY <1>2, <1>3, <1>4, <1>5, <1>6 DEF VaultStages
<1>8. VaultTyped'
  BY <1>1, <1>2, <1>6, <1>7, Zenon DEF VaultTyped
<1>9. ASSUME ~vaultExcused PROVE IF Active(u)' THEN TransferSound(vaultUser[u])' ELSE Within(0)'
  <2>1. /\ t.from # t.to /\ t.from \in DOMAIN vaultBalance
        /\ t.fromBalance + t.amount + t.fee <= vaultBalance[t.from] /\ Within(0)
    BY <1>1, <1>2, <1>9, Zenon DEF TransferSound
  <2>2. \A n : (Within(n)' <=> Within(n)) /\ BalanceOf(n)' = BalanceOf(n)
    BY <1>1, Zenon DEF Within, Funds, BalanceOf
  <2>3. Within(0 - t.fee)
    <3>1. /\ Funds \in Nat /\ feesOut \in Nat /\ feesIn \in Nat /\ t.fee \in Nat
          /\ VaultGenesisBalance \in Nat /\ VaultFounderShare \in Nat
      BY <1>2, BalanceTyped, VaultAssumption, Zenon DEF VaultTyped
    <3> QED BY <2>1, <3>1 DEF Within
  <2>4. target <= BalanceOf(t.to) + t.amount
    BY <1>4 DEF target
  <2>5. CASE at = "hung"
    BY <1>7, <2>1, <2>2, <2>5, Zenon DEF Active
  <2>6. CASE at = "genesis"
    BY <1>3, <1>1, <1>7, <2>1, <2>2, <2>4, <2>6, Zenon DEF TransferSound, Active
  <2>7. CASE at = "debit"
    BY <1>1, <1>7, <2>1, <2>2, <2>3, <2>4, <2>7, Zenon DEF TransferSound, Active
  <2> QED BY <1>5, <2>5, <2>6, <2>7, Zenon
<1> QED BY <1>1, <1>6, <1>8, <1>9, UserStep, Zenon

VaultTransfers == [at : VaultStages, from : VaultAddresses, to : VaultAddresses, amount : Nat,
                   fee : Nat, fromBalance : Nat, toBalance : Nat, credit : Nat]

(* The next stage of a transfer, with what it owes the treasury.            *)
LEMMA StageFacts ==
    ASSUME VaultTyped, NEW u \in VaultUsers, NEW at \in VaultStages, NEW credit \in Nat,
           vaultUser' = [vaultUser EXCEPT ![u] = [vaultUser[u] EXCEPT !.at = at, !.credit = credit]]
    PROVE  LET t == vaultUser[u]
               s == vaultUser'[u]
           IN  /\ t \in VaultTransfers /\ vaultUser' \in [VaultUsers -> VaultTransfers]
               /\ s.at = at /\ s.credit = credit /\ s.from = t.from /\ s.to = t.to
               /\ s.amount = t.amount /\ s.fee = t.fee
               /\ s.fromBalance = t.fromBalance /\ s.toBalance = t.toBalance
               /\ \A v \in VaultUsers : v # u => vaultUser'[v] = vaultUser[v]
<1>1. vaultUser \in [VaultUsers -> VaultTransfers]
  BY Zenon DEF VaultTyped, VaultTransfers
<1>2. vaultUser[u] \in VaultTransfers /\ vaultUser'[u] = [vaultUser[u] EXCEPT !.at = at, !.credit = credit]
      /\ (\A v \in VaultUsers : v # u => vaultUser'[v] = vaultUser[v])
      /\ vaultUser' = [v \in VaultUsers |-> vaultUser'[v]]
  BY <1>1, Zenon
<1>3. \A t \in VaultTransfers :
          LET s == [t EXCEPT !.at = at, !.credit = credit]
          IN  /\ s \in VaultTransfers /\ s.at = at /\ s.credit = credit /\ s.from = t.from /\ s.to = t.to
              /\ s.amount = t.amount /\ s.fee = t.fee
              /\ s.fromBalance = t.fromBalance /\ s.toBalance = t.toBalance
  BY Zenon DEF VaultTransfers
<1> QED BY <1>1, <1>2, <1>3, Zenon

(* Only the stage changed; the record is written as the lemma above has it. *)
LEMMA StageOnly ==
    ASSUME VaultTyped, NEW u \in VaultUsers, NEW at,
           vaultUser' = [vaultUser EXCEPT ![u].at = at]
    PROVE  vaultUser' = [vaultUser EXCEPT ![u] = [vaultUser[u] EXCEPT !.at = at, !.credit = vaultUser[u].credit]]
<1>1. vaultUser[u] \in VaultTransfers
  BY Zenon DEF VaultTyped, VaultTransfers
<1>2. [vaultUser[u] EXCEPT !.at = at, !.credit = vaultUser[u].credit] = [vaultUser[u] EXCEPT !.at = at]
  BY <1>1, Zenon DEF VaultTransfers
<1>3. vaultUser' = [vaultUser EXCEPT ![u] = [vaultUser[u] EXCEPT !.at = at]]
  BY Zenon
<1> QED BY <1>2, <1>3, Zenon

(* The numbers the bounds are about.                                        *)
LEMMA SumsTyped ==
    ASSUME VaultTyped
    PROVE  /\ Funds \in Nat /\ feesIn \in Nat /\ feesOut \in Nat
           /\ VaultGenesisBalance \in Nat /\ VaultFounderShare \in Nat
BY BalanceTyped, VaultAssumption, Zenon DEF VaultTyped

LEMMA GenesisReadKeeps ==
    ASSUME VaultInv, NEW u \in VaultUsers, execute_transfer(u), vaultUser[u].at = "genesis"
    PROVE  VaultInv'
<1> DEFINE t == vaultUser[u]
           credit == t.credit + BalanceOf(VaultGenesis)
<1>1. /\ vaultUser' = [vaultUser EXCEPT ![u].at = "pay", ![u].credit = credit]
      /\ UNCHANGED <<vaultBalance, total_supply, distributor, feesIn, feesOut, vaultExcused>>
  BY Zenon DEF execute_transfer
<1>2. Active(u) /\ VaultTyped /\ t \in VaultTransfers /\ (~vaultExcused => TransferSound(t))
  <2>1. Active(u)
    BY Zenon DEF Active
  <2> QED BY <2>1, StepFacts, Zenon DEF VaultTransfers
<1>3. credit \in Nat /\ t.credit \in Nat /\ BalanceOf(VaultGenesis) \in Nat
  <2>1. t.credit \in Nat /\ BalanceOf(VaultGenesis) \in Nat
    BY <1>2, BalanceTyped, Zenon DEF VaultTransfers
  <2> QED BY <2>1
<1>4. vaultUser' = [vaultUser EXCEPT ![u] = [vaultUser[u] EXCEPT !.at = "pay", !.credit = credit]]
  BY <1>1, Zenon
<1>5. "pay" \in VaultStages /\ VaultTyped /\ credit \in Nat
  BY <1>2, <1>3, Zenon DEF VaultStages
<1> HIDE DEF credit
<1>6. /\ vaultUser' \in [VaultUsers -> VaultTransfers]
      /\ vaultUser'[u].at = "pay" /\ vaultUser'[u].credit = credit
      /\ vaultUser'[u].from = t.from /\ vaultUser'[u].to = t.to
      /\ vaultUser'[u].amount = t.amount /\ vaultUser'[u].fee = t.fee
      /\ vaultUser'[u].fromBalance = t.fromBalance /\ vaultUser'[u].toBalance = t.toBalance
      /\ \A v \in VaultUsers : v # u => vaultUser'[v] = vaultUser[v]
  BY <1>4, <1>5, StageFacts, ZenonT(60)
<1>7. VaultTyped'
  BY <1>1, <1>2, <1>6, Zenon DEF VaultTyped, VaultTransfers
<1>8. \A n : (Within(n)' <=> Within(n)) /\ BalanceOf(n)' = BalanceOf(n)
  BY <1>1, Zenon DEF Within, Funds, BalanceOf
<1>9. ASSUME ~vaultExcused PROVE TransferSound(vaultUser[u])'
  <2>1. /\ t.from # t.to /\ t.from \in DOMAIN vaultBalance
        /\ t.fromBalance + t.amount + t.fee <= vaultBalance[t.from]
        /\ t.toBalance <= BalanceOf(t.to) + t.amount /\ t.credit <= t.fee /\ Within(0)
    BY <1>2, <1>9, Zenon DEF TransferSound
  <2>2. BalanceOf(VaultGenesis) <= credit /\ credit <= BalanceOf(VaultGenesis) + t.fee
    <3>1. t.fee \in Nat
      BY <1>2, Zenon DEF VaultTransfers
    <3> QED BY <1>3, <2>1, <3>1 DEF credit
  <2> QED BY <1>1, <1>6, <1>8, <2>1, <2>2, Zenon DEF TransferSound
<1>10. Active(u)'
  BY <1>6, Zenon DEF Active
<1> QED BY <1>1, <1>2, <1>6, <1>7, <1>9, <1>10, UserStep, Zenon

LEMMA PayKeeps ==
    ASSUME VaultInv, NEW u \in VaultUsers, execute_transfer(u), vaultUser[u].at = "pay"
    PROVE  VaultInv'
<1> DEFINE t == vaultUser[u]
<1>1. /\ vaultUser' = [vaultUser EXCEPT ![u].at = "debit"]
      /\ vaultBalance' = SetBalance(VaultGenesis, t.credit)
      /\ UNCHANGED <<total_supply, distributor, feesIn, feesOut, vaultExcused>>
  BY Zenon DEF execute_transfer
<1>2. Active(u) /\ VaultTyped /\ t \in VaultTransfers /\ (~vaultExcused => TransferSound(t))
  <2>1. Active(u)
    BY Zenon DEF Active
  <2> QED BY <2>1, StepFacts, Zenon DEF VaultTransfers
<1>3. /\ t.from \in VaultAddresses /\ t.to \in VaultAddresses /\ t.credit \in Nat /\ t.amount \in Nat
      /\ t.fee \in Nat /\ t.fromBalance \in Nat /\ t.toBalance \in Nat
  BY <1>2, Zenon DEF VaultTransfers
<1>4. vaultUser' = [vaultUser EXCEPT ![u] = [vaultUser[u] EXCEPT !.at = "debit", !.credit = vaultUser[u].credit]]
  BY <1>1, <1>2, StageOnly, Zenon
<1>5. "debit" \in VaultStages
  BY Zenon DEF VaultStages
<1>6. /\ vaultUser' \in [VaultUsers -> VaultTransfers]
      /\ vaultUser'[u].at = "debit" /\ vaultUser'[u].from = t.from /\ vaultUser'[u].to = t.to
      /\ vaultUser'[u].amount = t.amount /\ vaultUser'[u].fee = t.fee
      /\ vaultUser'[u].fromBalance = t.fromBalance /\ vaultUser'[u].toBalance = t.toBalance
      /\ \A v \in VaultUsers : v # u => vaultUser'[v] = vaultUser[v]
  BY <1>2, <1>3, <1>4, <1>5, StageFacts, Zenon
<1>7. VaultGenesis \in VaultAddresses
  BY VaultAssumption, Zenon
<1>8. /\ IsFiniteSet(DOMAIN vaultBalance') /\ DOMAIN vaultBalance' \subseteq VaultAddresses
      /\ vaultBalance' \in [DOMAIN vaultBalance' -> Nat]
      /\ DOMAIN vaultBalance \subseteq DOMAIN vaultBalance'
      /\ \A b \in DOMAIN vaultBalance : b # VaultGenesis => vaultBalance'[b] = vaultBalance[b]
      /\ \A b : b # VaultGenesis => BalanceOf(b)' = BalanceOf(b)
      /\ vaultBalance'[VaultGenesis] = t.credit /\ BalanceOf(VaultGenesis)' = t.credit
      /\ Funds \in Nat /\ Funds' = Funds - BalanceOf(VaultGenesis) + t.credit
  BY <1>1, <1>2, <1>3, <1>7, SetBalanceFacts, Zenon
<1>9. VaultTyped'
  BY <1>1, <1>2, <1>6, <1>8, Zenon DEF VaultTyped, VaultTransfers
<1>10. ASSUME ~vaultExcused PROVE TransferSound(vaultUser[u])'
  <2>1. /\ t.from # t.to /\ t.from \in DOMAIN vaultBalance
        /\ t.fromBalance + t.amount + t.fee <= vaultBalance[t.from]
        /\ t.toBalance <= BalanceOf(t.to) + t.amount
        /\ BalanceOf(VaultGenesis) <= t.credit
        /\ t.credit <= BalanceOf(VaultGenesis) + t.fee /\ Within(0)
    BY <1>2, <1>10, Zenon DEF TransferSound
  <2>2. t.fromBalance + t.amount + t.fee <= vaultBalance'[t.from]
    <3>1. CASE t.from # VaultGenesis
      BY <1>8, <2>1, <3>1, Zenon
    <3>2. CASE t.from = VaultGenesis
      <4>1. vaultBalance[t.from] = BalanceOf(VaultGenesis) /\ vaultBalance'[t.from] = t.credit
            /\ BalanceOf(VaultGenesis) \in Nat
        BY <1>2, <1>8, <2>1, <3>2, BalanceTyped, Zenon DEF BalanceOf
      <4> QED BY <1>3, <2>1, <4>1
    <3> QED BY <3>1, <3>2, Zenon
  <2>3. \A b \in VaultAddresses : b = t.to => t.toBalance <= BalanceOf(b)' + t.amount
    <3>1. CASE t.to # VaultGenesis
      BY <1>8, <2>1, <3>1, Zenon
    <3>2. CASE t.to = VaultGenesis
      <4>1. BalanceOf(VaultGenesis)' = t.credit /\ BalanceOf(VaultGenesis) \in Nat
        BY <1>2, <1>8, BalanceTyped, Zenon
      <4>2. t.toBalance <= BalanceOf(VaultGenesis)' + t.amount
        BY <1>3, <2>1, <3>2, <4>1
      <4> QED BY <3>2, <4>2, Zenon
    <3> QED BY <3>1, <3>2, Zenon
  <2>4. \A n : n = 0 - t.fee => Within(n)'
    <3>1. /\ feesIn \in Nat /\ feesOut \in Nat /\ BalanceOf(VaultGenesis) \in Nat
          /\ VaultGenesisBalance \in Nat /\ VaultFounderShare \in Nat
      BY <1>2, BalanceTyped, SumsTyped, Zenon
    <3>2. Funds + feesOut + 0 <= VaultGenesisBalance + VaultFounderShare + feesIn
      BY <2>1, Zenon DEF Within
    <3>3. Funds' + feesOut + (0 - t.fee) <= VaultGenesisBalance + VaultFounderShare + feesIn
      BY <1>3, <1>8, <2>1, <3>1, <3>2
    <3> QED BY <1>1, <3>3, Zenon DEF Within
  <2> QED BY <1>3, <1>6, <1>8, <2>1, <2>2, <2>3, <2>4, Zenon DEF TransferSound
<1>11. Active(u)'
  BY <1>6, Zenon DEF Active
<1> QED BY <1>1, <1>2, <1>6, <1>9, <1>10, <1>11, UserStep, Zenon

LEMMA DebitKeeps ==
    ASSUME VaultInv, NEW u \in VaultUsers, execute_transfer(u), vaultUser[u].at = "debit"
    PROVE  VaultInv'
<1> DEFINE t == vaultUser[u]
<1>1. /\ vaultUser' = [vaultUser EXCEPT ![u].at = "credit"]
      /\ vaultBalance' = SetBalance(t.from, t.fromBalance)
      /\ UNCHANGED <<total_supply, distributor, feesIn, feesOut, vaultExcused>>
  BY Zenon DEF execute_transfer
<1>2. Active(u) /\ VaultTyped /\ t \in VaultTransfers /\ (~vaultExcused => TransferSound(t))
  <2>1. Active(u)
    BY Zenon DEF Active
  <2> QED BY <2>1, StepFacts, Zenon DEF VaultTransfers
<1>3. /\ t.from \in VaultAddresses /\ t.to \in VaultAddresses /\ t.credit \in Nat /\ t.amount \in Nat
      /\ t.fee \in Nat /\ t.fromBalance \in Nat /\ t.toBalance \in Nat
  BY <1>2, Zenon DEF VaultTransfers
<1>4. vaultUser' = [vaultUser EXCEPT ![u] = [vaultUser[u] EXCEPT !.at = "credit", !.credit = vaultUser[u].credit]]
  BY <1>1, <1>2, StageOnly, Zenon
<1>5. "credit" \in VaultStages
  BY Zenon DEF VaultStages
<1>6. /\ vaultUser' \in [VaultUsers -> VaultTransfers]
      /\ vaultUser'[u].at = "credit" /\ vaultUser'[u].from = t.from /\ vaultUser'[u].to = t.to
      /\ vaultUser'[u].amount = t.amount /\ vaultUser'[u].toBalance = t.toBalance
      /\ \A v \in VaultUsers : v # u => vaultUser'[v] = vaultUser[v]
  BY <1>2, <1>3, <1>4, <1>5, StageFacts, Zenon
<1>7. /\ IsFiniteSet(DOMAIN vaultBalance') /\ DOMAIN vaultBalance' \subseteq VaultAddresses
      /\ vaultBalance' \in [DOMAIN vaultBalance' -> Nat]
      /\ \A b : b # t.from => BalanceOf(b)' = BalanceOf(b)
      /\ Funds \in Nat /\ Funds' = Funds - BalanceOf(t.from) + t.fromBalance
  BY <1>1, <1>2, <1>3, SetBalanceFacts, Zenon
<1>8. VaultTyped'
  BY <1>1, <1>2, <1>6, <1>7, Zenon DEF VaultTyped, VaultTransfers
<1>9. ASSUME ~vaultExcused PROVE TransferSound(vaultUser[u])'
  <2>1. /\ t.from # t.to /\ t.from \in DOMAIN vaultBalance
        /\ t.fromBalance + t.amount + t.fee <= vaultBalance[t.from]
        /\ t.toBalance <= BalanceOf(t.to) + t.amount /\ Within(0 - t.fee)
    BY <1>2, <1>9, Zenon DEF TransferSound
  <2>2. \A b : b = t.to => t.toBalance <= BalanceOf(b)' + t.amount
    BY <1>7, <2>1, Zenon
  <2>3. \A n : n = t.amount => Within(n)'
    <3>1. /\ feesIn \in Nat /\ feesOut \in Nat /\ BalanceOf(t.from) \in Nat
          /\ BalanceOf(t.from) = vaultBalance[t.from]
          /\ VaultGenesisBalance \in Nat /\ VaultFounderShare \in Nat
      BY <1>2, <2>1, BalanceTyped, SumsTyped, Zenon DEF BalanceOf
    <3>2. Funds + feesOut + (0 - t.fee) <= VaultGenesisBalance + VaultFounderShare + feesIn
      BY <2>1, Zenon DEF Within
    <3>3. Funds' + feesOut + t.amount <= VaultGenesisBalance + VaultFounderShare + feesIn
      BY <1>3, <1>7, <2>1, <3>1, <3>2
    <3> QED BY <1>1, <3>3, Zenon DEF Within
  <2> QED BY <1>6, <2>1, <2>2, <2>3, Zenon DEF TransferSound
<1>10. Active(u)'
  BY <1>6, Zenon DEF Active
<1> QED BY <1>1, <1>2, <1>6, <1>8, <1>9, <1>10, UserStep, Zenon

LEMMA CreditKeeps ==
    ASSUME VaultInv, NEW u \in VaultUsers, execute_transfer(u), vaultUser[u].at = "credit"
    PROVE  VaultInv'
<1> DEFINE t == vaultUser[u]
<1>1. /\ vaultUser' = [vaultUser EXCEPT ![u] = AtRest]
      /\ vaultBalance' = SetBalance(t.to, t.toBalance)
      /\ UNCHANGED <<total_supply, distributor, feesIn, feesOut, vaultExcused>>
  BY Zenon DEF execute_transfer
<1>2. Active(u) /\ VaultTyped /\ t \in VaultTransfers /\ (~vaultExcused => TransferSound(t))
  <2>1. Active(u)
    BY Zenon DEF Active
  <2> QED BY <2>1, StepFacts, Zenon DEF VaultTransfers
<1>3. t.to \in VaultAddresses /\ t.amount \in Nat /\ t.toBalance \in Nat
  BY <1>2, Zenon DEF VaultTransfers
<1>4. AtRest \in VaultTransfers /\ AtRest.at = "idle"
  BY VaultAssumption, Zenon DEF AtRest, VaultTransfers, VaultStages
<1>5. /\ vaultUser' \in [VaultUsers -> VaultTransfers] /\ vaultUser'[u] = AtRest
      /\ \A v \in VaultUsers : v # u => vaultUser'[v] = vaultUser[v]
  BY <1>1, <1>2, <1>4, Zenon DEF VaultTyped, VaultTransfers
<1>6. /\ IsFiniteSet(DOMAIN vaultBalance') /\ DOMAIN vaultBalance' \subseteq VaultAddresses
      /\ vaultBalance' \in [DOMAIN vaultBalance' -> Nat]
      /\ Funds \in Nat /\ Funds' = Funds - BalanceOf(t.to) + t.toBalance
  BY <1>1, <1>2, <1>3, SetBalanceFacts, Zenon
<1>7. VaultTyped'
  BY <1>1, <1>2, <1>5, <1>6, Zenon DEF VaultTyped, VaultTransfers
<1>8. ASSUME ~vaultExcused PROVE Within(0)'
  <2>1. t.toBalance <= BalanceOf(t.to) + t.amount /\ Within(t.amount)
    BY <1>2, <1>8, Zenon DEF TransferSound
  <2>2. /\ feesIn \in Nat /\ feesOut \in Nat /\ BalanceOf(t.to) \in Nat
        /\ VaultGenesisBalance \in Nat /\ VaultFounderShare \in Nat
    BY <1>2, BalanceTyped, SumsTyped, Zenon
  <2>3. Funds + feesOut + t.amount <= VaultGenesisBalance + VaultFounderShare + feesIn
    BY <2>1, Zenon DEF Within
  <2>4. Funds' + feesOut + 0 <= VaultGenesisBalance + VaultFounderShare + feesIn
    BY <1>3, <1>6, <2>1, <2>2, <2>3
  <2> QED BY <1>1, <2>4, Zenon DEF Within
<1>9. ~Active(u)'
  BY <1>4, <1>5, Zenon DEF Active
<1> QED BY <1>1, <1>2, <1>5, <1>7, <1>8, <1>9, UserStep, Zenon

LEMMA BurnKeeps == ASSUME VaultInv, burn PROVE VaultInv'
<1>1. PICK amount \in VaultBurns : amount <= total_supply /\ total_supply' = total_supply - amount
  BY Zenon DEF burn, Burned
<1>2. /\ vaultExcused' = (vaultExcused \/ ~Quiet)
      /\ UNCHANGED <<vaultBalance, vaultUser, distributor, feesIn, feesOut>>
  BY Zenon DEF burn, VaultCalled
<1>3. total_supply' \in 0..TOTAL_SUPPLY
  <2>1. amount \in Nat /\ total_supply \in 0..TOTAL_SUPPLY
    BY VaultAssumption, Zenon DEF VaultInv, VaultTyped
  <2> QED BY <1>1, <2>1 DEF TOTAL_SUPPLY
<1>4. VaultTyped' /\ vaultExcused' \in BOOLEAN
  <2>1. vaultExcused' \in BOOLEAN
    BY <1>2, Zenon DEF Quiet
  <2> QED BY <1>2, <1>3, <2>1, Zenon DEF VaultInv, VaultTyped
<1>5. CASE ~vaultExcused'
  <2>1. Quiet /\ ~vaultExcused /\ Within(0) /\ distributor.at = "idle"
        /\ \A v \in VaultUsers : ~Active(v)
    BY <1>2, <1>5, Zenon DEF VaultInv, Quiet, Active
  <2>2. Within(0)' /\ distributor'.at = "idle" /\ \A v \in VaultUsers : ~Active(v)'
    BY <1>2, <2>1, Zenon DEF Within, Funds, Active
  <2>3. distributor'.at # "write"
    BY <2>2, Zenon
  <2> QED BY <1>4, <2>2, <2>3, Zenon DEF VaultInv
<1> QED BY <1>4, <1>5, ExcusedKeeps, Zenon

LEMMA DistributionStarts == ASSUME VaultInv, distribute_fees PROVE VaultInv'
<1> DEFINE burned(fee) == Share(fee, burn_rate(total_supply))
           nodes(fee) == Share(fee, node_rate(total_supply))
           rest(fee) == Minus(Minus(fee, burned(fee)), nodes(fee))
           excess == from_supply(total_supply) = "GreatBurn" /\ genesis_rate(total_supply) < 0
<1>1. PICK fee \in VaultFees :
          /\ distributor.at = "idle"
          /\ burned(fee) <= total_supply /\ Burned(burned(fee))
          /\ vaultCalls < VaultMaxCalls /\ vaultCalls' = vaultCalls + 1
          /\ vaultExcused' = (vaultExcused \/ ~Quiet \/ excess)
          /\ feesIn' = feesIn + fee /\ feesOut' = feesOut + burned(fee) + nodes(fee)
          /\ distributor' = IF rest(fee) > 0
                            THEN [at |-> "write", credit |-> rest(fee), read |-> BalanceOf(VaultGenesis)]
                            ELSE NoCredit
          /\ UNCHANGED <<vaultBalance, supplyLost, vaultUser>>
  BY Zenon DEF distribute_fees
<1>2. /\ VaultTyped /\ fee \in Nat /\ total_supply \in 0..TOTAL_SUPPLY
      /\ feesIn \in Nat /\ feesOut \in Nat /\ Funds \in Nat
      /\ VaultGenesisBalance \in Nat /\ VaultFounderShare \in Nat /\ BalanceOf(VaultGenesis) \in Nat
  BY VaultAssumption, SumsTyped, BalanceTyped, Zenon DEF VaultInv, VaultTyped
<1>3. /\ burned(fee) \in Nat /\ nodes(fee) \in Nat
      /\ ~excess => burned(fee) + nodes(fee) <= fee
  <2>1. /\ burn_rate(total_supply) \in Nat /\ node_rate(total_supply) \in Nat
        /\ burn_rate(total_supply) <= RateUnit /\ node_rate(total_supply) <= RateUnit
        /\ ~excess => burn_rate(total_supply) + node_rate(total_supply) <= RateUnit
    BY <1>2, Rates, Zenon
  <2>2. /\ burn_rate(total_supply) \in Int /\ node_rate(total_supply) \in Int
        /\ burn_rate(total_supply) >= 0 /\ node_rate(total_supply) >= 0
    BY <2>1
  <2> QED BY <1>2, <2>1, <2>2, ShareBound, SharesBound, Zenon
<1>4. /\ rest(fee) \in Nat
      /\ burned(fee) + nodes(fee) <= fee => burned(fee) + nodes(fee) + rest(fee) = fee
  <2> HIDE DEF burned, nodes
  <2> QED BY <1>2, <1>3 DEF Minus
<1> HIDE DEF burned, nodes, rest, excess
<1>5. total_supply' \in 0..TOTAL_SUPPLY /\ feesIn' \in Nat /\ feesOut' \in Nat
  <2>1. total_supply' = total_supply - burned(fee)
    BY <1>1, Zenon DEF Burned
  <2> QED BY <1>1, <1>2, <1>3, <2>1 DEF TOTAL_SUPPLY
<1>6. /\ distributor' \in [at : {"idle", "write"}, credit : Nat, read : Nat]
      /\ distributor'.credit = rest(fee)
      /\ distributor'.at = "write" => distributor'.read = BalanceOf(VaultGenesis)
  BY <1>1, <1>2, <1>4 DEF NoCredit
<1>7. VaultTyped'
  <2>1. vaultExcused' \in BOOLEAN
    BY <1>1, Zenon
  <2> QED BY <1>1, <1>2, <1>5, <1>6, <2>1, Zenon DEF VaultTyped
<1>8. CASE ~vaultExcused'
  <2>1. Quiet /\ ~vaultExcused /\ ~excess /\ Within(0) /\ \A v \in VaultUsers : ~Active(v)
    BY <1>1, <1>8, Zenon DEF VaultInv, Quiet, Active
  <2>2. \A v \in VaultUsers : ~Active(v)'
    BY <1>1, <2>1, Zenon DEF Active
  <2>3. Funds' = Funds /\ \A a : BalanceOf(a)' = BalanceOf(a)
    BY <1>1, Zenon DEF Funds, BalanceOf
  <2>4. Funds + feesOut + 0 <= VaultGenesisBalance + VaultFounderShare + feesIn
    BY <2>1, Zenon DEF Within
  <2>5. \A n : n = 0 \/ n = rest(fee) => Within(n)'
    <3>1. /\ Funds' + feesOut' + rest(fee) <= VaultGenesisBalance + VaultFounderShare + feesIn'
          /\ Funds' + feesOut' + 0 <= VaultGenesisBalance + VaultFounderShare + feesIn'
      BY <1>1, <1>2, <1>3, <1>4, <2>1, <2>3, <2>4
    <3> QED BY <3>1, Zenon DEF Within
  <2>6. distributor'.at = "write" => Within(distributor.credit)' /\ distributor'.read <= BalanceOf(VaultGenesis)'
    <3>1. Within(distributor.credit)'
      BY <1>6, <2>5, Zenon
    <3>2. distributor'.at = "write" => distributor'.read <= BalanceOf(VaultGenesis)'
      BY <1>2, <1>6, <2>3
    <3> QED BY <3>1, <3>2, Zenon
  <2> QED BY <1>7, <2>2, <2>5, <2>6, Zenon DEF VaultInv
<1> QED BY <1>7, <1>8, ExcusedKeeps, Zenon

LEMMA DistributionEnds == ASSUME VaultInv, DistributeWrites PROVE VaultInv'
<1> DEFINE total == distributor.read + distributor.credit
<1>1. /\ distributor.at = "write" /\ vaultBalance' = SetBalance(VaultGenesis, total)
      /\ distributor' = NoCredit
      /\ UNCHANGED <<total_supply, vaultUser, feesIn, feesOut, vaultExcused>>
  BY Zenon DEF DistributeWrites
<1>2. /\ VaultTyped /\ feesIn \in Nat /\ feesOut \in Nat /\ VaultGenesis \in VaultAddresses
      /\ VaultGenesisBalance \in Nat /\ VaultFounderShare \in Nat /\ BalanceOf(VaultGenesis) \in Nat
      /\ distributor.read \in Nat /\ distributor.credit \in Nat
  BY VaultAssumption, BalanceTyped, Zenon DEF VaultInv, VaultTyped
<1>3. total \in Nat
  BY <1>2
<1> HIDE DEF total
<1>4. /\ IsFiniteSet(DOMAIN vaultBalance') /\ DOMAIN vaultBalance' \subseteq VaultAddresses
      /\ vaultBalance' \in [DOMAIN vaultBalance' -> Nat]
      /\ Funds \in Nat /\ Funds' = Funds - BalanceOf(VaultGenesis) + total
  BY <1>1, <1>2, <1>3, SetBalanceFacts, Zenon
<1>5. distributor' \in [at : {"idle", "write"}, credit : Nat, read : Nat] /\ distributor'.at = "idle"
  BY <1>1, Zenon DEF NoCredit
<1>6. VaultTyped'
  BY <1>1, <1>2, <1>4, <1>5, Zenon DEF VaultTyped
<1>7. CASE ~vaultExcused'
  <2>1. /\ Within(distributor.credit) /\ distributor.read <= BalanceOf(VaultGenesis)
        /\ \A v \in VaultUsers : Active(v) => distributor.at = "idle"
    BY <1>1, <1>7, Zenon DEF VaultInv
  <2>2. \A v \in VaultUsers : ~Active(v)'
    <3>1. distributor.at # "idle"
      BY <1>1, Zenon
    <3> QED BY <1>1, <2>1, <3>1, Zenon DEF Active
  <2>3. Funds + feesOut + distributor.credit <= VaultGenesisBalance + VaultFounderShare + feesIn
    BY <2>1, Zenon DEF Within
  <2>4. Within(0)'
    <3>1. Funds' + feesOut + 0 <= VaultGenesisBalance + VaultFounderShare + feesIn
      BY <1>2, <1>4, <2>1, <2>3 DEF total
    <3> QED BY <1>1, <3>1, Zenon DEF Within
  <2>5. distributor'.at # "write"
    BY <1>5, Zenon
  <2> QED BY <1>6, <2>2, <2>4, <2>5, Zenon DEF VaultInv
<1> QED BY <1>6, <1>7, ExcusedKeeps, Zenon

LEMMA VaultStepKeeps == VaultInv /\ [VaultNext]_vaultVars => VaultInv'
<1> SUFFICES ASSUME VaultInv, [VaultNext]_vaultVars PROVE VaultInv'
  BY Zenon
<1>1. ASSUME NEW u \in VaultUsers, execute_transfer(u) PROVE VaultInv'
  <2>1. vaultUser[u].at \in {"genesis", "pay", "debit", "credit"}
    BY <1>1, Zenon DEF execute_transfer
  <2> QED BY <1>1, <2>1, GenesisReadKeeps, PayKeeps, DebitKeeps, CreditKeeps, Zenon
<1>2. CASE UNCHANGED vaultVars
  <2>1. /\ vaultBalance' = vaultBalance /\ total_supply' = total_supply /\ vaultUser' = vaultUser
        /\ distributor' = distributor /\ feesIn' = feesIn /\ feesOut' = feesOut
        /\ vaultExcused' = vaultExcused
    BY <1>2, Zenon DEF vaultVars
  <2>2. \A n : (Within(n)' <=> Within(n)) /\ BalanceOf(n)' = BalanceOf(n)
    BY <2>1, Zenon DEF Within, Funds, BalanceOf
  <2>3. VaultTyped' /\ (Quiet' <=> Quiet) /\ \A u \in VaultUsers : Active(u)' <=> Active(u)
    BY <2>1, Zenon DEF VaultInv, VaultTyped, Quiet, Active
  <2>4. \A t : TransferSound(t)' <=> TransferSound(t)
    BY <2>1, <2>2, Zenon DEF TransferSound
  <2> QED BY <2>1, <2>2, <2>3, <2>4, Zenon DEF VaultInv
<1> QED BY <1>1, <1>2, TransferStarts, SplitKeeps, BurnKeeps, DistributionStarts, DistributionEnds,
           Zenon DEF VaultNext

(* For any accounts, callers, amounts and fees, money appears between calls *)
(* only if calls overlapped or fees were distributed late in the first      *)
(* phase.  About execute_transfer, distribute_fees and the rates of         *)
(* SupplyPhase.                                                             *)
THEOREM VaultNeverGrows == VaultSpec => []VaultGrowsOnlyBy
<1>1. VaultInit => VaultInv
  <2> SUFFICES ASSUME VaultInit PROVE VaultInv
    BY Zenon
  <2> DEFINE g == VaultGenesis
             f == VaultFounder
  <2>1. /\ DOMAIN vaultBalance = {g, f} /\ g # f /\ {g, f} \subseteq VaultAddresses
        /\ vaultBalance[g] = VaultGenesisBalance /\ vaultBalance[f] = VaultFounderShare
        /\ vaultBalance \in [{g, f} -> Nat]
        /\ VaultGenesisBalance \in Nat /\ VaultFounderShare \in Nat
    BY VaultAssumption, Zenon DEF VaultInit
  <2>2. IsFiniteSet({}) /\ IsFiniteSet({g}) /\ IsFiniteSet({g, f})
    <3>1. IsFiniteSet({})
      <4>1. <<>> \in Seq({})
        OBVIOUS
      <4> QED BY <4>1, Zenon DEF IsFiniteSet
    <3>2. {g} = {} \cup {g} /\ {g, f} = {g} \cup {f}
      BY Zenon
    <3>3. IsFiniteSet({} \cup {g})
      BY <3>1, AddFinite, Zenon
    <3>4. IsFiniteSet({g} \cup {f})
      BY <3>2, <3>3, AddFinite, Zenon
    <3> QED BY <3>1, <3>2, <3>3, <3>4, Zenon
  <2>3. Funds = VaultGenesisBalance + VaultFounderShare
    <3>1. \A x \in {g, f} : vaultBalance[x] \in Int
      BY <2>1
    <3>2. {g, f} \ {g} = {f} /\ {f} \ {f} = {} /\ IsFiniteSet({f})
      <4>1. {g, f} \ {g} = {f} /\ {f} \ {f} = {}
        BY <2>1, Zenon
      <4> QED BY <2>2, <4>1, SubsetFinite, Zenon
    <3>3. SumFunctionOnSet(vaultBalance, {g, f}) = vaultBalance[g] + SumFunctionOnSet(vaultBalance, {f})
      BY <2>2, <3>1, <3>2, SumRemove, Zenon
    <3>4. SumFunctionOnSet(vaultBalance, {f}) = vaultBalance[f] + SumFunctionOnSet(vaultBalance, {})
      BY <3>1, <3>2, SumRemove, Zenon
    <3>5. SumFunctionOnSet(vaultBalance, {}) = 0
      BY <2>2, SumStep, Zenon
    <3>6. Funds = SumFunctionOnSet(vaultBalance, {g, f})
      BY <2>1, Zenon DEF Funds
    <3> QED BY <2>1, <3>3, <3>4, <3>5, <3>6
  <2>4. VaultTyped
    <3>1. AtRest \in VaultTransfers /\ NoCredit \in [at : {"idle", "write"}, credit : Nat, read : Nat]
      BY VaultAssumption, Zenon DEF AtRest, NoCredit, VaultTransfers, VaultStages
    <3>2. total_supply \in 0..TOTAL_SUPPLY /\ feesIn \in Nat /\ feesOut \in Nat
      BY DEF VaultInit, TOTAL_SUPPLY
    <3>3. vaultUser \in [VaultUsers -> VaultTransfers] /\ distributor = NoCredit /\ vaultExcused = FALSE
      BY <3>1, Zenon DEF VaultInit
    <3> QED BY <2>1, <2>2, <3>1, <3>2, <3>3, Zenon DEF VaultTyped, VaultTransfers
  <2>5. Within(0)
    BY <2>1, <2>3 DEF Within, VaultInit
  <2>6. (\A u \in VaultUsers : ~Active(u)) /\ distributor.at = "idle"
    BY Zenon DEF VaultInit, Active, AtRest, NoCredit
  <2>7. distributor.at # "write"
    BY <2>6, Zenon
  <2> QED BY <2>4, <2>5, <2>6, <2>7, Zenon DEF VaultInv
<1>2. VaultInv => VaultGrowsOnlyBy
  <2> SUFFICES ASSUME VaultInv, Quiet, ~vaultExcused
               PROVE  Funds + feesOut <= VaultGenesisBalance + VaultFounderShare + feesIn
    BY Zenon DEF VaultGrowsOnlyBy
  <2>1. Within(0) /\ VaultTyped
    BY Zenon DEF VaultInv
  <2>2. Funds \in Nat /\ feesOut \in Nat
    BY <2>1, SumsTyped, Zenon
  <2> QED BY <2>1, <2>2 DEF Within
<1> QED BY <1>1, <1>2, VaultStepKeeps, PTL DEF VaultSpec

=============================================================================
