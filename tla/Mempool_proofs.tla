--------------------------- MODULE Mempool_proofs ---------------------------
(***************************************************************************)
(* Proofs about the transaction pool, for any transactions, any number of  *)
(* submitting tasks and any limits.                                        *)
(*                                                                         *)
(* The maps of the pool are changed one after the other, so between two    *)
(* steps of a call the index and the counters say more than the pool: an   *)
(* entry of priority_index may belong to a transaction in the pool, to one *)
(* that an adder is about to publish, or to one that was taken out of the  *)
(* pool and whose remover has yet to unindex it.  Each of these is a claim *)
(* on one entry of the index and on one unit of the sender's counter.  The *)
(* invariant is that there are at least as many entries, and units, as     *)
(* claims.  A removal hands the claim of the pool over to the one caller   *)
(* that found the entry, publish hands the claim of the adder over to the  *)
(* pool, and only a caller with a claim takes an entry away.               *)
(*                                                                         *)
(* Capacity: a task past the check of max_size counts as one transaction.  *)
(***************************************************************************)
EXTENDS Mempool, FiniteSetTheorems, TLAPS

Places == {"idle", "validate", "lookup", "remove", "unindex", "index", "publish"}
AdderStates == [pc : Places, tx : Txs \cup {NoTx}, old : Txs \cup {NoTx}]

\* What the proofs need of the types; the rest of a remover is left open.
Typed ==
    /\ transactions \subseteq Txs
    /\ count \in [Addresses -> Nat]
    /\ index \in [Fees -> Seq(Txs)]
    /\ adder \in [Adders -> AdderStates]
    /\ remover = [r \in Removers |-> [phase |-> remover[r].phase, todo |-> remover[r].todo,
                                      cur |-> remover[r].cur]]
    /\ \A r \in Removers : remover[r].cur \in Txs \cup {NoTx}
    /\ \A a \in Adders : /\ adder[a].pc # "idle" => adder[a].tx \in Txs
                         /\ adder[a].pc \in {"remove", "unindex"} => adder[a].old \in Txs

-----------------------------------------------------------------------------
(* Capacity. *)

Busy == {a \in Adders : adder[a].pc # "idle"}

Reserved ==
    /\ IsFiniteSet(transactions)
    /\ Cardinality(transactions) + Cardinality(Busy) <= MaxSize + Cardinality(Adders) - 1

-----------------------------------------------------------------------------
(* Claims. *)

Claim(kind, by, t) == [kind |-> kind, by |-> by, tx |-> t]

PoolClaims == {Claim("pool", NoTx, t) : t \in transactions}
PublishClaims == {Claim("publish", a, adder[a].tx) : a \in {b \in Adders : adder[b].pc = "publish"}}
UnindexClaims == {Claim("unindex", a, adder[a].old) : a \in {b \in Adders : adder[b].pc = "unindex"}}
RemoverClaims == {Claim("remover", r, remover[r].cur) : r \in {q \in Removers : remover[q].cur # NoTx}}
Claims == PoolClaims \cup PublishClaims \cup UnindexClaims \cup RemoverClaims

ClaimsOn(C, K) == {c \in C : c.tx \in K}
From(a) == {t \in Txs : t.from = a}
Occurrences(s, t) == {i \in DOMAIN s : s[i] = t}

\* The lists idx and the counters cnt are enough for the claims of C.
Covers(C, idx, cnt) ==
    /\ IsFiniteSet(C)
    /\ \A t \in Txs : Cardinality(ClaimsOn(C, {t})) <= Cardinality(Occurrences(idx[t.fee], t))
    /\ \A a \in Addresses : Cardinality(ClaimsOn(C, From(a))) <= cnt[a]

Covered == Covers(Claims, index, count)

Inv == Typed /\ Reserved /\ Covered

-----------------------------------------------------------------------------
(* Finite sets and sequences. *)

\* A set of natural numbers that is not empty has a least element.
LEMMA Least ==
  ASSUME NEW n \in Nat, NEW I, I \subseteq 1 .. n, I # {}
  PROVE  Min(I) \in I
  <1> DEFINE T == {1 .. i : i \in I}
  <1>1. IsFiniteSet(1 .. n)
    BY FS_Interval
  <1>2. T \subseteq FiniteSubsetsOf(1 .. n) /\ T # {}
    <2>1. T \subseteq SUBSET (1 .. n) /\ T # {}
      <3>1. \A i \in I : 1 .. i \subseteq 1 .. n
        OBVIOUS
      <3>2. QED
        BY <3>1, Zenon
    <2>2. QED
      BY <1>1, <2>1, FS_FiniteSubsetsOfFinite, Zenon
  <1> DEFINE R == StrictSubsetOrdering(1 .. n)
  <1>3. \E x \in T : \A y \in T : ~(<<y, x>> \in R)
    <2>1. IsWellFoundedOn(R, FiniteSubsetsOf(1 .. n))
      BY FS_StrictSubsetOrderingWellFounded, Zenon
    <2> HIDE DEF T, R
    <2>2. QED
      BY <1>2, <2>1, WFMin, Zenon
  <1>4. PICK i \in I : \A j \in I : ~(<<1 .. j, 1 .. i>> \in R)
    BY <1>3, Zenon
  <1>5. \A j \in I : i <= j
    <2> SUFFICES ASSUME NEW j \in I, j < i PROVE FALSE
      OBVIOUS
    <2>1. 1 .. j \subseteq 1 .. i /\ i \in 1 .. i /\ i \notin 1 .. j /\ 1 .. i \subseteq 1 .. n
      OBVIOUS
    <2>2. <<1 .. j, 1 .. i>> \in R
      BY <2>1, Zenon DEF StrictSubsetOrdering
    <2>3. QED
      BY <1>4, <2>2, Zenon
  <1>6. QED
    BY <1>5, Zenon DEF Min

LEMMA OccurrencesNat ==
  ASSUME NEW s \in Seq(Txs), NEW u
  PROVE  IsFiniteSet(Occurrences(s, u)) /\ Cardinality(Occurrences(s, u)) \in Nat
  <1>1. Occurrences(s, u) \in SUBSET (1 .. Len(s)) /\ Len(s) \in Nat
    BY DEF Occurrences
  <1>2. IsFiniteSet(1 .. Len(s))
    BY <1>1, FS_Interval
  <1>3. QED
    BY <1>1, <1>2, FS_Subset, FS_CardinalityType, Zenon

\* Append adds one occurrence of what is appended, and none of anything else.
LEMMA OccurrencesAppend ==
  ASSUME NEW s \in Seq(Txs), NEW t \in Txs, NEW u \in Txs
  PROVE  /\ IsFiniteSet(Occurrences(Append(s, t), u))
         /\ Cardinality(Occurrences(Append(s, t), u)) =
              Cardinality(Occurrences(s, u)) + (IF u = t THEN 1 ELSE 0)
  <1> DEFINE O == Occurrences(s, u)
             n == Len(s) + 1
  <1>1. IsFiniteSet(O) /\ n \notin O
    <2>1. IsFiniteSet(O)
      BY OccurrencesNat, Zenon
    <2>2. n \notin O
      BY DEF Occurrences
    <2>3. QED
      BY <2>1, <2>2, Zenon
  <1>2. Occurrences(Append(s, t), u) = IF u = t THEN O \cup {n} ELSE O
    BY DEF Occurrences
  <1> HIDE DEF O, n
  <1>3. IsFiniteSet(O \cup {n}) /\ Cardinality(O \cup {n}) = Cardinality(O) + 1
    BY <1>1, FS_AddElement, Zenon
  <1>4. Cardinality(O) \in Nat
    BY <1>1, FS_CardinalityType, Zenon
  <1>5. QED
    BY <1>1, <1>2, <1>3, <1>4 DEF O

\* Where the removal of t from a list that has it leaves the others.
LEMMA WithoutIs ==
  ASSUME NEW s \in Seq(Txs), NEW t \in Txs, Occurrences(s, t) # {}
  PROVE  \E at \in 1 .. Len(s) :
            /\ s[at] = t /\ Without(s, t) \in Seq(Txs) /\ Len(Without(s, t)) = Len(s) - 1
            /\ \A i \in 1 .. Len(s) - 1 :
                  Without(s, t)[i] = IF i = at THEN s[Len(s)] ELSE s[i]
  <1> DEFINE I == {i \in DOMAIN s : s[i] = t}
             at == Min(I)
             moved == [s EXCEPT ![at] = s[Len(s)]]
  <1>1. Len(s) \in Nat /\ I # {} /\ I \subseteq 1 .. Len(s)
    BY DEF Occurrences
  <1>2. at \in I
    BY <1>1, Least, Zenon
  <1>3. Without(s, t) = SubSeq(moved, 1, Len(s) - 1)
    BY <1>1, Zenon DEF Without
  <1> HIDE DEF I
  <1>4. at \in 1 .. Len(s) /\ s[at] = t
    BY <1>1, <1>2, Zenon DEF I
  <1> HIDE DEF at
  <1>6. moved \in Seq(Txs) /\ Len(moved) = Len(s)
    BY <1>4
  <1>7. \A i \in 1 .. Len(s) : moved[i] = IF i = at THEN s[Len(s)] ELSE s[i]
    BY <1>4
  <1> HIDE DEF moved
  <1>8. Without(s, t) \in Seq(Txs) /\ Len(Without(s, t)) = Len(s) - 1
    BY <1>1, <1>3, <1>4, <1>6
  <1>9. \A i \in 1 .. Len(s) - 1 : Without(s, t)[i] = moved[i]
    BY <1>1, <1>3, <1>4, <1>6
  <1>10. QED
    BY <1>1, <1>4, <1>7, <1>8, <1>9, SMTT(30)

\* It takes one occurrence of t away, and none of anything else.
LEMMA OccurrencesWithout ==
  ASSUME NEW s \in Seq(Txs), NEW t \in Txs, NEW u \in Txs, Occurrences(s, t) # {}
  PROVE  /\ Without(s, t) \in Seq(Txs)
         /\ Cardinality(Occurrences(Without(s, t), u)) =
              Cardinality(Occurrences(s, u)) - (IF u = t THEN 1 ELSE 0)
  <1> DEFINE O == Occurrences(s, u)
             P == Occurrences(Without(s, t), u)
             n == Len(s)
  <1>1. PICK at \in 1 .. n :
            /\ s[at] = t /\ Without(s, t) \in Seq(Txs) /\ Len(Without(s, t)) = n - 1
            /\ \A i \in 1 .. n - 1 : Without(s, t)[i] = IF i = at THEN s[n] ELSE s[i]
    BY WithoutIs, Zenon
  <1>2. IsFiniteSet(O)
    BY OccurrencesNat, Zenon
  <1>3. n \in Nat /\ at \in Nat /\ at <= n
    BY <1>1
  <1>4. \A i : i \in O <=> i \in 1 .. n /\ s[i] = u
    BY DEF Occurrences
  <1>5. \A i : i \in P <=> i \in 1 .. n - 1 /\ (IF i = at THEN s[n] ELSE s[i]) = u
    BY <1>1, <1>3, SMTT(30) DEF Occurrences
  <1> HIDE DEF O, P
  <1>6. Cardinality(O) \in Nat
    BY <1>2, FS_CardinalityType, Zenon
  <1>7. CASE u = t /\ s[n] = t
    <2>1. P = O \ {n} /\ n \in O
      <3>1. n \in 1 .. n /\ n \notin 1 .. n - 1 /\ \A i \in 1 .. n : i # n => i \in 1 .. n - 1
        BY <1>3, <1>1
      <3>2. \A i : i \in P <=> i \in O /\ i # n
        BY <1>1, <1>3, <1>4, <1>5, <1>7, <3>1
      <3>3. QED
        BY <1>4, <1>7, <3>1, <3>2, Zenon
    <2>2. Cardinality(P) = Cardinality(O) - 1
      BY <1>2, <2>1, FS_RemoveElement, Zenon
    <2>3. QED
      BY <1>1, <1>7, <2>2, Zenon DEF O, P
  <1>8. CASE u = t /\ s[n] # t
    <2>1. P = O \ {at} /\ at \in O
      BY <1>1, <1>3, <1>4, <1>5, <1>8
    <2>2. Cardinality(P) = Cardinality(O) - 1
      BY <1>2, <2>1, FS_RemoveElement, Zenon
    <2>3. QED
      BY <1>1, <1>8, <2>2, Zenon DEF O, P
  <1>9. CASE u # t /\ s[n] = u
    <2>1. P = (O \ {n}) \cup {at} /\ n \in O /\ at \notin O
      <3>1. n \in 1 .. n /\ n \notin 1 .. n - 1 /\ \A i \in 1 .. n : i # n => i \in 1 .. n - 1
        BY <1>3, <1>1
      <3>2. \A i : i \in P <=> (i \in O /\ i # n) \/ i = at
        BY <1>1, <1>3, <1>4, <1>5, <1>9, <3>1
      <3>3. QED
        BY <1>1, <1>4, <1>9, <3>1, <3>2, ZenonT(60)
    <2>2. IsFiniteSet(O \ {n}) /\ Cardinality(O \ {n}) = Cardinality(O) - 1
      BY <1>2, <2>1, FS_RemoveElement, Zenon
    <2>3. Cardinality(P) = Cardinality(O \ {n}) + 1
      BY <2>1, <2>2, FS_AddElement, Zenon
    <2>4. QED
      BY <1>1, <1>6, <1>9, <2>2, <2>3 DEF O, P
  <1>10. CASE u # t /\ s[n] # u
    <2>1. n \in 1 .. n /\ n \notin 1 .. n - 1 /\ \A i \in 1 .. n : i # n => i \in 1 .. n - 1
      BY <1>3, <1>1
    <2>2. \A i : i \in P <=> i \in O
      BY <1>1, <1>3, <1>4, <1>5, <1>10, <2>1
    <2>3. P = O
      BY <2>2, Zenon
    <2>4. QED
      BY <1>1, <1>6, <1>10, <2>3 DEF O, P
  <1>11. QED
    BY <1>7, <1>8, <1>9, <1>10, Zenon

-----------------------------------------------------------------------------
(* Sets of claims. *)

LEMMA ClaimsFinite ==
  ASSUME NEW C, IsFiniteSet(C), NEW K
  PROVE  IsFiniteSet(ClaimsOn(C, K)) /\ Cardinality(ClaimsOn(C, K)) \in Nat
  <1>1. ClaimsOn(C, K) \in SUBSET C
    BY Zenon DEF ClaimsOn
  <1>2. QED
    BY <1>1, FS_Subset, FS_CardinalityType, Zenon

LEMMA ClaimsFewer ==
  ASSUME NEW C, IsFiniteSet(C), NEW D, D \subseteq C, NEW K
  PROVE  Cardinality(ClaimsOn(D, K)) <= Cardinality(ClaimsOn(C, K))
  <1>1. ClaimsOn(D, K) \in SUBSET ClaimsOn(C, K)
    BY Zenon DEF ClaimsOn
  <1>2. QED
    BY <1>1, ClaimsFinite, FS_Subset, Zenon

LEMMA ClaimsDropped ==
  ASSUME NEW C, IsFiniteSet(C), NEW x \in C, NEW K
  PROVE  /\ x.tx \in K => Cardinality(ClaimsOn(C \ {x}, K)) = Cardinality(ClaimsOn(C, K)) - 1
         /\ x.tx \notin K => ClaimsOn(C \ {x}, K) = ClaimsOn(C, K)
  <1>1. CASE x.tx \in K
    <2>1. ClaimsOn(C \ {x}, K) = ClaimsOn(C, K) \ {x} /\ x \in ClaimsOn(C, K)
      BY <1>1, Zenon DEF ClaimsOn
    <2>2. QED
      BY <1>1, <2>1, ClaimsFinite, FS_RemoveElement, ZenonT(60)
  <1>2. CASE x.tx \notin K
    BY <1>2, Zenon DEF ClaimsOn
  <1>3. QED
    BY <1>1, <1>2, Zenon

LEMMA ClaimsAdded ==
  ASSUME NEW C, IsFiniteSet(C), NEW y, NEW K
  PROVE  /\ Cardinality(ClaimsOn(C \cup {y}, K)) <= Cardinality(ClaimsOn(C, K)) + 1
         /\ y.tx \notin K => ClaimsOn(C \cup {y}, K) = ClaimsOn(C, K)
  <1>1. CASE y.tx \in K
    <2>1. ClaimsOn(C \cup {y}, K) = ClaimsOn(C, K) \cup {y}
      BY <1>1, Zenon DEF ClaimsOn
    <2>2. IsFiniteSet(ClaimsOn(C, K)) /\ Cardinality(ClaimsOn(C, K)) \in Nat
      BY ClaimsFinite, Zenon
    <2>3. Cardinality(ClaimsOn(C, K) \cup {y}) <= Cardinality(ClaimsOn(C, K)) + 1
      <3>1. Cardinality(ClaimsOn(C, K) \cup {y}) =
              IF y \in ClaimsOn(C, K) THEN Cardinality(ClaimsOn(C, K))
                                      ELSE Cardinality(ClaimsOn(C, K)) + 1
        BY <2>2, FS_AddElement, Zenon
      <3>2. QED
        BY <2>2, <3>1
    <2>4. QED
      BY <1>1, <2>1, <2>3, Zenon
  <1>2. CASE y.tx \notin K
    <2>1. ClaimsOn(C \cup {y}, K) = ClaimsOn(C, K)
      BY <1>2, Zenon DEF ClaimsOn
    <2>2. QED
      BY <1>2, <2>1, ClaimsFinite
  <1>3. QED
    BY <1>1, <1>2, Zenon

LEMMA ClaimsSwapped ==
  ASSUME NEW C, IsFiniteSet(C), NEW x \in C, NEW y, y.tx = x.tx, NEW K
  PROVE  Cardinality(ClaimsOn((C \ {x}) \cup {y}, K)) <= Cardinality(ClaimsOn(C, K))
  <1> DEFINE D == C \ {x}
  <1>1. IsFiniteSet(D)
    BY FS_RemoveElement, Zenon
  <1>2. /\ x.tx \in K => Cardinality(ClaimsOn(D, K)) = Cardinality(ClaimsOn(C, K)) - 1
        /\ x.tx \notin K => ClaimsOn(D, K) = ClaimsOn(C, K)
    BY ClaimsDropped, Zenon
  <1> HIDE DEF D
  <1>3. /\ Cardinality(ClaimsOn(D \cup {y}, K)) <= Cardinality(ClaimsOn(D, K)) + 1
        /\ y.tx \notin K => ClaimsOn(D \cup {y}, K) = ClaimsOn(D, K)
    BY <1>1, ClaimsAdded, Zenon
  <1>4. Cardinality(ClaimsOn(C, K)) \in Nat /\ Cardinality(ClaimsOn(D, K)) \in Nat
        /\ Cardinality(ClaimsOn(D \cup {y}, K)) \in Nat
    <2>1. IsFiniteSet(D \cup {y})
      BY <1>1, FS_AddElement, Zenon
    <2>2. QED
      BY <1>1, <2>1, ClaimsFinite, Zenon
  <1>5. Cardinality(ClaimsOn(D \cup {y}, K)) <= Cardinality(ClaimsOn(C, K))
    BY <1>2, <1>3, <1>4
  <1>6. QED
    BY <1>5, Zenon DEF D

\* Fewer claims are covered by what covers more.
LEMMA CoversFewer ==
  ASSUME NEW C, NEW D, D \subseteq C, NEW cnt \in [Addresses -> Nat],
         NEW idx \in [Fees -> Seq(Txs)], Covers(C, idx, cnt)
  PROVE  Covers(D, idx, cnt)
  <1>1. IsFiniteSet(C) /\ IsFiniteSet(D)
    BY FS_Subset, Zenon DEF Covers
  <1>2. ASSUME NEW K PROVE /\ Cardinality(ClaimsOn(D, K)) <= Cardinality(ClaimsOn(C, K))
                           /\ Cardinality(ClaimsOn(D, K)) \in Nat
                           /\ Cardinality(ClaimsOn(C, K)) \in Nat
    BY <1>1, ClaimsFewer, ClaimsFinite, Zenon
  <1>3. ASSUME NEW t \in Txs
        PROVE  Cardinality(ClaimsOn(D, {t})) <= Cardinality(Occurrences(idx[t.fee], t))
    <2>1. Cardinality(Occurrences(idx[t.fee], t)) \in Nat
      BY OccurrencesNat, Zenon DEF Fees
    <2>2. Cardinality(ClaimsOn(C, {t})) <= Cardinality(Occurrences(idx[t.fee], t))
      BY Zenon DEF Covers
    <2>3. QED
      BY <1>2, <2>1, <2>2
  <1>4. ASSUME NEW a \in Addresses PROVE Cardinality(ClaimsOn(D, From(a))) <= cnt[a]
    BY <1>2 DEF Covers
  <1>5. QED
    BY <1>1, <1>3, <1>4, Zenon DEF Covers

\* A claim that changes hands stays covered.
LEMMA CoversSwapped ==
  ASSUME NEW C, NEW x \in C, NEW y, y.tx = x.tx, NEW cnt \in [Addresses -> Nat],
         NEW idx \in [Fees -> Seq(Txs)], Covers(C, idx, cnt)
  PROVE  Covers((C \ {x}) \cup {y}, idx, cnt)
  <1> DEFINE D == (C \ {x}) \cup {y}
  <1>1. IsFiniteSet(C) /\ IsFiniteSet(D)
    BY FS_AddElement, FS_RemoveElement, Zenon DEF Covers
  <1>2. ASSUME NEW K PROVE /\ Cardinality(ClaimsOn(D, K)) <= Cardinality(ClaimsOn(C, K))
                           /\ Cardinality(ClaimsOn(D, K)) \in Nat
                           /\ Cardinality(ClaimsOn(C, K)) \in Nat
    BY <1>1, ClaimsSwapped, ClaimsFinite, Zenon
  <1> HIDE DEF D
  <1>3. ASSUME NEW t \in Txs
        PROVE  Cardinality(ClaimsOn(D, {t})) <= Cardinality(Occurrences(idx[t.fee], t))
    <2>1. Cardinality(Occurrences(idx[t.fee], t)) \in Nat
      BY OccurrencesNat, Zenon DEF Fees
    <2>2. Cardinality(ClaimsOn(C, {t})) <= Cardinality(Occurrences(idx[t.fee], t))
      BY Zenon DEF Covers
    <2>3. QED
      BY <1>2, <2>1, <2>2
  <1>4. ASSUME NEW a \in Addresses PROVE Cardinality(ClaimsOn(D, From(a))) <= cnt[a]
    BY <1>2 DEF Covers
  <1>5. QED
    BY <1>1, <1>3, <1>4, Zenon DEF Covers, D

\* A new claim with an entry and a unit of its own.
LEMMA CoversIndexed ==
  ASSUME NEW C, NEW y, y.tx \in Txs, NEW cnt \in [Addresses -> Nat],
         NEW idx \in [Fees -> Seq(Txs)], Covers(C, idx, cnt)
  PROVE  Covers(C \cup {y}, [idx EXCEPT ![y.tx.fee] = Append(@, y.tx)],
                [cnt EXCEPT ![y.tx.from] = @ + 1])
  <1> DEFINE t == y.tx
             D == C \cup {y}
             jdx == [idx EXCEPT ![t.fee] = Append(@, t)]
             dnt == [cnt EXCEPT ![t.from] = @ + 1]
  <1>1. IsFiniteSet(C) /\ IsFiniteSet(D)
    BY FS_AddElement, Zenon DEF Covers
  <1>2. ASSUME NEW K PROVE /\ Cardinality(ClaimsOn(D, K)) <= Cardinality(ClaimsOn(C, K)) + 1
                           /\ t \notin K => ClaimsOn(D, K) = ClaimsOn(C, K)
                           /\ Cardinality(ClaimsOn(D, K)) \in Nat
                           /\ Cardinality(ClaimsOn(C, K)) \in Nat
    BY <1>1, ClaimsAdded, ClaimsFinite, Zenon
  <1> HIDE DEF D
  <1>3. ASSUME NEW u \in Txs
        PROVE  Cardinality(ClaimsOn(D, {u})) <= Cardinality(Occurrences(jdx[u.fee], u))
    <2>1. u.fee \in Fees /\ t.fee \in Fees
      BY Zenon DEF Fees
    <2>2. Cardinality(Occurrences(idx[u.fee], u)) \in Nat
      BY <2>1, OccurrencesNat, Zenon
    <2>3. Cardinality(ClaimsOn(C, {u})) <= Cardinality(Occurrences(idx[u.fee], u))
      BY Zenon DEF Covers
    <2>4. CASE u = t
      <3>1. jdx[u.fee] = Append(idx[t.fee], t)
        BY <2>1, <2>4, Zenon
      <3>2. Cardinality(Occurrences(jdx[u.fee], u)) = Cardinality(Occurrences(idx[u.fee], u)) + 1
        BY <2>1, <2>4, <3>1, OccurrencesAppend, Zenon
      <3>3. QED
        BY <1>2, <2>2, <2>3, <3>2
    <2>5. CASE u # t
      <3>1. Cardinality(Occurrences(jdx[u.fee], u)) = Cardinality(Occurrences(idx[u.fee], u))
        <4>1. CASE u.fee = t.fee
          <5>1. jdx[u.fee] = Append(idx[t.fee], t) /\ idx[t.fee] \in Seq(Txs)
            BY <2>1, <4>1, Zenon
          <5>2. Cardinality(Occurrences(Append(idx[t.fee], t), u)) =
                  Cardinality(Occurrences(idx[t.fee], u)) + 0
            BY <2>5, <5>1, OccurrencesAppend, Zenon
          <5>3. QED
            BY <2>2, <4>1, <5>1, <5>2
        <4>2. CASE u.fee # t.fee
          BY <2>1, <4>2, Zenon
        <4>3. QED
          BY <4>1, <4>2, Zenon
      <3>2. ClaimsOn(D, {u}) = ClaimsOn(C, {u})
        BY <1>2, <2>5, Zenon
      <3>3. QED
        BY <2>3, <3>1, <3>2, Zenon
    <2>6. QED
      BY <2>4, <2>5, Zenon
  <1>4. ASSUME NEW a \in Addresses PROVE Cardinality(ClaimsOn(D, From(a))) <= dnt[a]
    <2>1. t.from \in Addresses
      BY Zenon DEF Addresses
    <2>2. Cardinality(ClaimsOn(C, From(a))) <= cnt[a] /\ cnt[a] \in Nat
      BY Zenon DEF Covers
    <2>3. CASE a = t.from
      <3>1. dnt[a] = cnt[a] + 1
        BY <2>1, <2>3, Zenon
      <3>2. QED
        BY <1>2, <2>2, <3>1, SMTT(30)
    <2>4. CASE a # t.from
      <3>1. dnt[a] = cnt[a]
        BY <2>1, <2>4, Zenon
      <3>2. t \notin From(a)
        BY <2>4, Zenon DEF From
      <3>3. QED
        BY <1>2, <2>2, <3>1, <3>2, Zenon
    <2>5. QED
      BY <2>3, <2>4, Zenon
  <1>5. QED
    BY <1>1, <1>3, <1>4, Zenon DEF Covers, D

\* A claim that goes with its entry and its unit.
LEMMA CoversUnindexed ==
  ASSUME NEW C, NEW x \in C, x.tx \in Txs, NEW cnt \in [Addresses -> Nat],
         NEW idx \in [Fees -> Seq(Txs)], Covers(C, idx, cnt)
  PROVE  /\ Without(idx[x.tx.fee], x.tx) \in Seq(Txs)
         /\ Covers(C \ {x}, [idx EXCEPT ![x.tx.fee] = Without(@, x.tx)],
                   [cnt EXCEPT ![x.tx.from] = IF @ = 0 THEN 0 ELSE @ - 1])
  <1> DEFINE t == x.tx
             D == C \ {x}
             jdx == [idx EXCEPT ![t.fee] = Without(@, t)]
             dnt == [cnt EXCEPT ![t.from] = IF @ = 0 THEN 0 ELSE @ - 1]
  <1>1. IsFiniteSet(C) /\ IsFiniteSet(D)
    BY FS_RemoveElement, Zenon DEF Covers
  <1>2. ASSUME NEW K
        PROVE  /\ t \in K => Cardinality(ClaimsOn(D, K)) = Cardinality(ClaimsOn(C, K)) - 1
               /\ t \notin K => ClaimsOn(D, K) = ClaimsOn(C, K)
               /\ Cardinality(ClaimsOn(D, K)) \in Nat
               /\ Cardinality(ClaimsOn(C, K)) \in Nat
    BY <1>1, ClaimsDropped, ClaimsFinite, Zenon
  <1> HIDE DEF D
  <1>3. t.fee \in Fees /\ t.from \in Addresses /\ idx[t.fee] \in Seq(Txs)
    BY Zenon DEF Fees, Addresses
  <1>4. Occurrences(idx[t.fee], t) # {}
    <2>1. Cardinality(ClaimsOn(C, {t})) >= 1
      BY <1>2
    <2>2. Cardinality(ClaimsOn(C, {t})) <= Cardinality(Occurrences(idx[t.fee], t))
      BY Zenon DEF Covers
    <2>3. Cardinality(Occurrences(idx[t.fee], t)) \in Nat
      BY <1>3, OccurrencesNat, Zenon
    <2>4. Cardinality(Occurrences(idx[t.fee], t)) # 0
      BY <1>2, <2>1, <2>2, <2>3
    <2>5. QED
      BY <2>4, FS_EmptySet, Zenon
  <1>5. /\ Without(idx[t.fee], t) \in Seq(Txs)
        /\ \A u \in Txs : Cardinality(Occurrences(Without(idx[t.fee], t), u)) =
              Cardinality(Occurrences(idx[t.fee], u)) - (IF u = t THEN 1 ELSE 0)
    BY <1>3, <1>4, OccurrencesWithout, Zenon
  <1>6. ASSUME NEW u \in Txs
        PROVE  Cardinality(ClaimsOn(D, {u})) <= Cardinality(Occurrences(jdx[u.fee], u))
    <2>1. u.fee \in Fees
      BY Zenon DEF Fees
    <2>2. Cardinality(Occurrences(idx[u.fee], u)) \in Nat
      BY <2>1, OccurrencesNat, Zenon
    <2>3. Cardinality(ClaimsOn(C, {u})) <= Cardinality(Occurrences(idx[u.fee], u))
      BY Zenon DEF Covers
    <2>4. CASE u = t
      <3>1. jdx[u.fee] = Without(idx[t.fee], t)
        BY <1>3, <2>4, Zenon
      <3>2. Cardinality(Occurrences(jdx[u.fee], u)) = Cardinality(Occurrences(idx[u.fee], u)) - 1
        BY <1>5, <2>4, <3>1, Zenon
      <3>3. Cardinality(ClaimsOn(D, {u})) = Cardinality(ClaimsOn(C, {u})) - 1
        BY <1>2, <2>4, Zenon
      <3>4. QED
        BY <1>2, <2>2, <2>3, <3>2, <3>3
    <2>5. CASE u # t
      <3>1. Cardinality(Occurrences(jdx[u.fee], u)) = Cardinality(Occurrences(idx[u.fee], u))
        <4>1. CASE u.fee = t.fee
          <5>1. jdx[u.fee] = Without(idx[t.fee], t)
            BY <1>3, <4>1, Zenon
          <5>2. Cardinality(Occurrences(Without(idx[t.fee], t), u)) =
                  Cardinality(Occurrences(idx[t.fee], u)) - 0
            BY <1>5, <2>5, Zenon
          <5>3. QED
            BY <2>2, <4>1, <5>1, <5>2
        <4>2. CASE u.fee # t.fee
          BY <1>3, <2>1, <4>2, Zenon
        <4>3. QED
          BY <4>1, <4>2, Zenon
      <3>2. ClaimsOn(D, {u}) = ClaimsOn(C, {u})
        BY <1>2, <2>5, Zenon
      <3>3. QED
        BY <2>3, <3>1, <3>2, Zenon
    <2>6. QED
      BY <2>4, <2>5, Zenon
  <1>7. ASSUME NEW a \in Addresses PROVE Cardinality(ClaimsOn(D, From(a))) <= dnt[a]
    <2>1. Cardinality(ClaimsOn(C, From(a))) <= cnt[a] /\ cnt[a] \in Nat
      BY Zenon DEF Covers
    <2>2. CASE a = t.from
      <3>1. Cardinality(ClaimsOn(D, From(a))) = Cardinality(ClaimsOn(C, From(a))) - 1
        BY <1>2, <2>2, Zenon DEF From
      <3>2. cnt[a] # 0
        BY <1>2, <2>1, <3>1
      <3>3. dnt[a] = cnt[a] - 1
        BY <1>3, <2>1, <2>2, <3>2, Zenon
      <3>4. QED
        BY <1>2, <2>1, <3>1, <3>3
    <2>3. CASE a # t.from
      <3>1. dnt[a] = cnt[a]
        BY <1>3, <2>3, Zenon
      <3>2. t \notin From(a)
        BY <2>3, Zenon DEF From
      <3>3. QED
        BY <1>2, <2>1, <3>1, <3>2, Zenon
    <2>4. QED
      BY <2>2, <2>3, Zenon
  <1>8. QED
    BY <1>1, <1>5, <1>6, <1>7, Zenon DEF Covers, D

-----------------------------------------------------------------------------
(* Steps of an adder. *)

\* Adder a goes on at pc, and the others stay where they are.
Moved(a, pc, t, old) ==
    /\ adder' \in [Adders -> AdderStates]
    /\ adder'[a].pc = pc /\ adder'[a].tx = t /\ adder'[a].old = old
    /\ \A b \in Adders : b # a => adder'[b] = adder[b]

LEMMA GotoMoves ==
  ASSUME Typed, NEW a \in Adders, NEW pc \in Places, Goto(a, pc)
  PROVE  Moved(a, pc, adder[a].tx, adder[a].old)
  <1>1. adder' = [adder EXCEPT ![a].pc = pc] /\ adder \in [Adders -> AdderStates]
    BY Zenon DEF Goto, Typed
  <1>2. adder'[a] = [adder[a] EXCEPT !.pc = pc] /\ adder[a] \in AdderStates
    BY <1>1, Zenon
  <1>3. /\ adder'[a] \in AdderStates /\ adder'[a].pc = pc
        /\ adder'[a].tx = adder[a].tx /\ adder'[a].old = adder[a].old
    BY <1>2, Zenon DEF AdderStates
  <1>4. QED
    BY <1>1, <1>3, Zenon DEF Moved

LEMMA ReturnMoves ==
  ASSUME Typed, NEW a \in Adders, Return(a) PROVE Moved(a, "idle", NoTx, NoTx)
  <1>1. adder' = [adder EXCEPT ![a] = Idle] /\ adder \in [Adders -> AdderStates]
    BY Zenon DEF Return, Typed
  <1>2. Idle \in AdderStates /\ Idle.pc = "idle" /\ Idle.tx = NoTx /\ Idle.old = NoTx
    BY Zenon DEF Idle, AdderStates, Places
  <1>3. QED
    BY <1>1, <1>2, Zenon DEF Moved

LEMMA MovedTyped ==
  ASSUME Typed, NEW a \in Adders, NEW pc \in Places, NEW t, NEW old, Moved(a, pc, t, old),
         pc # "idle" => t \in Txs, pc \in {"remove", "unindex"} => old \in Txs,
         transactions' \subseteq Txs, count' \in [Addresses -> Nat],
         index' \in [Fees -> Seq(Txs)], UNCHANGED remover
  PROVE  Typed'
  <1>1. \A b \in Adders : /\ adder'[b].pc # "idle" => adder'[b].tx \in Txs
                          /\ adder'[b].pc \in {"remove", "unindex"} => adder'[b].old \in Txs
    BY Zenon DEF Typed, Moved
  <1>2. QED
    BY <1>1, Zenon DEF Typed, Moved

\* What the claims of the adders become.
LEMMA MovedClaims ==
  ASSUME NEW a \in Adders, NEW pc, NEW t, NEW old, Moved(a, pc, t, old)
  PROVE  /\ \A c \in PublishClaims' : \/ c \in PublishClaims /\ c.by # a
                                      \/ pc = "publish" /\ c = Claim("publish", a, t)
         /\ \A c \in UnindexClaims' : \/ c \in UnindexClaims /\ c.by # a
                                      \/ pc = "unindex" /\ c = Claim("unindex", a, old)
  <1>1. ASSUME NEW c \in PublishClaims'
        PROVE  \/ c \in PublishClaims /\ c.by # a
               \/ pc = "publish" /\ c = Claim("publish", a, t)
    <2>1. PICK b \in Adders : adder'[b].pc = "publish" /\ c = Claim("publish", b, adder'[b].tx)
      BY <1>1, Zenon DEF PublishClaims
    <2>2. CASE b = a
      BY <2>1, <2>2, Zenon DEF Moved
    <2>3. CASE b # a
      <3>1. adder[b].pc = "publish" /\ c = Claim("publish", b, adder[b].tx) /\ c.by = b
        BY <2>1, <2>3, Zenon DEF Moved, Claim
      <3>2. QED
        BY <2>3, <3>1, Zenon DEF PublishClaims
    <2>4. QED
      BY <2>2, <2>3, Zenon
  <1>2. ASSUME NEW c \in UnindexClaims'
        PROVE  \/ c \in UnindexClaims /\ c.by # a
               \/ pc = "unindex" /\ c = Claim("unindex", a, old)
    <2>1. PICK b \in Adders : adder'[b].pc = "unindex" /\ c = Claim("unindex", b, adder'[b].old)
      BY <1>2, Zenon DEF UnindexClaims
    <2>2. CASE b = a
      BY <2>1, <2>2, Zenon DEF Moved
    <2>3. CASE b # a
      <3>1. adder[b].pc = "unindex" /\ c = Claim("unindex", b, adder[b].old) /\ c.by = b
        BY <2>1, <2>3, Zenon DEF Moved, Claim
      <3>2. QED
        BY <2>3, <3>1, Zenon DEF UnindexClaims
    <2>4. QED
      BY <2>2, <2>3, Zenon
  <1>3. QED
    BY <1>1, <1>2, Zenon

LEMMA Kinds ==
  /\ \A c \in PoolClaims : c.kind = "pool" /\ c.tx \in transactions
  /\ \A c \in PublishClaims : c.kind = "publish"
  /\ \A c \in UnindexClaims : c.kind = "unindex"
  /\ \A c \in RemoverClaims : c.kind = "remover"
  BY DEF PoolClaims, PublishClaims, UnindexClaims, RemoverClaims, Claim

\* Neither more transactions nor more tasks past the capacity check.
LEMMA ReservedKept ==
  ASSUME Reserved, transactions' \subseteq transactions, Busy' \subseteq Busy
  PROVE  Reserved'
  <1>1. IsFiniteSet(Busy) /\ IsFiniteSet(Adders)
    <2>1. Busy \in SUBSET Adders
      BY Zenon DEF Busy
    <2>2. QED
      BY <2>1, FS_Subset, MempoolAssumption, Zenon
  <1>2. /\ IsFiniteSet(transactions') /\ Cardinality(transactions') <= Cardinality(transactions)
        /\ Cardinality(Busy') <= Cardinality(Busy) /\ IsFiniteSet(Busy')
    BY <1>1, FS_Subset, Zenon DEF Reserved
  <1>3. /\ Cardinality(transactions) \in Nat /\ Cardinality(transactions') \in Nat
        /\ Cardinality(Busy) \in Nat /\ Cardinality(Busy') \in Nat /\ Cardinality(Adders) \in Nat
    BY <1>1, <1>2, FS_CardinalityType, Zenon DEF Reserved
  <1>4. MaxSize \in Nat
    BY MempoolAssumption, Zenon
  <1>5. QED
    BY <1>2, <1>3, <1>4 DEF Reserved

LEMMA MovedBusy ==
  ASSUME NEW a \in Adders, NEW pc, NEW t, NEW old, Moved(a, pc, t, old), adder[a].pc # "idle"
  PROVE  Busy' \subseteq Busy
  BY Zenon DEF Busy, Moved

\* A step of an adder that holds no claim and gets none.
LEMMA QuietAdder ==
  ASSUME Inv, NEW a \in Adders, NEW pc \in Places, NEW t, NEW old, Moved(a, pc, t, old),
         pc \notin {"publish", "unindex"}, UNCHANGED <<pool, remover>>
  PROVE  Covered'
  <1>1. \A c \in PublishClaims' : c \in PublishClaims
    BY MovedClaims, Zenon
  <1>2. \A c \in UnindexClaims' : c \in UnindexClaims
    BY MovedClaims, Zenon
  <1>3. PoolClaims' = PoolClaims /\ RemoverClaims' = RemoverClaims
    BY Zenon DEF PoolClaims, RemoverClaims, pool
  <1>4. Claims' \subseteq Claims
    BY <1>1, <1>2, <1>3, Zenon DEF Claims
  <1>5. Covers(Claims', index, count)
    BY <1>4, CoversFewer, Zenon DEF Inv, Typed, Covered
  <1>6. QED
    BY <1>5, Zenon DEF Covered, pool

LEMMA SubmitInv == ASSUME Inv, NEW a \in Adders, NEW t \in Txs, Submit(a, t) PROVE Inv'
  <1>1. /\ adder[a].pc = "idle" /\ Cardinality(transactions) < MaxSize
        /\ adder' = [adder EXCEPT ![a] = [pc |-> "validate", tx |-> t, old |-> NoTx]]
        /\ UNCHANGED <<pool, remover>>
    BY Zenon DEF Submit, HasRoom
  <1>2. Moved(a, "validate", t, NoTx)
    <2>1. [pc |-> "validate", tx |-> t, old |-> NoTx] \in AdderStates
      BY Zenon DEF AdderStates, Places
    <2>2. QED
      BY <1>1, <2>1, Zenon DEF Moved, Inv, Typed
  <1>3. Typed'
    <2>1. "validate" \in Places
      BY Zenon DEF Places
    <2>2. /\ transactions' \subseteq Txs /\ count' \in [Addresses -> Nat]
          /\ index' \in [Fees -> Seq(Txs)]
      BY <1>1, Zenon DEF Inv, Typed, pool
    <2>3. QED
      BY <1>1, <1>2, <2>1, <2>2, MovedTyped, Zenon DEF Inv
  <1>4. Covered'
    BY <1>1, <1>2, QuietAdder, Zenon DEF Places
  <1>5. Reserved'
    <2>1. IsFiniteSet(transactions) /\ transactions' = transactions
      BY <1>1, Zenon DEF Inv, Reserved, pool
    <2>2. Busy' \in SUBSET Adders /\ IsFiniteSet(Adders) /\ MaxSize \in Nat
      BY MempoolAssumption, Zenon DEF Busy
    <2>3. /\ Cardinality(transactions) \in Nat /\ Cardinality(Busy') \in Nat
          /\ Cardinality(Adders) \in Nat /\ Cardinality(Busy') <= Cardinality(Adders)
      BY <2>1, <2>2, FS_Subset, FS_CardinalityType, Zenon
    <2>4. QED
      BY <1>1, <2>1, <2>2, <2>3 DEF Reserved
  <1>6. QED
    BY <1>3, <1>4, <1>5, Zenon DEF Inv

\* A step of an adder under way that changes neither the pool nor its claims.
LEMMA MovesOnInv ==
  ASSUME Inv, NEW a \in Adders, adder[a].pc # "idle", NEW pc \in Places, NEW t, NEW old,
         Moved(a, pc, t, old), pc \notin {"publish", "unindex"},
         pc # "idle" => t \in Txs, pc = "remove" => old \in Txs, UNCHANGED <<pool, remover>>
  PROVE  Inv'
  <1>1. Typed'
    <2>1. /\ transactions' \subseteq Txs /\ count' \in [Addresses -> Nat]
          /\ index' \in [Fees -> Seq(Txs)]
      BY Zenon DEF Inv, Typed, pool
    <2>2. QED
      BY <2>1, MovedTyped, Zenon DEF Inv
  <1>2. Covered'
    BY QuietAdder, Zenon
  <1>3. Reserved'
    <2>1. Busy' \subseteq Busy /\ transactions' \subseteq transactions
      BY MovedBusy, Zenon DEF pool
    <2>2. QED
      BY <2>1, ReservedKept, Zenon DEF Inv
  <1>4. QED
    BY <1>1, <1>2, <1>3, Zenon DEF Inv

LEMMA ValidateInv == ASSUME Inv, NEW a \in Adders, Validate(a) PROVE Inv'
  <1>1. /\ adder[a].pc = "validate" /\ adder[a].tx \in Txs /\ UNCHANGED <<pool, remover>>
        /\ Goto(a, "lookup") \/ Return(a)
    BY Zenon DEF Validate, Inv, Typed
  <1>2. CASE Goto(a, "lookup")
    <2>1. Moved(a, "lookup", adder[a].tx, adder[a].old)
      BY <1>2, GotoMoves, Zenon DEF Inv, Places
    <2>2. QED
      BY <1>1, <2>1, MovesOnInv, Zenon DEF Places
  <1>3. CASE Return(a)
    <2>1. Moved(a, "idle", NoTx, NoTx)
      BY <1>3, ReturnMoves, Zenon DEF Inv
    <2>2. QED
      BY <1>1, <2>1, MovesOnInv, Zenon DEF Places
  <1>4. QED
    BY <1>1, <1>2, <1>3, Zenon

LEMMA LookupInv == ASSUME Inv, NEW a \in Adders, Lookup(a) PROVE Inv'
  <1>1. /\ adder[a].pc = "lookup" /\ adder[a].tx \in Txs /\ UNCHANGED <<pool, remover>>
        /\ \/ Goto(a, "index") \/ Return(a)
           \/ \E u \in SameNonce(adder[a].tx) :
                 adder' = [adder EXCEPT ![a].pc = "remove", ![a].old = u]
    BY Zenon DEF Lookup, Inv, Typed
  <1>2. CASE Goto(a, "index")
    <2>1. Moved(a, "index", adder[a].tx, adder[a].old)
      BY <1>2, GotoMoves, Zenon DEF Inv, Places
    <2>2. QED
      BY <1>1, <2>1, MovesOnInv, Zenon DEF Places
  <1>3. CASE Return(a)
    <2>1. Moved(a, "idle", NoTx, NoTx)
      BY <1>3, ReturnMoves, Zenon DEF Inv
    <2>2. QED
      BY <1>1, <2>1, MovesOnInv, Zenon DEF Places
  <1>4. ASSUME NEW u \in SameNonce(adder[a].tx),
               adder' = [adder EXCEPT ![a].pc = "remove", ![a].old = u]
        PROVE  Inv'
    <2>1. u \in Txs
      BY Zenon DEF SameNonce, Inv, Typed
    <2>2. adder \in [Adders -> AdderStates] /\ adder[a] \in AdderStates
      BY Zenon DEF Inv, Typed
    <2>3. /\ adder'[a] = [adder[a] EXCEPT !.pc = "remove", !.old = u]
          /\ \A b \in Adders : b # a => adder'[b] = adder[b]
      BY <1>4, <2>2, Zenon
    <2>4. /\ adder'[a] \in AdderStates /\ adder'[a].pc = "remove" /\ adder'[a].old = u
          /\ adder'[a].tx = adder[a].tx
      BY <2>1, <2>2, <2>3, Zenon DEF AdderStates, Places
    <2>5. adder' \in [Adders -> AdderStates]
      BY <1>4, <2>2, <2>4, Zenon
    <2>6. Moved(a, "remove", adder[a].tx, u)
      BY <2>3, <2>4, <2>5, Zenon DEF Moved
    <2>7. QED
      BY <1>1, <2>1, <2>6, MovesOnInv, Zenon DEF Places
  <1>5. QED
    BY <1>1, <1>2, <1>3, <1>4, Zenon

LEMMA RemoveOldInv == ASSUME Inv, NEW a \in Adders, RemoveOld(a) PROVE Inv'
  <1> DEFINE old == adder[a].old
  <1>1. /\ adder[a].pc = "remove" /\ adder[a].tx \in Txs /\ old \in Txs
        /\ transactions' = transactions \ {old}
        /\ UNCHANGED <<nonces, count, index, remover>>
    BY Zenon DEF RemoveOld, Inv, Typed
  <1>2. CASE old \in transactions
    <2>1. Moved(a, "unindex", adder[a].tx, old)
      BY <1>2, GotoMoves, Zenon DEF RemoveOld, Found, Inv, Places
    <2>2. Typed'
      <3>1. /\ transactions' \subseteq Txs /\ count' \in [Addresses -> Nat]
            /\ index' \in [Fees -> Seq(Txs)]
        BY <1>1, Zenon DEF Inv, Typed
      <3>2. QED
        BY <1>1, <2>1, <3>1, MovedTyped, Zenon DEF Inv, Places
    <2>3. Reserved'
      <3>1. Busy' \subseteq Busy /\ transactions' \subseteq transactions
        BY <1>1, <2>1, MovedBusy, Zenon
      <3>2. QED
        BY <3>1, ReservedKept, Zenon DEF Inv
    <2>4. Covered'
      <3> DEFINE x == Claim("pool", NoTx, old)
                 y == Claim("unindex", a, old)
      <3>1. x \in Claims /\ x.tx = old /\ y.tx = old /\ x.kind = "pool"
        BY <1>2, Zenon DEF Claims, PoolClaims, Claim
      <3>2. \A c \in PublishClaims' : c \in PublishClaims
        BY <2>1, MovedClaims
      <3>3. \A c \in UnindexClaims' : c \in UnindexClaims \/ c = y
        BY <2>1, MovedClaims, Zenon
      <3>4. \A c \in PoolClaims' : c \in PoolClaims /\ c.tx # old
        BY <1>1 DEF PoolClaims, Claim
      <3>5. RemoverClaims' = RemoverClaims
        BY <1>1, Zenon DEF RemoverClaims
      <3> HIDE DEF x, y
      <3>6. Claims' \subseteq (Claims \ {x}) \cup {y}
        BY <3>1, <3>2, <3>3, <3>4, <3>5, Kinds, Zenon DEF Claims
      <3>7. Covers((Claims \ {x}) \cup {y}, index, count)
        BY <3>1, CoversSwapped, Zenon DEF Inv, Typed, Covered
      <3>8. Covers(Claims', index, count)
        BY <3>6, <3>7, CoversFewer, Zenon DEF Inv, Typed
      <3>9. QED
        BY <1>1, <3>8, Zenon DEF Covered
    <2>5. QED
      BY <2>2, <2>3, <2>4, Zenon DEF Inv
  <1>3. CASE old \notin transactions
    <2>1. Moved(a, "index", adder[a].tx, old)
      BY <1>3, GotoMoves, Zenon DEF RemoveOld, Found, Inv, Places
    <2>2. UNCHANGED <<pool, remover>>
      BY <1>1, <1>3, Zenon DEF pool
    <2>3. QED
      BY <1>1, <2>1, <2>2, MovesOnInv, Zenon DEF Places
  <1>4. QED
    BY <1>2, <1>3, Zenon

\* What Unindex leaves of the counters and of the lists.
LEMMA UnindexTyped ==
  ASSUME Typed, NEW t \in Txs, Without(index[t.fee], t) \in Seq(Txs), Unindex(t)
  PROVE  count' \in [Addresses -> Nat] /\ index' \in [Fees -> Seq(Txs)]
  <1>1. /\ count' = [count EXCEPT ![t.from] = IF @ = 0 THEN 0 ELSE @ - 1]
        /\ index' = [index EXCEPT ![t.fee] = Without(@, t)]
    BY Zenon DEF Unindex
  <1>2. count \in [Addresses -> Nat] /\ index \in [Fees -> Seq(Txs)]
    BY Zenon DEF Typed
  <1>3. index' \in [Fees -> Seq(Txs)]
    BY <1>1, <1>2, Zenon
  <1> DEFINE n == IF count[t.from] = 0 THEN 0 ELSE count[t.from] - 1
  <1>4. count' = [count EXCEPT ![t.from] = n]
    BY <1>1, Zenon
  <1>5. n \in Nat
    <2>1. count[t.from] \in Nat
      BY <1>2 DEF Addresses
    <2>2. QED
      BY <2>1
  <1> HIDE DEF n
  <1>6. QED
    BY <1>2, <1>3, <1>4, <1>5, Zenon

LEMMA UnindexOldInv == ASSUME Inv, NEW a \in Adders, UnindexOld(a) PROVE Inv'
  <1> DEFINE old == adder[a].old
             x == Claim("unindex", a, old)
  <1>1. /\ adder[a].pc = "unindex" /\ adder[a].tx \in Txs /\ old \in Txs /\ Unindex(old)
        /\ Goto(a, "index") /\ UNCHANGED <<transactions, remover>>
    BY Zenon DEF UnindexOld, Inv, Typed
  <1>2. Moved(a, "index", adder[a].tx, old)
    BY <1>1, GotoMoves, Zenon DEF Inv, Places
  <1>3. x \in Claims /\ x.tx = old /\ x.by = a /\ x.kind = "unindex"
    BY <1>1, Zenon DEF Claims, UnindexClaims, Claim
  <1> HIDE DEF x
  <1>4. /\ Without(index[old.fee], old) \in Seq(Txs)
        /\ Covers(Claims \ {x}, [index EXCEPT ![old.fee] = Without(@, old)],
                  [count EXCEPT ![old.from] = IF @ = 0 THEN 0 ELSE @ - 1])
    <2>1. /\ count \in [Addresses -> Nat] /\ index \in [Fees -> Seq(Txs)]
          /\ Covers(Claims, index, count) /\ x.tx \in Txs
      BY <1>1, <1>3, Zenon DEF Inv, Typed, Covered
    <2>2. /\ Without(index[x.tx.fee], x.tx) \in Seq(Txs)
          /\ Covers(Claims \ {x}, [index EXCEPT ![x.tx.fee] = Without(@, x.tx)],
                    [count EXCEPT ![x.tx.from] = IF @ = 0 THEN 0 ELSE @ - 1])
      BY <1>3, <2>1, CoversUnindexed, Zenon
    <2>3. QED
      BY <1>3, <2>2, Zenon
  <1>5. count' \in [Addresses -> Nat] /\ index' \in [Fees -> Seq(Txs)]
    BY <1>1, <1>4, UnindexTyped, Zenon DEF Inv
  <1>6. Typed'
    <2>1. transactions' \subseteq Txs
      BY <1>1, Zenon DEF Inv, Typed
    <2>2. QED
      BY <1>1, <1>2, <1>5, <2>1, MovedTyped, Zenon DEF Inv, Places
  <1>7. Reserved'
    <2>1. Busy' \subseteq Busy /\ transactions' \subseteq transactions
      BY <1>1, <1>2, MovedBusy, Zenon
    <2>2. QED
      BY <2>1, ReservedKept, Zenon DEF Inv
  <1>8. Covered'
    <2>1. \A c \in PublishClaims' : c \in PublishClaims
      BY <1>2, MovedClaims
    <2>2. \A c \in UnindexClaims' : c \in UnindexClaims /\ c.by # a
      BY <1>2, MovedClaims
    <2>3. PoolClaims' = PoolClaims /\ RemoverClaims' = RemoverClaims
      BY <1>1, Zenon DEF PoolClaims, RemoverClaims
    <2>4. Claims' \subseteq Claims \ {x}
      BY <1>3, <2>1, <2>2, <2>3, Kinds, Zenon DEF Claims
    <2>5. Covers(Claims \ {x}, index', count')
      BY <1>1, <1>4, Zenon DEF Unindex
    <2>6. QED
      BY <1>5, <2>4, <2>5, CoversFewer, Zenon DEF Covered
  <1>9. QED
    BY <1>6, <1>7, <1>8, Zenon DEF Inv

LEMMA IndexNewInv == ASSUME Inv, NEW a \in Adders, IndexNew(a) PROVE Inv'
  <1> DEFINE t == adder[a].tx
             y == Claim("publish", a, t)
  <1>1. /\ adder[a].pc = "index" /\ t \in Txs /\ Goto(a, "publish")
        /\ count' = [count EXCEPT ![t.from] = @ + 1]
        /\ index' = [index EXCEPT ![t.fee] = Append(@, t)]
        /\ UNCHANGED <<transactions, remover>>
    BY Zenon DEF IndexNew, Inv, Typed
  <1>2. Moved(a, "publish", t, adder[a].old)
    BY <1>1, GotoMoves, Zenon DEF Inv, Places
  <1>3. y.tx = t
    BY Zenon DEF Claim
  <1>4. count' \in [Addresses -> Nat] /\ index' \in [Fees -> Seq(Txs)]
    <2>1. count \in [Addresses -> Nat] /\ index \in [Fees -> Seq(Txs)]
      BY Zenon DEF Inv, Typed
    <2>2. index' \in [Fees -> Seq(Txs)]
      <3>1. Append(index[t.fee], t) \in Seq(Txs)
        BY <1>1, <2>1 DEF Fees
      <3>2. QED
        BY <1>1, <2>1, <3>1, ZenonT(60)
    <2>3. count' \in [Addresses -> Nat]
      <3>1. count[t.from] + 1 \in Nat
        BY <1>1, <2>1, SMTT(30) DEF Addresses
      <3>2. QED
        BY <1>1, <2>1, <3>1, ZenonT(60)
    <2>4. QED
      BY <2>2, <2>3, Zenon
  <1>5. Typed'
    <2>1. transactions' \subseteq Txs
      BY <1>1, Zenon DEF Inv, Typed
    <2>2. QED
      BY <1>1, <1>2, <1>4, <2>1, MovedTyped, Zenon DEF Inv, Places
  <1>6. Reserved'
    <2>1. Busy' \subseteq Busy /\ transactions' \subseteq transactions
      BY <1>1, <1>2, MovedBusy, Zenon
    <2>2. QED
      BY <2>1, ReservedKept, Zenon DEF Inv
  <1>7. Covered'
    <2>1. \A c \in PublishClaims' : c \in PublishClaims \/ c = y
      BY <1>2, MovedClaims, Zenon
    <2>2. \A c \in UnindexClaims' : c \in UnindexClaims
      BY <1>2, MovedClaims
    <2>3. PoolClaims' = PoolClaims /\ RemoverClaims' = RemoverClaims
      BY <1>1, Zenon DEF PoolClaims, RemoverClaims
    <2> HIDE DEF y
    <2>4. Claims' \subseteq Claims \cup {y}
      BY <2>1, <2>2, <2>3, Zenon DEF Claims
    <2>5. Covers(Claims \cup {y}, index', count')
      BY <1>1, <1>3, CoversIndexed, Zenon DEF Inv, Typed, Covered
    <2>6. QED
      BY <1>4, <2>4, <2>5, CoversFewer, Zenon DEF Covered
  <1>8. QED
    BY <1>5, <1>6, <1>7, Zenon DEF Inv

LEMMA PublishInv == ASSUME Inv, NEW a \in Adders, Publish(a) PROVE Inv'
  <1> DEFINE t == adder[a].tx
             x == Claim("publish", a, t)
             y == Claim("pool", NoTx, t)
  <1>1. /\ adder[a].pc = "publish" /\ t \in Txs /\ Return(a)
        /\ transactions' = transactions \cup {t}
        /\ UNCHANGED <<count, index, remover>>
    BY Zenon DEF Publish, Inv, Typed
  <1>2. Moved(a, "idle", NoTx, NoTx)
    BY <1>1, ReturnMoves, Zenon DEF Inv
  <1>3. Typed'
    <2>1. /\ transactions' \subseteq Txs /\ count' \in [Addresses -> Nat]
          /\ index' \in [Fees -> Seq(Txs)]
      BY <1>1, Zenon DEF Inv, Typed
    <2>2. QED
      BY <1>1, <1>2, <2>1, MovedTyped, Zenon DEF Inv, Places
  <1>4. Reserved'
    <2>1. Busy' = Busy \ {a} /\ a \in Busy
      BY <1>1, <1>2, Zenon DEF Busy, Moved
    <2>2. IsFiniteSet(Busy) /\ IsFiniteSet(Adders) /\ IsFiniteSet(transactions)
      <3>1. Busy \in SUBSET Adders
        BY Zenon DEF Busy
      <3>2. QED
        BY <3>1, FS_Subset, MempoolAssumption, Zenon DEF Inv, Reserved
    <2>3. Cardinality(Busy') = Cardinality(Busy) - 1
      BY <2>1, <2>2, FS_RemoveElement, Zenon
    <2>4. /\ IsFiniteSet(transactions') /\ Cardinality(transactions') \in Nat
          /\ Cardinality(transactions') <= Cardinality(transactions) + 1
      <3>1. /\ IsFiniteSet(transactions')
            /\ Cardinality(transactions') = IF t \in transactions THEN Cardinality(transactions)
                                            ELSE Cardinality(transactions) + 1
        BY <1>1, <2>2, FS_AddElement, Zenon
      <3>2. Cardinality(transactions) \in Nat
        BY <2>2, FS_CardinalityType, Zenon
      <3>3. QED
        BY <3>1, <3>2
    <2>5. /\ Cardinality(transactions) \in Nat /\ Cardinality(Busy) \in Nat
          /\ Cardinality(Adders) \in Nat /\ MaxSize \in Nat
      BY <2>2, FS_CardinalityType, MempoolAssumption, Zenon
    <2>6. QED
      BY <2>3, <2>4, <2>5 DEF Inv, Reserved
  <1>5. Covered'
    <2>1. x \in Claims /\ x.tx = t /\ y.tx = t /\ x.by = a /\ x.kind = "publish"
      BY <1>1, Zenon DEF Claims, PublishClaims, Claim
    <2>2. \A c \in PublishClaims' : c \in PublishClaims /\ c.by # a
      BY <1>2, MovedClaims
    <2>3. \A c \in UnindexClaims' : c \in UnindexClaims
      BY <1>2, MovedClaims
    <2>4. \A c \in PoolClaims' : c \in PoolClaims \/ c = y
      BY <1>1, Zenon DEF PoolClaims
    <2>5. RemoverClaims' = RemoverClaims
      BY <1>1, Zenon DEF RemoverClaims
    <2> HIDE DEF x, y
    <2>6. Claims' \subseteq (Claims \ {x}) \cup {y}
      BY <2>1, <2>2, <2>3, <2>4, <2>5, Kinds, Zenon DEF Claims
    <2>7. Covers((Claims \ {x}) \cup {y}, index, count)
      BY <2>1, CoversSwapped, Zenon DEF Inv, Typed, Covered
    <2>8. Covers(Claims', index, count)
      BY <2>6, <2>7, CoversFewer, Zenon DEF Inv, Typed
    <2>9. QED
      BY <1>1, <2>8, Zenon DEF Covered
  <1>6. QED
    BY <1>3, <1>4, <1>5, Zenon DEF Inv

-----------------------------------------------------------------------------
(* Steps of the engine and of the pruner. *)

\* Remover r has cur in its hands, and the other one what it had.
Holds(r, cur) ==
    /\ remover' = [q \in Removers |-> [phase |-> remover'[q].phase, todo |-> remover'[q].todo,
                                       cur |-> remover'[q].cur]]
    /\ remover'[r].cur = cur
    /\ \A q \in Removers : q # r => remover'[q] = remover[q]

LEMMA HoldsTyped ==
  ASSUME Typed, NEW r \in Removers, NEW cur \in Txs \cup {NoTx}, Holds(r, cur),
         transactions' \subseteq Txs, count' \in [Addresses -> Nat],
         index' \in [Fees -> Seq(Txs)], UNCHANGED adder
  PROVE  Typed'
  <1>1. \A q \in Removers : remover'[q].cur \in Txs \cup {NoTx}
    BY Zenon DEF Holds, Typed
  <1>2. QED
    BY <1>1, Zenon DEF Holds, Typed

LEMMA HoldsClaims ==
  ASSUME NEW r \in Removers, NEW cur, Holds(r, cur)
  PROVE  \A c \in RemoverClaims' : \/ c \in RemoverClaims /\ c.by # r
                                   \/ cur # NoTx /\ c = Claim("remover", r, cur)
  <1> SUFFICES ASSUME NEW c \in RemoverClaims'
               PROVE  \/ c \in RemoverClaims /\ c.by # r
                      \/ cur # NoTx /\ c = Claim("remover", r, cur)
    BY Zenon
  <1>1. PICK q \in Removers : remover'[q].cur # NoTx /\ c = Claim("remover", q, remover'[q].cur)
    BY Zenon DEF RemoverClaims
  <1>2. CASE q = r
    BY <1>1, <1>2, Zenon DEF Holds
  <1>3. CASE q # r
    <2>1. remover[q].cur # NoTx /\ c = Claim("remover", q, remover[q].cur) /\ c.by = q
      BY <1>1, <1>3, Zenon DEF Holds, Claim
    <2>2. QED
      BY <1>3, <2>1, Zenon DEF RemoverClaims
  <1>4. QED
    BY <1>2, <1>3, Zenon

\* A step of a remover between two transactions: the pool is left alone.
LEMMA QuietRemover ==
  ASSUME Inv, NEW r \in Removers, Holds(r, remover[r].cur), UNCHANGED <<pool, adder>>
  PROVE  Inv'
  <1>1. Typed'
    <2>1. /\ transactions' \subseteq Txs /\ count' \in [Addresses -> Nat]
          /\ index' \in [Fees -> Seq(Txs)] /\ remover[r].cur \in Txs \cup {NoTx}
      BY Zenon DEF Inv, Typed, pool
    <2>2. QED
      BY <2>1, HoldsTyped, Zenon DEF Inv
  <1>2. Reserved'
    BY Zenon DEF Inv, Reserved, Busy, pool
  <1>3. \A c \in RemoverClaims' : c \in RemoverClaims
    BY HoldsClaims, Zenon DEF RemoverClaims
  <1>4. /\ PoolClaims' = PoolClaims /\ PublishClaims' = PublishClaims
        /\ UnindexClaims' = UnindexClaims
    BY Zenon DEF PoolClaims, PublishClaims, UnindexClaims, pool
  <1>5. Claims' \subseteq Claims
    BY <1>3, <1>4, Zenon DEF Claims
  <1>6. Covered'
    <2>1. Covers(Claims', index, count)
      BY <1>5, CoversFewer, Zenon DEF Inv, Typed, Covered
    <2>2. QED
      BY <2>1, Zenon DEF Covered, pool
  <1>7. QED
    BY <1>1, <1>2, <1>6, Zenon DEF Inv

\* A remover that gets another phase, and another list to work through.
LEMMA PhaseHolds ==
  ASSUME Typed, NEW r \in Removers, NEW phase, NEW todo,
         remover' = [remover EXCEPT ![r].phase = phase, ![r].todo = todo]
  PROVE  Holds(r, remover[r].cur)
  <1>1. /\ remover = [q \in Removers |-> remover[q]]
        /\ \A q \in Removers : remover[q] = [phase |-> remover[q].phase, todo |-> remover[q].todo,
                                             cur |-> remover[q].cur]
    BY Zenon DEF Typed
  <1>2. /\ remover'[r] = [phase |-> phase, todo |-> todo, cur |-> remover[r].cur]
        /\ \A q \in Removers : q # r => remover'[q] = remover[q]
    <2>1. PICK p, d, c : remover[r] = [phase |-> p, todo |-> d, cur |-> c]
      BY <1>1
    <2>2. remover'[r] = [remover[r] EXCEPT !.phase = phase, !.todo = todo]
      BY <1>1, Zenon
    <2>3. remover'[r] = [phase |-> phase, todo |-> todo, cur |-> remover[r].cur]
      BY <2>1, <2>2, ZenonT(60)
    <2>4. \A q \in Removers : q # r => remover'[q] = remover[q]
      BY <1>1, Zenon
    <2>5. QED
      BY <2>3, <2>4, Zenon
  <1>3. remover' = [q \in Removers |-> remover'[q]]
    BY <1>1, Zenon
  <1>4. \A q \in Removers : remover'[q] = [phase |-> remover'[q].phase,
                                          todo |-> remover'[q].todo, cur |-> remover'[q].cur]
    BY <1>1, <1>2, Zenon
  <1>5. remover'[r].cur = remover[r].cur
    BY <1>2
  <1>6. QED
    BY <1>2, <1>3, <1>4, <1>5, Zenon DEF Holds

LEMMA SelectForBlockInv == ASSUME Inv, SelectForBlock PROVE Inv'
  BY Zenon DEF SelectForBlock, pool, Inv, Typed, Reserved, Busy, Covered, Claims, PoolClaims,
         PublishClaims, UnindexClaims, RemoverClaims

LEMMA CommitBlockInv == ASSUME Inv, CommitBlock PROVE Inv'
  <1>1. /\ remover' = [remover EXCEPT !["engine"].phase = "processed",
                                      !["engine"].todo = Range(block)]
        /\ UNCHANGED <<pool, adder>>
    BY Zenon DEF CommitBlock
  <1>2. "engine" \in Removers
    BY Zenon DEF Removers
  <1>3. Holds("engine", remover["engine"].cur)
    BY <1>1, <1>2, PhaseHolds, Zenon DEF Inv
  <1>4. QED
    BY <1>1, <1>2, <1>3, QuietRemover, Zenon

LEMMA CleanupScanInv == ASSUME Inv, CleanupScan PROVE Inv'
  <1>1. /\ remover' = [remover EXCEPT !["engine"].phase = "stale",
                                      !["engine"].todo = {t \in transactions : IsStale(t)}]
        /\ UNCHANGED <<pool, adder>>
    BY Zenon DEF CleanupScan
  <1>2. "engine" \in Removers
    BY Zenon DEF Removers
  <1>3. Holds("engine", remover["engine"].cur)
    BY <1>1, <1>2, PhaseHolds, Zenon DEF Inv
  <1>4. QED
    BY <1>1, <1>2, <1>3, QuietRemover, Zenon

LEMMA PruneScanInv == ASSUME Inv, PruneScan PROVE Inv'
  <1>1. PICK old : remover' = [remover EXCEPT !["pruner"].phase = "expired",
                                              !["pruner"].todo = old]
    BY Zenon DEF PruneScan
  <1>2. "pruner" \in Removers /\ UNCHANGED <<pool, adder>>
    BY Zenon DEF Removers, PruneScan
  <1>3. Holds("pruner", remover["pruner"].cur)
    BY <1>1, <1>2, PhaseHolds, Zenon DEF Inv
  <1>4. QED
    BY <1>2, <1>3, QuietRemover, Zenon

LEMMA RemovalDoneInv == ASSUME Inv, NEW r \in Removers, RemovalDone(r) PROVE Inv'
  <1>1. /\ remover[r].cur = NoTx /\ remover' = [remover EXCEPT ![r] = Resting]
        /\ UNCHANGED <<pool, adder>>
    BY Zenon DEF RemovalDone
  <1>2. Holds(r, NoTx)
    BY <1>1, Zenon DEF Holds, Resting, Inv, Typed
  <1>3. QED
    BY <1>1, <1>2, QuietRemover, Zenon

\* A remover that takes another transaction in its hands, or lets go of it.
LEMMA CurHolds ==
  ASSUME Typed, NEW r \in Removers, NEW todo, NEW cur,
         remover' = [remover EXCEPT ![r].todo = todo, ![r].cur = cur]
  PROVE  Holds(r, cur)
  <1>1. /\ remover = [q \in Removers |-> remover[q]]
        /\ \A q \in Removers : remover[q] = [phase |-> remover[q].phase, todo |-> remover[q].todo,
                                             cur |-> remover[q].cur]
    BY Zenon DEF Typed
  <1>2. /\ remover'[r] = [phase |-> remover[r].phase, todo |-> todo, cur |-> cur]
        /\ \A q \in Removers : q # r => remover'[q] = remover[q]
    <2>1. PICK p, d, c : remover[r] = [phase |-> p, todo |-> d, cur |-> c]
      BY <1>1
    <2>2. remover'[r] = [remover[r] EXCEPT !.todo = todo, !.cur = cur]
      BY <1>1, Zenon
    <2>3. remover'[r] = [phase |-> remover[r].phase, todo |-> todo, cur |-> cur]
      BY <2>1, <2>2, ZenonT(60)
    <2>4. \A q \in Removers : q # r => remover'[q] = remover[q]
      BY <1>1, Zenon
    <2>5. QED
      BY <2>3, <2>4, Zenon
  <1>3. remover' = [q \in Removers |-> remover'[q]]
    BY <1>1, Zenon
  <1>4. \A q \in Removers : remover'[q] = [phase |-> remover'[q].phase,
                                          todo |-> remover'[q].todo, cur |-> remover'[q].cur]
    BY <1>1, <1>2, Zenon
  <1>5. remover'[r].cur = cur
    BY <1>2
  <1>6. QED
    BY <1>2, <1>3, <1>4, <1>5, Zenon DEF Holds

LEMMA RemoveNextInv == ASSUME Inv, NEW r \in Removers, RemoveNext(r) PROVE Inv'
  <1>1. PICK t \in remover[r].todo :
          /\ remover' = [remover EXCEPT ![r].todo = @ \ {t},
                                        ![r].cur = IF Found(t) THEN t ELSE NoTx]
          /\ transactions' = transactions \ {t}
    BY Zenon DEF RemoveNext
  <1>2. remover[r].cur = NoTx /\ UNCHANGED <<nonces, count, index, adder>>
    BY Zenon DEF RemoveNext
  <1>3. Holds(r, IF t \in transactions THEN t ELSE NoTx)
    BY <1>1, CurHolds, Zenon DEF Inv, Found
  <1>4. CASE t \notin transactions
    <2>1. UNCHANGED <<pool, adder>>
      BY <1>1, <1>2, <1>4, Zenon DEF pool
    <2>2. QED
      BY <1>2, <1>3, <1>4, <2>1, QuietRemover, Zenon
  <1>5. CASE t \in transactions
    <2> DEFINE x == Claim("pool", NoTx, t)
               y == Claim("remover", r, t)
    <2>1. Holds(r, t) /\ t \in Txs
      BY <1>3, <1>5, Zenon DEF Inv, Typed
    <2>2. Typed'
      <3>1. /\ transactions' \subseteq Txs /\ count' \in [Addresses -> Nat]
            /\ index' \in [Fees -> Seq(Txs)]
        BY <1>1, <1>2, Zenon DEF Inv, Typed
      <3>2. QED
        BY <1>2, <2>1, <3>1, HoldsTyped, Zenon DEF Inv
    <2>3. Reserved'
      <3>1. Busy' \subseteq Busy /\ transactions' \subseteq transactions
        BY <1>1, <1>2, Zenon DEF Busy
      <3>2. QED
        BY <3>1, ReservedKept, Zenon DEF Inv
    <2>4. Covered'
      <3>1. x \in Claims /\ x.tx = t /\ y.tx = t /\ x.kind = "pool"
        BY <1>5, Zenon DEF Claims, PoolClaims, Claim
      <3>2. PublishClaims' = PublishClaims /\ UnindexClaims' = UnindexClaims
        BY <1>2, Zenon DEF PublishClaims, UnindexClaims
      <3>3. \A c \in RemoverClaims' : c \in RemoverClaims \/ c = y
        BY <2>1, HoldsClaims, Zenon
      <3>4. \A c \in PoolClaims' : c \in PoolClaims /\ c.tx # t
        BY <1>1 DEF PoolClaims, Claim
      <3> HIDE DEF x, y
      <3>5. Claims' \subseteq (Claims \ {x}) \cup {y}
        BY <3>1, <3>2, <3>3, <3>4, Kinds, Zenon DEF Claims
      <3>6. Covers((Claims \ {x}) \cup {y}, index, count)
        BY <3>1, CoversSwapped, Zenon DEF Inv, Typed, Covered
      <3>7. Covers(Claims', index, count)
        BY <3>5, <3>6, CoversFewer, Zenon DEF Inv, Typed
      <3>8. QED
        BY <1>2, <3>7, Zenon DEF Covered
    <2>5. QED
      BY <2>2, <2>3, <2>4, Zenon DEF Inv
  <1>6. QED
    BY <1>4, <1>5, Zenon

LEMMA UnindexRemovedInv == ASSUME Inv, NEW r \in Removers, UnindexRemoved(r) PROVE Inv'
  <1> DEFINE t == remover[r].cur
             x == Claim("remover", r, t)
  <1>1. /\ t # NoTx /\ t \in Txs /\ Unindex(t) /\ remover' = [remover EXCEPT ![r].cur = NoTx]
        /\ UNCHANGED <<transactions, adder>>
    BY Zenon DEF UnindexRemoved, Inv, Typed
  <1>2. Holds(r, NoTx)
    <2>1. remover' = [remover EXCEPT ![r].todo = remover[r].todo, ![r].cur = NoTx]
      BY <1>1, Zenon DEF Inv, Typed
    <2>2. QED
      BY <2>1, CurHolds, Zenon DEF Inv
  <1>3. x \in Claims /\ x.tx = t /\ x.by = r /\ x.kind = "remover"
    BY <1>1, Zenon DEF Claims, RemoverClaims, Claim
  <1> HIDE DEF x
  <1>4. /\ Without(index[t.fee], t) \in Seq(Txs)
        /\ Covers(Claims \ {x}, [index EXCEPT ![t.fee] = Without(@, t)],
                  [count EXCEPT ![t.from] = IF @ = 0 THEN 0 ELSE @ - 1])
    <2>1. /\ count \in [Addresses -> Nat] /\ index \in [Fees -> Seq(Txs)]
          /\ Covers(Claims, index, count) /\ x.tx \in Txs
      BY <1>1, <1>3, Zenon DEF Inv, Typed, Covered
    <2>2. /\ Without(index[x.tx.fee], x.tx) \in Seq(Txs)
          /\ Covers(Claims \ {x}, [index EXCEPT ![x.tx.fee] = Without(@, x.tx)],
                    [count EXCEPT ![x.tx.from] = IF @ = 0 THEN 0 ELSE @ - 1])
      BY <1>3, <2>1, CoversUnindexed, Zenon
    <2>3. QED
      BY <1>3, <2>2, Zenon
  <1>5. count' \in [Addresses -> Nat] /\ index' \in [Fees -> Seq(Txs)]
    BY <1>1, <1>4, UnindexTyped, Zenon DEF Inv
  <1>6. Typed'
    <2>1. transactions' \subseteq Txs
      BY <1>1, Zenon DEF Inv, Typed
    <2>2. QED
      BY <1>1, <1>2, <1>5, <2>1, HoldsTyped DEF Inv
  <1>7. Reserved'
    <2>1. Busy' \subseteq Busy /\ transactions' \subseteq transactions
      BY <1>1, Zenon DEF Busy
    <2>2. QED
      BY <2>1, ReservedKept, Zenon DEF Inv
  <1>8. Covered'
    <2>1. /\ PoolClaims' = PoolClaims /\ PublishClaims' = PublishClaims
          /\ UnindexClaims' = UnindexClaims
      BY <1>1, Zenon DEF PoolClaims, PublishClaims, UnindexClaims
    <2>2. \A c \in RemoverClaims' : c \in RemoverClaims /\ c.by # r
      BY <1>2, HoldsClaims, Zenon
    <2>3. Claims' \subseteq Claims \ {x}
      BY <1>3, <2>1, <2>2, Kinds DEF Claims
    <2>4. Covers(Claims \ {x}, index', count')
      BY <1>1, <1>4, Zenon DEF Unindex
    <2>5. QED
      BY <1>5, <2>3, <2>4, CoversFewer, Zenon DEF Covered
  <1>9. QED
    BY <1>6, <1>7, <1>8, Zenon DEF Inv

-----------------------------------------------------------------------------
(* The invariant, and what follows from it. *)

LEMMA InitInv == Init => Inv
  <1> SUFFICES ASSUME Init PROVE Inv
    BY Zenon
  <1>1. Typed
    <2>1. Idle \in AdderStates /\ Idle.pc = "idle"
      BY Zenon DEF Idle, AdderStates, Places
    <2>2. /\ remover = [r \in Removers |-> [phase |-> "idle", todo |-> {}, cur |-> NoTx]]
          /\ adder \in [Adders -> AdderStates] /\ \A a \in Adders : adder[a].pc = "idle"
      BY <2>1, Zenon DEF Init, Resting
    <2>3. QED
      BY <2>2 DEF Init, Typed
  <1>2. \A a \in Adders : adder[a].pc = "idle"
    BY Zenon DEF Init, Idle
  <1>3. \A r \in Removers : remover[r].cur = NoTx
    BY Zenon DEF Init, Resting
  <1>4. Reserved
    <2>1. Busy = {} /\ transactions = {}
      BY <1>2, Zenon DEF Busy, Init
    <2>2. Cardinality(Adders) \in Nat /\ Cardinality(Adders) # 0 /\ MaxSize \in Nat
      BY MempoolAssumption, FS_CardinalityType, FS_EmptySet, Zenon
    <2>3. QED
      BY <2>1, <2>2, FS_EmptySet DEF Reserved
  <1>5. Covered
    <2>1. Claims = {}
      BY <1>2, <1>3, Zenon DEF Claims, PoolClaims, PublishClaims, UnindexClaims, RemoverClaims, Init
    <2>2. \A K : ClaimsOn({}, K) = {}
      BY Zenon DEF ClaimsOn
    <2>3. \A t \in Txs : Cardinality(Occurrences(index[t.fee], t)) \in Nat
      BY <1>1, OccurrencesNat DEF Typed, Fees
    <2>4. \A a \in Addresses : count[a] \in Nat
      BY <1>1, Zenon DEF Typed
    <2>5. Covers({}, index, count)
      BY <2>2, <2>3, <2>4, FS_EmptySet DEF Covers
    <2>6. QED
      BY <2>1, <2>5, Zenon DEF Covered
  <1>6. QED
    BY <1>1, <1>4, <1>5, Zenon DEF Inv

LEMMA NextInv == Inv /\ [Next]_vars => Inv'
  <1> SUFFICES ASSUME Inv, [Next]_vars PROVE Inv'
    BY Zenon
  <1>1. ASSUME NEW a \in Adders, Add(a) PROVE Inv'
    <2>1. CASE \E t \in Txs : Submit(a, t)
      BY <2>1, SubmitInv, Zenon
    <2>2. CASE Validate(a)
      BY <2>2, ValidateInv, Zenon
    <2>3. CASE Lookup(a)
      BY <2>3, LookupInv, SMTT(30)
    <2>4. CASE RemoveOld(a)
      BY <2>4, RemoveOldInv, Zenon
    <2>5. CASE UnindexOld(a)
      BY <2>5, UnindexOldInv, Zenon
    <2>6. CASE IndexNew(a)
      BY <2>6, IndexNewInv, Zenon
    <2>7. CASE Publish(a)
      BY <2>7, PublishInv, Zenon
    <2>8. QED
      BY <1>1, <2>1, <2>2, <2>3, <2>4, <2>5, <2>6, <2>7, Zenon DEF Add
  <1>2. CASE SelectForBlock
    BY <1>2, SelectForBlockInv, Zenon
  <1>3. CASE CommitBlock
    BY <1>3, CommitBlockInv, SMTT(30)
  <1>4. CASE CleanupScan
    BY <1>4, CleanupScanInv, Zenon
  <1>5. CASE PruneScan
    BY <1>5, PruneScanInv, Zenon
  <1>6. CASE \E r \in Removers : RemoveNext(r)
    BY <1>6, RemoveNextInv, Zenon
  <1>7. CASE \E r \in Removers : UnindexRemoved(r)
    BY <1>7, UnindexRemovedInv, SMTT(30)
  <1>8. CASE \E r \in Removers : RemovalDone(r)
    BY <1>8, RemovalDoneInv, Zenon
  <1>9. CASE UNCHANGED vars
    BY <1>9 DEF vars, Inv, Typed, Reserved, Busy, Covered, Claims, PoolClaims, PublishClaims,
       UnindexClaims, RemoverClaims
  <1>10. QED
    BY <1>1, <1>2, <1>3, <1>4, <1>5, <1>6, <1>7, <1>8, <1>9, ZenonT(60) DEF Next

\* The pool's invariant holds in every reachable state.
THEOREM Invariant == Spec => []Inv
  <1>1. QED
    BY InitInv, NextInv, PTL DEF Spec

(* The pool never grows past max_size by more than the other submitting    *)
(* tasks, however many they are: a task that passed the check before the   *)
(* await of validate_transaction has its place reserved.                   *)
THEOREM CapacityAlwaysBounded == Spec => []CapacityBound
  <1>1. Inv => CapacityBound
    <2> SUFFICES ASSUME Inv PROVE CapacityBound
      BY Zenon
    <2>1. Busy \in SUBSET Adders /\ IsFiniteSet(Adders) /\ MaxSize \in Nat
      BY MempoolAssumption, Zenon DEF Busy
    <2>2. /\ Cardinality(Busy) \in Nat /\ Cardinality(Adders) \in Nat
          /\ Cardinality(transactions) \in Nat
      BY <2>1, FS_Subset, FS_CardinalityType DEF Inv, Reserved
    <2>3. QED
      BY <2>1, <2>2 DEF Inv, Reserved, CapacityBound
  <1>2. QED
    BY Invariant, <1>1, PTL

(* Every transaction in the pool is listed in priority_index, whatever     *)
(* adders, replacements, cleanup and pruner do to the same hash at the     *)
(* same time: a removal takes away only the entry it has the claim to.     *)
THEOREM IndexAlwaysComplete == Spec => []IndexComplete
  <1>1. Inv => IndexComplete
    <2> SUFFICES ASSUME Inv, NEW t \in transactions
                 PROVE  \E i \in DOMAIN index[t.fee] : index[t.fee][i] = t
      BY Zenon DEF IndexComplete
    <2>1. t \in Txs /\ index[t.fee] \in Seq(Txs)
      BY DEF Inv, Typed, Fees
    <2>2. Claim("pool", NoTx, t) \in ClaimsOn(Claims, {t})
      BY Zenon DEF Claims, PoolClaims, ClaimsOn, Claim
    <2>3. /\ IsFiniteSet(ClaimsOn(Claims, {t})) /\ Cardinality(ClaimsOn(Claims, {t})) \in Nat
          /\ Cardinality(ClaimsOn(Claims, {t})) <= Cardinality(Occurrences(index[t.fee], t))
      BY <2>1, ClaimsFinite, Zenon DEF Inv, Covered, Covers
    <2>4. Cardinality(ClaimsOn(Claims, {t})) # 0
      BY <2>2, <2>3, FS_EmptySet, Zenon
    <2>5. Cardinality(Occurrences(index[t.fee], t)) # 0
      BY <2>1, <2>3, <2>4, OccurrencesNat
    <2>6. Occurrences(index[t.fee], t) # {}
      BY <2>5, FS_EmptySet, SMTT(30)
    <2>7. QED
      BY <2>6, Zenon DEF Occurrences
  <1>2. QED
    BY Invariant, <1>1, PTL

(* The counter of an address is never below what the address has in the    *)
(* pool: of several removals of one transaction only the one that found it *)
(* gives the quota back.                                                   *)
THEOREM QuotaAlwaysSound == Spec => []QuotaSound
  <1>1. Inv => QuotaSound
    <2> SUFFICES ASSUME Inv, NEW a \in Addresses
                 PROVE  count[a] >= Cardinality(Pooled(a))
      BY Zenon DEF QuotaSound
    <2> DEFINE C == ClaimsOn(Claims, From(a))
               f == [t \in Pooled(a) |-> Claim("pool", NoTx, t)]
    <2>1. IsFiniteSet(C) /\ Cardinality(C) \in Nat /\ Cardinality(C) <= count[a]
      BY ClaimsFinite, Zenon DEF Inv, Covered, Covers
    <2>2. \A t \in Pooled(a) : Claim("pool", NoTx, t) \in C
      BY Zenon DEF Pooled, Claims, PoolClaims, ClaimsOn, Claim, From, Inv, Typed
    <2>3. \A t, u : Claim("pool", NoTx, t) = Claim("pool", NoTx, u) => t = u
      BY Zenon DEF Claim
    <2> HIDE DEF C
    <2>4. f \in Injection(Pooled(a), C)
      BY <2>2, <2>3, Zenon DEF Injection, IsInjective
    <2> HIDE DEF f
    <2>5. IsFiniteSet(Pooled(a)) /\ Cardinality(Pooled(a)) <= Cardinality(C)
      BY <2>1, <2>4, FS_Injection, Zenon
    <2>6. Cardinality(Pooled(a)) \in Nat /\ count[a] \in Nat
      BY <2>5, FS_CardinalityType, Zenon DEF Inv, Typed
    <2>7. QED
      BY <2>1, <2>5, <2>6
  <1>2. QED
    BY Invariant, <1>1, PTL
=============================================================================
