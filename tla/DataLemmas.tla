----------------------------- MODULE DataLemmas -----------------------------
(***************************************************************************)
(* Lemmas about data that the proofs share: sequences, least and greatest  *)
(* numbers, images of finite sets, sums, and induction.  A lemma cannot    *)
(* take a predicate as a parameter here, so induction is about a set of    *)
(* numbers.                                                                *)
(***************************************************************************)
EXTENDS FiniteSetTheorems, SequenceTheorems, NaturalsInduction, WellFoundedInduction,
        FiniteSetsExt, TLAPS

IsSeq(s) == Len(s) \in Nat /\ s = [i \in 1..Len(s) |-> s[i]]

LEMMA SeqOfIsSeq == ASSUME NEW s, IsSeq(s) PROVE s \in Seq({s[i] : i \in 1..Len(s)})
  BY DEF IsSeq

LEMMA IsSeqOfSeq == ASSUME NEW S, NEW s \in Seq(S) PROVE IsSeq(s)
  BY DEF IsSeq

LEMMA FunctionIsSeq ==
    ASSUME NEW S, NEW n \in Nat, NEW q \in [1..n -> S]
    PROVE  q \in Seq(S) /\ Len(q) = n
  OBVIOUS

LEMMA AppendSeq ==
    ASSUME NEW s, IsSeq(s), NEW x
    PROVE  /\ IsSeq(Append(s, x))
           /\ Len(Append(s, x)) = Len(s) + 1
           /\ Append(s, x)[Len(s) + 1] = x
           /\ \A i \in 1..Len(s) : Append(s, x)[i] = s[i]
<1> DEFINE S == {s[i] : i \in 1..Len(s)} \cup {x}
<1>1. s \in Seq(S) /\ x \in S
  BY DEF IsSeq
<1>2. Append(s, x) \in Seq(S)
  BY <1>1
<1> HIDE DEF S
<1>3. IsSeq(Append(s, x))
  BY <1>2, IsSeqOfSeq
<1> QED
  BY <1>1, <1>3

LEMMA ConcatSeq ==
    ASSUME NEW s, IsSeq(s), NEW t, IsSeq(t)
    PROVE  /\ IsSeq(s \o t)
           /\ Len(s \o t) = Len(s) + Len(t)
           /\ \A i \in 1..Len(s) : (s \o t)[i] = s[i]
           /\ \A i \in 1..Len(t) : (s \o t)[Len(s) + i] = t[i]
<1> DEFINE S == {s[i] : i \in 1..Len(s)} \cup {t[i] : i \in 1..Len(t)}
<1>1. s \in Seq(S) /\ t \in Seq(S)
  <2>1. s \in Seq({s[i] : i \in 1..Len(s)}) /\ t \in Seq({t[i] : i \in 1..Len(t)})
    BY SeqOfIsSeq
  <2> QED
    BY <2>1
<1> HIDE DEF S
<1>2. s \o t \in Seq(S) /\ Len(s \o t) = Len(s) + Len(t)
  BY <1>1
<1>3. \A i \in 1..Len(s) : (s \o t)[i] = s[i]
  BY <1>1
<1>4. \A i \in 1..Len(t) : (s \o t)[Len(s) + i] = t[i]
  BY <1>1
<1> QED
  BY <1>2, <1>3, <1>4, IsSeqOfSeq

LEMMA PrefixSeq ==
    ASSUME NEW s, IsSeq(s), NEW n \in 0..Len(s)
    PROVE  /\ IsSeq(SubSeq(s, 1, n))
           /\ Len(SubSeq(s, 1, n)) = n
           /\ \A i \in 1..n : SubSeq(s, 1, n)[i] = s[i]
<1> DEFINE S == {s[i] : i \in 1..Len(s)}
<1>1. s \in Seq(S) /\ Len(s) \in Nat
  BY SeqOfIsSeq DEF IsSeq
<1>2. SubSeq(s, 1, n) \in Seq(S)
  BY <1>1
<1> HIDE DEF S
<1>3. IsSeq(SubSeq(s, 1, n))
  BY <1>2, IsSeqOfSeq
<1> QED
  BY <1>1, <1>3

-----------------------------------------------------------------------------
(* Numbers *)

LEMMA MaxOf ==
    ASSUME NEW S, S \subseteq Int, NEW m \in S, \A x \in S : x <= m
    PROVE  Max(S) = m
<1>1. \A x \in S : m >= x
  OBVIOUS
<1>2. ASSUME NEW n \in S, \A x \in S : n >= x PROVE n = m
  <2>1. n >= m /\ m >= n /\ n \in Int /\ m \in Int
    BY <1>1, <1>2
  <2> QED
    BY <2>1
<1> QED
  BY <1>1, <1>2 DEF Max

LEMMA MaxUpTo == ASSUME NEW k \in Nat PROVE Max({0} \cup 1..k) = k
<1>1. {0} \cup 1..k \subseteq Int /\ k \in {0} \cup 1..k /\ \A x \in {0} \cup 1..k : x <= k
  OBVIOUS
<1> QED
  BY <1>1, MaxOf

(* A set of as many members as a finite set has, or fewer, is finite.      *)
LEMMA FiniteImage ==
    ASSUME NEW S, IsFiniteSet(S), NEW f, DOMAIN f = S
    PROVE  IsFiniteSet({f[x] : x \in S})
<1> DEFINE T == {f[x] : x \in S}
           g == [x \in S |-> f[x]]
<1>1. g \in Surjection(S, T)
  BY DEF Surjection
<1> HIDE DEF g, T
<1>2. IsFiniteSet(T)
  BY <1>1, FS_Surjection
<1> QED
  BY <1>2 DEF T

-----------------------------------------------------------------------------
(* Induction *)

LEMMA LeastNatural ==
    ASSUME NEW T, T \subseteq Nat, T # {}
    PROVE  \E m \in T : \A n \in T : m <= n
<1>1. PICK m \in T : \A n \in T : <<n, m>> \notin OpToRel(<, Nat)
  BY WFMin, NatLessThanWellFounded, Zenon
<1>2. \A n \in T : n \in Nat /\ m \in Nat
  OBVIOUS
<1>3. \A n \in T : ~(n < m)
  BY <1>1, <1>2, Zenon DEF OpToRel
<1>4. \A n \in T : m <= n
  BY <1>2, <1>3
<1> QED
  BY <1>4

LEMMA InductionUpTo ==
    ASSUME NEW N \in Nat, NEW T, 0 \in T,
           \A n \in 0..N : n \in T /\ n < N => n + 1 \in T
    PROVE  \A n \in 0..N : n \in T
<1> DEFINE missing == {n \in 0..N : n \notin T}
<1> SUFFICES ASSUME missing # {} PROVE FALSE
  OBVIOUS
<1>1. missing \subseteq Nat
  OBVIOUS
<1>2. PICK m \in missing : \A n \in missing : m <= n
  BY <1>1, LeastNatural
<1>3. m \in 0..N /\ m \notin T /\ m # 0 /\ m - 1 \in 0..N /\ m - 1 < N
  OBVIOUS
<1>4. m - 1 \notin missing
  BY <1>2, <1>3
<1>5. m - 1 + 1 \in T
  BY <1>3, <1>4
<1> QED
  BY <1>3, <1>5

(* A walk of N steps exists, and its values stay where its step stays.     *)
IsWalk(f, N, S, base, step) ==
    f \in [0..N -> S] /\ f[0] = base /\ \A n \in 1..N : f[n] = step[f[n - 1]]

LEMMA WalkExists ==
    ASSUME NEW N \in Nat, NEW S, NEW base \in S, NEW step \in [S -> S]
    PROVE  \E f : IsWalk(f, N, S, base, step)
<1> DEFINE Walk(k, f) == f[0] = base /\ \A n \in 1..k : f[n] = step[f[n - 1]]
           T == {k \in 0..N : \E f \in [0..k -> S] : Walk(k, f)}
<1>1. 0 \in T
  <2> DEFINE f == [n \in 0..0 |-> base]
  <2>1. f \in [0..0 -> S] /\ Walk(0, f)
    OBVIOUS
  <2>2. 0 \in 0..N
    OBVIOUS
  <2> HIDE DEF Walk, f
  <2> QED
    BY <2>1, <2>2
<1>2. ASSUME NEW k \in 0..N, k \in T, k < N PROVE k + 1 \in T
  <2>1. PICK f \in [0..k -> S] : Walk(k, f)
    BY <1>2
  <2> DEFINE g == [n \in 0..(k + 1) |-> IF n <= k THEN f[n] ELSE step[f[k]]]
  <2>2. g \in [0..(k + 1) -> S]
    <3>1. f[k] \in S /\ step[f[k]] \in S
      OBVIOUS
    <3> QED
      BY <3>1
  <2>3. ASSUME NEW n \in 1..(k + 1) PROVE g[n] = step[g[n - 1]]
    <3>1. CASE n \in 1..k
      <4>1. n - 1 \in 0..k /\ n \in 0..k /\ n - 1 <= k /\ n - 1 \in 0..(k + 1)
        BY <3>1
      <4>2. f[n] = step[f[n - 1]]
        BY <2>1, <3>1
      <4>3. g[n] = f[n] /\ g[n - 1] = f[n - 1]
        BY <4>1, <3>1
      <4> QED
        BY <4>2, <4>3
    <3>2. CASE n = k + 1
      <4>1. n - 1 = k /\ ~(n <= k) /\ k <= k /\ k \in 0..(k + 1)
        BY <3>2
      <4>2. g[n] = step[f[k]] /\ g[k] = f[k]
        BY <4>1
      <4> QED
        BY <4>1, <4>2
    <3> QED
      BY <3>1, <3>2
  <2>4. Walk(k + 1, g)
    <3>1. g[0] = base
      BY <2>1
    <3> QED
      BY <2>3, <3>1
  <2>5. k + 1 \in 0..N
    BY <1>2
  <2> HIDE DEF Walk, g
  <2> QED
    BY <2>2, <2>4, <2>5
<1>3. \A k \in 0..N : k \in T
  <2> HIDE DEF T
  <2> QED
    BY <1>1, <1>2, InductionUpTo
<1> QED
  BY <1>3 DEF IsWalk

-----------------------------------------------------------------------------
(* Recursion over a finite set, which takes one member after the other:    *)
(* pick says which.  The folds of the community modules do it this way.    *)

Picks(pick, S) == \A s \in SUBSET S : s # {} => pick[s] \in s

LEMMA SubsetInduction ==
    ASSUME NEW S, IsFiniteSet(S), NEW pick, Picks(pick, S),
           NEW T, {} \in T,
           \A s \in SUBSET S : s # {} /\ s \ {pick[s]} \in T => s \in T
    PROVE  \A s \in SUBSET S : s \in T
<1> DEFINE missing == {k \in Nat : \E s \in SUBSET S : s \notin T /\ Cardinality(s) = k}
<1> SUFFICES ASSUME NEW r \in SUBSET S, r \notin T PROVE FALSE
  OBVIOUS
<1>1. \A s \in SUBSET S : IsFiniteSet(s) /\ Cardinality(s) \in Nat
  BY FS_Subset, FS_CardinalityType
<1>2. missing # {} /\ missing \subseteq Nat
  BY <1>1
<1>3. PICK m \in missing : \A n \in missing : m <= n
  BY <1>2, LeastNatural
<1>4. PICK s \in SUBSET S : s \notin T /\ Cardinality(s) = m
  BY <1>3
<1>5. s # {} /\ pick[s] \in s
  BY <1>4 DEF Picks
<1> DEFINE t == s \ {pick[s]}
<1>6. t \in SUBSET S /\ Cardinality(t) = m - 1 /\ Cardinality(t) \in Nat
  BY <1>1, <1>4, <1>5, FS_RemoveElement
<1>7. t \notin T
  BY <1>4, <1>5
<1> HIDE DEF t
<1>8. m - 1 \in missing
  BY <1>6, <1>7
<1> HIDE DEF missing
<1>9. m \in Nat /\ m <= m - 1
  BY <1>2, <1>3, <1>8
<1> QED
  BY <1>9

LEMMA WholeSet ==
    ASSUME NEW S, IsFiniteSet(S), NEW pick, Picks(pick, S),
           NEW T, {} \in T,
           \A s \in SUBSET S : s # {} /\ s \ {pick[s]} \in T => s \in T
    PROVE  S \in T
<1>1. \A s \in SUBSET S : s \in T
  BY SubsetInduction
<1> QED
  BY <1>1

(* step takes a member and the value so far. *)
IsIteration(f, S, V, pick, base, step) ==
    /\ f \in [SUBSET S -> V]
    /\ f[{}] = base
    /\ \A s \in SUBSET S : s # {} => f[s] = step[<<pick[s], f[s \ {pick[s]}]>>]

LEMMA IterationExists ==
    ASSUME NEW S, IsFiniteSet(S), NEW pick, Picks(pick, S),
           NEW V, NEW base \in V, NEW step \in [S \X V -> V]
    PROVE  \E f : IsIteration(f, S, V, pick, base, step)
<1> DEFINE N == Cardinality(S)
           Upto(k) == {s \in SUBSET S : Cardinality(s) <= k}
           Good(f, k) ==
               /\ f \in [Upto(k) -> V]
               /\ \A s \in Upto(k) :
                      f[s] = IF s = {} THEN base ELSE step[<<pick[s], f[s \ {pick[s]}]>>]
           T == {k \in 0..N : \E f : Good(f, k)}
<1>1. \A s \in SUBSET S : IsFiniteSet(s) /\ Cardinality(s) \in Nat /\ Cardinality(s) <= N
  BY FS_Subset, FS_CardinalityType
<1>2. N \in Nat
  BY FS_CardinalityType
<1>3. ASSUME NEW k \in Nat, NEW s \in Upto(k), s # {}
      PROVE  /\ k > 0 /\ pick[s] \in S
             /\ s \ {pick[s]} \in Upto(k) /\ s \ {pick[s]} \in Upto(k - 1)
  <2>1. pick[s] \in s /\ s \in SUBSET S
    BY <1>3 DEF Picks
  <2>2. Cardinality(s \ {pick[s]}) = Cardinality(s) - 1 /\ Cardinality(s \ {pick[s]}) \in Nat
    BY <1>1, <2>1, FS_RemoveElement
  <2> QED
    BY <1>1, <2>1, <2>2
<1>4. 0 \in T
  <2> DEFINE f == [s \in Upto(0) |-> base]
  <2>1. ASSUME NEW s \in Upto(0), s # {} PROVE FALSE
    <3>1. 0 \in Nat /\ ~(0 > 0)
      OBVIOUS
    <3> HIDE DEF Upto
    <3> QED
      BY <1>3, <2>1, <3>1
  <2>2. Good(f, 0)
    BY <2>1
  <2> HIDE DEF Good, f
  <2> QED
    BY <1>2, <2>2
<1>5. ASSUME NEW k \in 0..N, k \in T, k < N PROVE k + 1 \in T
  <2>1. PICK f : Good(f, k)
    BY <1>5
  <2> DEFINE value(s) == IF s = {} THEN base ELSE step[<<pick[s], f[s \ {pick[s]}]>>]
             g == [s \in Upto(k + 1) |-> value(s)]
  <2>2. k \in Nat /\ k + 1 \in Nat /\ (k + 1) - 1 = k /\ k + 1 \in 0..N
    BY <1>2, <1>5
  <2>3. ASSUME NEW s \in Upto(k + 1), s # {}
        PROVE  pick[s] \in S /\ s \ {pick[s]} \in Upto(k) /\ s \ {pick[s]} \in Upto(k + 1)
    BY <1>3, <2>2, <2>3
  <2>4. \A s \in Upto(k) : f[s] = value(s) /\ f[s] \in V
    BY <2>1
  <2> HIDE DEF Upto
  <2>5. \A s \in Upto(k + 1) : value(s) \in V
    BY <2>3, <2>4
  <2>6. \A s \in Upto(k + 1) : s \in Upto(k) => g[s] = f[s]
    BY <2>4
  <2>7. ASSUME NEW s \in Upto(k + 1), s # {}
        PROVE  g[s] = step[<<pick[s], g[s \ {pick[s]}]>>]
    <3>1. g[s \ {pick[s]}] = f[s \ {pick[s]}]
      BY <2>3, <2>6, <2>7
    <3> QED
      BY <2>7, <3>1
  <2>8. g \in [Upto(k + 1) -> V]
    BY <2>5
  <2>9. \A s \in Upto(k + 1) : s = {} => g[s] = base
    OBVIOUS
  <2> HIDE DEF g, value
  <2>10. Good(g, k + 1)
    BY <2>7, <2>8, <2>9
  <2> HIDE DEF Good
  <2> QED
    BY <2>2, <2>10
<1>6. N \in T
  <2> HIDE DEF T
  <2>1. \A k \in 0..N : k \in T
    BY <1>2, <1>4, <1>5, InductionUpTo
  <2> QED
    BY <1>2, <2>1
<1>7. PICK f : Good(f, N)
  BY <1>6
<1>8. Upto(N) = SUBSET S
  BY <1>1
<1>9. {} \in SUBSET S
  OBVIOUS
<1> HIDE DEF Upto
<1> QED
  BY <1>7, <1>8, <1>9 DEF IsIteration

-----------------------------------------------------------------------------
(* Order.  R has a pair of members if the first comes before the second.   *)

Orders(R, S) ==
    /\ \A x \in S : <<x, x>> \notin R
    /\ \A x, y \in S : x # y => <<x, y>> \in R \/ <<y, x>> \in R
    /\ \A x, y, z \in S : <<x, y>> \in R /\ <<y, z>> \in R => <<x, z>> \in R

Place(R, S, x) == Cardinality({y \in S : <<y, x>> \in R})

LEMMA PlacesDiffer ==
    ASSUME NEW S, IsFiniteSet(S), NEW R, Orders(R, S)
    PROVE  /\ \A x \in S : Place(R, S, x) \in Nat /\ Place(R, S, x) < Cardinality(S)
           /\ \A x, y \in S : <<x, y>> \in R => Place(R, S, x) < Place(R, S, y)
           /\ \A x, y \in S : Place(R, S, x) = Place(R, S, y) => x = y
<1> DEFINE B(x) == {y \in S : <<y, x>> \in R}
<1>0. \A x : /\ IsFiniteSet(B(x)) /\ Cardinality(B(x)) \in Nat
            /\ Place(R, S, x) = Cardinality(B(x))
  BY FS_Subset, FS_CardinalityType DEF Place
<1>1. ASSUME NEW x \in S PROVE Place(R, S, x) \in Nat /\ Place(R, S, x) < Cardinality(S)
  <2>1. B(x) \in SUBSET S /\ x \notin B(x)
    BY DEF Orders
  <2>2. Cardinality(B(x)) <= Cardinality(S) /\ Cardinality(B(x)) # Cardinality(S)
    BY <2>1, FS_Subset
  <2>3. Cardinality(S) \in Nat
    BY FS_CardinalityType
  <2> HIDE DEF B
  <2> QED
    BY <1>0, <2>2, <2>3
<1>2. ASSUME NEW x \in S, NEW y \in S, <<x, y>> \in R PROVE Place(R, S, x) < Place(R, S, y)
  <2>1. B(x) \in SUBSET B(y) /\ x \in B(y) /\ x \notin B(x)
    BY <1>2 DEF Orders
  <2>2. Cardinality(B(x)) <= Cardinality(B(y)) /\ Cardinality(B(x)) # Cardinality(B(y))
    BY <1>0, <2>1, FS_Subset
  <2> HIDE DEF B
  <2> QED
    BY <1>0, <2>2
<1>3. ASSUME NEW x \in S, NEW y \in S, Place(R, S, x) = Place(R, S, y) PROVE x = y
  <2>1. ~(Place(R, S, x) < Place(R, S, y)) /\ ~(Place(R, S, y) < Place(R, S, x))
    BY <1>1, <1>3
  <2> QED
    BY <1>2, <2>1 DEF Orders
<1> QED
  BY <1>1, <1>2, <1>3

(* The first few in an order are no more than that. *)
LEMMA FirstFew ==
    ASSUME NEW S, IsFiniteSet(S), NEW R, Orders(R, S), NEW k \in Nat
    PROVE  /\ IsFiniteSet({x \in S : Place(R, S, x) < k})
           /\ Cardinality({x \in S : Place(R, S, x) < k}) <= k
<1> DEFINE F == {x \in S : Place(R, S, x) < k}
           f == [x \in F |-> Place(R, S, x)]
<1>1. f \in [F -> 0..(k - 1)]
  BY PlacesDiffer
<1>2. \A x, y \in F : f[x] = f[y] => x = y
  BY PlacesDiffer
<1>3. f \in Injection(F, 0..(k - 1))
  BY <1>1, <1>2 DEF Injection, IsInjective
<1>4. IsFiniteSet(0..(k - 1)) /\ Cardinality(0..(k - 1)) = k
  <2>1. 0 \in Int /\ k - 1 \in Int
    OBVIOUS
  <2>2. Cardinality(0..(k - 1)) = IF 0 > k - 1 THEN 0 ELSE (k - 1) - 0 + 1
    BY <2>1, FS_Interval
  <2> QED
    BY <2>1, <2>2, FS_Interval
<1> HIDE DEF f, F
<1>5. IsFiniteSet(F) /\ Cardinality(F) <= Cardinality(0..(k - 1))
  BY <1>3, <1>4, FS_Injection
<1> QED
  BY <1>4, <1>5 DEF F

(* Each place is taken. *)
LEMMA PlacesTaken ==
    ASSUME NEW S, IsFiniteSet(S), NEW R, Orders(R, S), NEW k \in 1..Cardinality(S)
    PROVE  \E x \in S : Place(R, S, x) = k - 1
<1> DEFINE n == Cardinality(S)
           I == 0..(n - 1)
           f == [x \in S |-> Place(R, S, x)]
<1>1. n \in Nat /\ k - 1 \in I
  BY FS_CardinalityType
<1>2. f \in [S -> I]
  BY <1>1, PlacesDiffer
<1>3. \A x, y \in S : f[x] = f[y] => x = y
  BY PlacesDiffer
<1>4. f \in Injection(S, I)
  BY <1>2, <1>3 DEF Injection, IsInjective
<1>5. IsFiniteSet(I) /\ Cardinality(I) = n
  <2>1. 0 \in Int /\ n - 1 \in Int
    BY <1>1
  <2>2. Cardinality(I) = IF 0 > n - 1 THEN 0 ELSE (n - 1) - 0 + 1
    BY <2>1, FS_Interval
  <2> QED
    BY <1>1, <2>1, <2>2, FS_Interval
<1>6. f \in Surjection(S, I)
  <2> HIDE DEF f, I
  <2> QED
    BY <1>4, <1>5, FS_Injection
<1>7. PICK x \in S : f[x] = k - 1
  BY <1>1, <1>6 DEF Surjection
<1> QED
  BY <1>7

-----------------------------------------------------------------------------
(* The folds of the community modules are recursions over a finite set: of *)
(* a sequence's places, the last first, or of the set's members.           *)

LEMMA IterationTyped ==
    ASSUME NEW S, IsFiniteSet(S), NEW pick, Picks(pick, S), NEW V, NEW f, f[{}] \in V,
           \A s \in SUBSET S : s # {} /\ f[s \ {pick[s]}] \in V => f[s] \in V
    PROVE  \A s \in SUBSET S : f[s] \in V
<1> DEFINE T == {s \in SUBSET S : f[s] \in V}
<1>1. {} \in T /\ \A s \in SUBSET S : s # {} /\ s \ {pick[s]} \in T => s \in T
  OBVIOUS
<1> HIDE DEF T
<1>2. \A s \in SUBSET S : s \in T
  BY <1>1, SubsetInduction
<1> QED
  BY <1>2 DEF T

LEMMA IterationStays ==
    ASSUME NEW S, IsFiniteSet(S), NEW pick, Picks(pick, S), NEW V, NEW f, f[{}] \in V,
           \A s \in SUBSET S : s # {} /\ f[s \ {pick[s]}] \in V => f[s] \in V
    PROVE  f[S] \in V
<1>1. \A s \in SUBSET S : f[s] \in V
  BY IterationTyped
<1> QED
  BY <1>1

LastPlace(n) == [s \in SUBSET (1..n) |-> Max(s)]
AnyMember(S) == [s \in SUBSET S |-> CHOOSE x \in s : TRUE]

LEMMA LastPlacePicks ==
    ASSUME NEW n \in Nat
    PROVE  IsFiniteSet(1..n) /\ Picks(LastPlace(n), 1..n)
<1>1. ASSUME NEW s \in SUBSET (1..n), s # {} PROVE Max(s) \in s
  <2> DEFINE T == {n - x : x \in s}
  <2>1. T \subseteq Nat /\ T # {}
    <3>1. \A x \in s : x \in 1..n /\ n - x \in Nat
      OBVIOUS
    <3>2. PICK x \in s : TRUE
      BY <1>1
    <3> QED
      BY <3>1, <3>2
  <2>2. PICK m \in T : \A k \in T : m <= k
    BY <2>1, LeastNatural
  <2>3. PICK x \in s : m = n - x
    BY <2>2
  <2>4. \A y \in s : n - y \in T
    OBVIOUS
  <2> HIDE DEF T
  <2>5. \A y \in s : y <= x
    <3> SUFFICES ASSUME NEW y \in s PROVE y <= x
      OBVIOUS
    <3>1. n - x <= n - y
      BY <2>2, <2>3, <2>4
    <3>2. x \in 1..n /\ y \in 1..n
      OBVIOUS
    <3> QED
      BY <3>1, <3>2
  <2>6. s \subseteq Int
    OBVIOUS
  <2>7. Max(s) = x
    BY <2>5, <2>6, MaxOf
  <2> QED
    BY <2>7
<1>2. IsFiniteSet(1..n)
  <2>1. 1 \in Int /\ n \in Int
    OBVIOUS
  <2> QED
    BY <2>1, FS_Interval, Zenon
<1> QED
  BY <1>1, <1>2 DEF Picks, LastPlace

LEMMA AnyMemberPicks == ASSUME NEW S PROVE Picks(AnyMember(S), S)
  BY DEF Picks, AnyMember

(* A set in its order, as a sequence. *)
InOrderOf(q, S, R) ==
    /\ q \in Seq(S) /\ Len(q) = Cardinality(S)
    /\ \A x \in S : \E i \in 1..Len(q) : q[i] = x
    /\ \A i, j \in 1..Len(q) : i < j => <<q[i], q[j]>> \in R

LEMMA PlacesGiveOrder ==
    ASSUME NEW S, IsFiniteSet(S), NEW R, Orders(R, S),
           NEW q, q = [k \in 1..Cardinality(S) |-> q[k]],
           \A k \in 1..Cardinality(S) :
               (\E x \in S : Place(R, S, x) = k - 1) => q[k] \in S /\ Place(R, S, q[k]) = k - 1
    PROVE  InOrderOf(q, S, R)
<1> DEFINE n == Cardinality(S)
<1>1. n \in Nat
  BY FS_CardinalityType
<1>2. \A k \in 1..n : q[k] \in S /\ Place(R, S, q[k]) = k - 1
  BY PlacesTaken
<1>3. q \in Seq(S) /\ Len(q) = n
  <2>1. q \in [1..n -> S]
    BY <1>2
  <2> HIDE DEF n
  <2> QED
    BY <1>1, <2>1, FunctionIsSeq
<1>4. ASSUME NEW x \in S PROVE \E i \in 1..n : q[i] = x
  <2> DEFINE k == Place(R, S, x) + 1
  <2>0. Place(R, S, x) \in Nat /\ Place(R, S, x) < n
    BY PlacesDiffer
  <2>1. k \in 1..n /\ Place(R, S, x) = k - 1
    <3> HIDE DEF n
    <3> QED
      BY <1>1, <2>0
  <2> HIDE DEF k
  <2>2. q[k] \in S /\ Place(R, S, q[k]) = Place(R, S, x)
    BY <1>2, <2>1
  <2> QED
    BY <2>1, <2>2, PlacesDiffer
<1>5. ASSUME NEW i \in 1..n, NEW j \in 1..n, i < j PROVE <<q[i], q[j]>> \in R
  <2>1. /\ q[i] \in S /\ Place(R, S, q[i]) = i - 1
        /\ q[j] \in S /\ Place(R, S, q[j]) = j - 1
    BY <1>2
  <2>2. i - 1 < j - 1 /\ ~(j - 1 < i - 1)
    <3> HIDE DEF n
    <3> QED
      BY <1>1, <1>5
  <2>3. q[i] # q[j] /\ <<q[j], q[i]>> \notin R
    BY <2>1, <2>2, PlacesDiffer
  <2> QED
    BY <2>1, <2>3 DEF Orders
<1> QED
  BY <1>3, <1>4, <1>5 DEF InOrderOf
-----------------------------------------------------------------------------
(* Sums over finite sets.  SumOf(g, S) is MapThenSumSet, of a function.    *)

IsSum(f, g, S) ==
    f = [s \in SUBSET S |->
            IF s = {} THEN 0 ELSE LET x == CHOOSE x \in s : TRUE IN g[x] + f[s \ {x}]]
SumOf(g, S) == LET f == CHOOSE f : IsSum(f, g, S) IN f[S]

Numbers(g, S) == IsFiniteSet(S) /\ \A x \in S : g[x] \in Int

LEMMA SumExists ==
    ASSUME NEW S, NEW g, Numbers(g, S)
    PROVE  \E f \in [SUBSET S -> Int] : IsSum(f, g, S) /\ f[S] = SumOf(g, S)
<1> DEFINE pick == AnyMember(S)
           step == [x \in S \X Int |-> g[x[1]] + x[2]]
           sum == CHOOSE f : IsSum(f, g, S)
<1>1. IsFiniteSet(S) /\ Picks(pick, S)
  BY AnyMemberPicks DEF Numbers
<1>2. step \in [S \X Int -> Int] /\ 0 \in Int
  BY DEF Numbers
<1>3. \E f : IsSum(f, g, S)
  <2> HIDE DEF step, pick
  <2>1. PICK f : IsIteration(f, S, Int, pick, 0, step)
    BY <1>1, <1>2, IterationExists
  <2>2. ASSUME NEW s \in SUBSET S, s # {}
        PROVE  LET x == CHOOSE x \in s : TRUE IN f[s] = g[x] + f[s \ {x}]
    <3> DEFINE x == CHOOSE x \in s : TRUE
    <3>1. x \in s /\ pick[s] = x
      BY <2>2 DEF pick, AnyMember
    <3> HIDE DEF x
    <3>2. f[s] = step[<<x, f[s \ {x}]>>] /\ <<x, f[s \ {x}]>> \in S \X Int
      BY <2>1, <2>2, <3>1 DEF IsIteration
    <3>3. f[s] = g[x] + f[s \ {x}]
      BY <3>2 DEF step
    <3> QED
      BY <3>3 DEF x
  <2>3. f = [s \in SUBSET S |->
               IF s = {} THEN 0 ELSE LET x == CHOOSE x \in s : TRUE IN g[x] + f[s \ {x}]]
    BY <2>1, <2>2 DEF IsIteration
  <2> QED
    BY <2>3 DEF IsSum
<1>4. IsSum(sum, g, S)
  BY <1>3
<1>5. sum[S] = SumOf(g, S)
  BY DEF SumOf
<1> HIDE DEF sum
<1>6. sum \in [SUBSET S -> Int]
  <2>1. sum[{}] \in Int
    BY <1>4 DEF IsSum
  <2>2. ASSUME NEW s \in SUBSET S, s # {}, sum[s \ {pick[s]}] \in Int PROVE sum[s] \in Int
    <3>1. pick[s] \in S /\ pick[s] = CHOOSE x \in s : TRUE
      BY <2>2 DEF AnyMember
    <3>2. sum[s] = g[pick[s]] + sum[s \ {pick[s]}]
      BY <1>4, <2>2, <3>1 DEF IsSum
    <3> QED
      BY <2>2, <3>1, <3>2 DEF Numbers
  <2> HIDE DEF pick
  <2>3. \A s \in SUBSET S : sum[s] \in Int
    BY <1>1, <2>1, <2>2, IterationTyped
  <2>4. sum = [s \in SUBSET S |-> sum[s]]
    BY <1>4 DEF IsSum
  <2> QED
    BY <2>3, <2>4
<1> QED
  BY <1>4, <1>5, <1>6

(* The recursion of a set goes through the sums of its subsets. *)
LEMMA SumOfSubsets ==
    ASSUME NEW S, NEW g, Numbers(g, S), NEW f, IsSum(f, g, S)
    PROVE  \A t \in SUBSET S : f[t] = SumOf(g, t)
<1> SUFFICES ASSUME NEW t \in SUBSET S PROVE f[t] = SumOf(g, t)
  OBVIOUS
<1>1. Numbers(g, t)
  BY FS_Subset DEF Numbers
<1>2. PICK h \in [SUBSET t -> Int] : IsSum(h, g, t) /\ h[t] = SumOf(g, t)
  BY <1>1, SumExists
<1> DEFINE T == {s \in SUBSET t : h[s] = f[s]}
           pick == AnyMember(t)
<1>3. {} \in T
  BY <1>2 DEF IsSum
<1>4. ASSUME NEW s \in SUBSET t, s # {}, s \ {pick[s]} \in T PROVE s \in T
  <2>1. pick[s] = CHOOSE x \in s : TRUE
    BY DEF AnyMember
  <2>2. h[s] = g[pick[s]] + h[s \ {pick[s]}]
    BY <1>2, <1>4, <2>1 DEF IsSum
  <2>3. s \in SUBSET S /\ f[s] = g[pick[s]] + f[s \ {pick[s]}]
    BY <1>4, <2>1 DEF IsSum
  <2>4. h[s \ {pick[s]}] = f[s \ {pick[s]}]
    BY <1>4
  <2> QED
    BY <2>2, <2>3, <2>4
<1> HIDE DEF T
<1>5. IsFiniteSet(t) /\ Picks(pick, t)
  BY <1>1, AnyMemberPicks DEF Numbers
<1> HIDE DEF pick
<1>6. t \in T
  BY <1>3, <1>4, <1>5, WholeSet
<1> QED
  BY <1>2, <1>6 DEF T

LEMMA SumNext ==
    ASSUME NEW S, NEW g, Numbers(g, S), S # {}
    PROVE  LET x == CHOOSE x \in S : TRUE
           IN  SumOf(g, S) = g[x] + SumOf(g, S \ {x})
<1> DEFINE x == CHOOSE x \in S : TRUE
<1>1. PICK f \in [SUBSET S -> Int] : IsSum(f, g, S) /\ f[S] = SumOf(g, S)
  BY SumExists
<1>2. S \in SUBSET S /\ S \ {x} \in SUBSET S
  OBVIOUS
<1>3. f[S] = g[x] + f[S \ {x}]
  BY <1>1, <1>2 DEF IsSum
<1> HIDE DEF x
<1>4. f[S \ {x}] = SumOf(g, S \ {x})
  BY <1>1, <1>2, SumOfSubsets
<1>5. SumOf(g, S) = g[x] + SumOf(g, S \ {x})
  BY <1>1, <1>3, <1>4
<1> QED
  BY <1>5 DEF x

LEMMA SumEmpty == ASSUME NEW g PROVE SumOf(g, {}) = 0
<1>1. Numbers(g, {})
  BY FS_EmptySet DEF Numbers
<1>2. PICK f \in [SUBSET {} -> Int] : IsSum(f, g, {}) /\ f[{}] = SumOf(g, {})
  BY <1>1, SumExists
<1>3. f[{}] = 0
  BY <1>2 DEF IsSum
<1> QED
  BY <1>2, <1>3

LEMMA SumTyped == ASSUME NEW S, NEW g, Numbers(g, S) PROVE SumOf(g, S) \in Int
<1>1. PICK f \in [SUBSET S -> Int] : IsSum(f, g, S) /\ f[S] = SumOf(g, S)
  BY SumExists
<1> QED
  BY <1>1

(* Addition commutes: any member may be taken first. *)
LEMMA SumRemove ==
    ASSUME NEW S, NEW g, Numbers(g, S), NEW a \in S
    PROVE  SumOf(g, S) = g[a] + SumOf(g, S \ {a})
<1> DEFINE Any(s) == \A x \in s : SumOf(g, s) = g[x] + SumOf(g, s \ {x})
           T == {k \in 0..Cardinality(S) : \A s \in SUBSET S : Cardinality(s) = k => Any(s)}
<1>0. \A s \in SUBSET S : /\ Numbers(g, s) /\ Cardinality(s) \in 0..Cardinality(S)
                          /\ SumOf(g, s) \in Int
  <2> SUFFICES ASSUME NEW s \in SUBSET S
               PROVE  /\ Numbers(g, s) /\ Cardinality(s) \in 0..Cardinality(S)
                      /\ SumOf(g, s) \in Int
    OBVIOUS
  <2>1. IsFiniteSet(S) /\ IsFiniteSet(s) /\ Cardinality(s) <= Cardinality(S)
    BY FS_Subset DEF Numbers
  <2>2. Cardinality(s) \in Nat /\ Cardinality(S) \in Nat
    BY <2>1, FS_CardinalityType
  <2>3. Numbers(g, s)
    BY <2>1 DEF Numbers
  <2> QED
    BY <2>1, <2>2, <2>3, SumTyped
<1>1. 0 \in T
  <2>1. ASSUME NEW s \in SUBSET S, Cardinality(s) = 0 PROVE s = {}
    BY <1>0, <2>1, FS_EmptySet DEF Numbers
  <2>2. 0 \in 0..Cardinality(S)
    BY <1>0, FS_CardinalityType DEF Numbers
  <2> QED
    BY <2>1, <2>2
<1>2. ASSUME NEW n \in 0..Cardinality(S), n \in T, n < Cardinality(S) PROVE n + 1 \in T
  <2> SUFFICES ASSUME NEW s \in SUBSET S, Cardinality(s) = n + 1, NEW x \in s
               PROVE  SumOf(g, s) = g[x] + SumOf(g, s \ {x})
    <3>1. n + 1 \in 0..Cardinality(S)
      BY <1>0, <1>2, FS_CardinalityType DEF Numbers
    <3> QED
      BY <3>1
  <2> DEFINE p == CHOOSE p \in s : TRUE
  <2>1. p \in s /\ SumOf(g, s) = g[p] + SumOf(g, s \ {p})
    BY <1>0, SumNext
  <2> HIDE DEF p
  <2>2. CASE x = p
    BY <2>1, <2>2
  <2>3. CASE x # p
    <3>1. /\ s \ {p} \in SUBSET S /\ s \ {x} \in SUBSET S /\ (s \ {p}) \ {x} \in SUBSET S
          /\ (s \ {x}) \ {p} = (s \ {p}) \ {x}
          /\ x \in s \ {p} /\ p \in s \ {x} /\ x \in S /\ p \in S
      BY <2>1, <2>3
    <3>2. Cardinality(s \ {p}) = n /\ Cardinality(s \ {x}) = n
      BY <1>0, <2>1, FS_RemoveElement DEF Numbers
    <3>3. Any(s \ {p}) /\ Any(s \ {x})
      BY <1>2, <3>1, <3>2
    <3>4. /\ SumOf(g, s \ {p}) = g[x] + SumOf(g, (s \ {p}) \ {x})
          /\ SumOf(g, s \ {x}) = g[p] + SumOf(g, (s \ {p}) \ {x})
      BY <3>1, <3>3
    <3>5. /\ SumOf(g, (s \ {p}) \ {x}) \in Int /\ g[p] \in Int /\ g[x] \in Int
      BY <1>0, <3>1 DEF Numbers
    <3> QED
      BY <2>1, <3>4, <3>5
  <2> QED
    BY <2>2, <2>3
<1> HIDE DEF T
<1>3. Cardinality(S) \in T
  <2>1. Cardinality(S) \in Nat
    BY FS_CardinalityType DEF Numbers
  <2>2. \A k \in 0..Cardinality(S) : k \in T
    BY <1>1, <1>2, <2>1, InductionUpTo
  <2> QED
    BY <2>1, <2>2
<1> QED
  BY <1>3 DEF T

LEMMA SumAdd ==
    ASSUME NEW S, NEW g, NEW a, a \notin S, Numbers(g, S), g[a] \in Int
    PROVE  SumOf(g, S \cup {a}) = g[a] + SumOf(g, S) /\ Numbers(g, S \cup {a})
<1>1. Numbers(g, S \cup {a})
  BY FS_AddElement DEF Numbers
<1>2. (S \cup {a}) \ {a} = S
  OBVIOUS
<1> QED
  BY <1>1, <1>2, SumRemove

(* Sums over a set are compared member by member. *)
LEMMA SumCompare ==
    ASSUME NEW S, NEW g, NEW h, Numbers(g, S), Numbers(h, S), \A x \in S : g[x] <= h[x]
    PROVE  SumOf(g, S) <= SumOf(h, S)
<1> DEFINE T == {s \in SUBSET S : SumOf(g, s) <= SumOf(h, s)}
           pick == AnyMember(S)
<1>1. {} \in T
  BY SumEmpty
<1>2. ASSUME NEW s \in SUBSET S, s # {}, s \ {pick[s]} \in T PROVE s \in T
  <2> DEFINE x == CHOOSE x \in s : TRUE
  <2>1. x \in S /\ pick[s] = x
    BY <1>2 DEF AnyMember
  <2>2. Numbers(g, s) /\ Numbers(h, s) /\ Numbers(g, s \ {x}) /\ Numbers(h, s \ {x})
    BY FS_Subset DEF Numbers
  <2>3. SumOf(g, s) = g[x] + SumOf(g, s \ {x}) /\ SumOf(h, s) = h[x] + SumOf(h, s \ {x})
    BY <1>2, <2>2, SumNext
  <2> HIDE DEF x
  <2>4. SumOf(g, s \ {x}) \in Int /\ SumOf(h, s \ {x}) \in Int
    BY <2>2, SumTyped
  <2>5. g[x] \in Int /\ h[x] \in Int /\ g[x] <= h[x]
    BY <2>1 DEF Numbers
  <2>6. SumOf(g, s \ {x}) <= SumOf(h, s \ {x})
    BY <1>2, <2>1
  <2> QED
    BY <2>3, <2>4, <2>5, <2>6
<1>3. IsFiniteSet(S) /\ Picks(pick, S)
  BY AnyMemberPicks DEF Numbers
<1> HIDE DEF T, pick
<1>4. S \in T
  BY <1>1, <1>2, <1>3, WholeSet
<1> QED
  BY <1>4 DEF T

LEMMA SumSame ==
    ASSUME NEW S, NEW g, NEW h, Numbers(g, S), \A x \in S : g[x] = h[x]
    PROVE  SumOf(g, S) = SumOf(h, S)
<1>1. Numbers(h, S)
  BY DEF Numbers
<1>2. \A x \in S : g[x] <= h[x] /\ h[x] <= g[x]
  BY DEF Numbers
<1>3. SumOf(g, S) <= SumOf(h, S) /\ SumOf(h, S) <= SumOf(g, S)
  BY <1>1, <1>2, SumCompare
<1> QED
  BY <1>1, <1>3, SumTyped
LEMMA SumSubset ==
    ASSUME NEW S, NEW g, Numbers(g, S), \A x \in S : g[x] >= 0, NEW t \in SUBSET S
    PROVE  SumOf(g, t) <= SumOf(g, S)
<1> DEFINE T == {s \in SUBSET S : SumOf(g, s \cap t) <= SumOf(g, s)}
           pick == AnyMember(S)
<1>0. \A s \in SUBSET S : Numbers(g, s) /\ SumOf(g, s) \in Int
  BY SumTyped, FS_Subset DEF Numbers
<1>1. {} \in T
  BY SumEmpty
<1>2. ASSUME NEW s \in SUBSET S, s # {}, s \ {pick[s]} \in T PROVE s \in T
  <2> DEFINE x == pick[s]
  <2>1. x \in s /\ x \in S
    BY <1>2, AnyMemberPicks DEF Picks
  <2> HIDE DEF x, pick
  <2>2. s \ {x} \in SUBSET S /\ s \cap t \in SUBSET S /\ (s \ {x}) \cap t \in SUBSET S
    OBVIOUS
  <2>3. SumOf(g, s) = g[x] + SumOf(g, s \ {x})
    BY <1>0, <2>1, SumRemove
  <2>4. SumOf(g, (s \ {x}) \cap t) <= SumOf(g, s \ {x})
    BY <1>2 DEF x
  <2>5. g[x] \in Int /\ g[x] >= 0
    BY <2>1 DEF Numbers
  <2>6. CASE x \in t
    <3>1. (s \cap t) \ {x} = (s \ {x}) \cap t /\ x \in s \cap t
      BY <2>1, <2>6
    <3>2. SumOf(g, s \cap t) = g[x] + SumOf(g, (s \ {x}) \cap t)
      BY <1>0, <2>2, <3>1, SumRemove
    <3>3. SumOf(g, s \cap t) <= SumOf(g, s)
      BY <1>0, <2>2, <2>3, <2>4, <2>5, <3>2
    <3> QED
      BY <3>3
  <2>7. CASE x \notin t
    <3>1. s \cap t = (s \ {x}) \cap t
      BY <2>7
    <3>2. SumOf(g, s \cap t) <= SumOf(g, s)
      BY <1>0, <2>2, <2>3, <2>4, <2>5, <3>1
    <3> QED
      BY <3>2
  <2> QED
    BY <2>6, <2>7
<1>3. IsFiniteSet(S) /\ Picks(pick, S)
  BY AnyMemberPicks DEF Numbers
<1> HIDE DEF T, pick
<1>4. S \in T
  BY <1>1, <1>2, <1>3, WholeSet
<1>5. S \cap t = t
  OBVIOUS
<1> QED
  BY <1>4, <1>5 DEF T

-----------------------------------------------------------------------------
(* Weighted sums *)

LEMMA SumScaled ==
    ASSUME NEW S, NEW g, NEW h, NEW k \in Int, Numbers(g, S), \A x \in S : h[x] = k * g[x]
    PROVE  Numbers(h, S) /\ SumOf(h, S) = k * SumOf(g, S)
<1> DEFINE T == {s \in SUBSET S : SumOf(h, s) = k * SumOf(g, s)}
           pick == AnyMember(S)
<1>0. Numbers(h, S)
  BY DEF Numbers
<1>1. {} \in T
  <2>1. k * 0 = 0
    OBVIOUS
  <2> QED
    BY <2>1, SumEmpty
<1>2. ASSUME NEW s \in SUBSET S, s # {}, s \ {pick[s]} \in T PROVE s \in T
  <2> DEFINE x == CHOOSE x \in s : TRUE
  <2>1. x \in S /\ pick[s] = x
    BY <1>2 DEF AnyMember
  <2>2. Numbers(g, s) /\ Numbers(h, s) /\ Numbers(g, s \ {x})
    BY <1>0, FS_Subset DEF Numbers
  <2>3. SumOf(g, s) = g[x] + SumOf(g, s \ {x}) /\ SumOf(h, s) = h[x] + SumOf(h, s \ {x})
    BY <1>2, <2>2, SumNext
  <2> HIDE DEF x
  <2>4. SumOf(g, s \ {x}) \in Int /\ g[x] \in Int /\ h[x] = k * g[x]
    BY <2>1, <2>2, SumTyped DEF Numbers
  <2>5. SumOf(h, s \ {x}) = k * SumOf(g, s \ {x})
    BY <1>2, <2>1
  <2> DEFINE a == g[x]
             b == SumOf(g, s \ {x})
  <2>6. k * (a + b) = k * a + k * b
    <3>1. a \in Int /\ b \in Int
      BY <2>4
    <3> HIDE DEF a, b
    <3> QED
      BY <3>1
  <2>7. SumOf(h, s) = k * SumOf(g, s)
    BY <2>3, <2>4, <2>5, <2>6
  <2> QED
    BY <2>7
<1>3. IsFiniteSet(S) /\ Picks(pick, S)
  BY AnyMemberPicks DEF Numbers
<1> HIDE DEF T, pick
<1>4. S \in T
  BY <1>1, <1>2, <1>3, WholeSet
<1> QED
  BY <1>0, <1>4 DEF T

LEMMA FiniteBound ==
    ASSUME NEW U, IsFiniteSet(U), U \subseteq Nat
    PROVE  \E b \in Nat : \A x \in U : x <= b
<1> DEFINE T == {s \in SUBSET U : \E b \in Nat : \A x \in s : x <= b}
           pick == AnyMember(U)
<1>1. {} \in T
  OBVIOUS
<1>2. ASSUME NEW s \in SUBSET U, s # {}, s \ {pick[s]} \in T PROVE s \in T
  <2>1. pick[s] \in s
    BY <1>2, AnyMemberPicks DEF Picks
  <2> DEFINE p == pick[s]
  <2>2. PICK b \in Nat : \A x \in s \ {p} : x <= b
    BY <1>2
  <2> HIDE DEF p, pick
  <2>3. p \in Nat
    BY <2>1 DEF p
  <2>4. \E c \in Nat : \A x \in s : x <= c
    <3>1. CASE p <= b
      BY <2>2, <3>1
    <3>2. CASE ~(p <= b)
      <4>1. \A x \in s : x \in Nat
        OBVIOUS
      <4>2. \A x \in s : x <= p
        BY <2>2, <2>3, <3>2, <4>1
      <4> QED
        BY <2>3, <4>2
    <3> QED
      BY <3>1, <3>2
  <2> QED
    BY <2>4
<1>3. Picks(pick, U)
  BY AnyMemberPicks
<1> HIDE DEF T, pick
<1>4. U \in T
  BY <1>1, <1>2, <1>3, WholeSet
<1> QED
  BY <1>4 DEF T

(* A weighted sum lies between the bounds of what is weighed, times the    *)
(* sum of the weights.                                                     *)
Weighs(w, g, S, low, high) ==
    /\ Numbers(g, S) /\ low \in Int /\ high \in Int
    /\ \A x \in S : g[x] >= 0 /\ \E d \in low..high : w[x] = d * g[x]

LEMMA WeightedSum ==
    ASSUME NEW S, NEW g, NEW w, NEW low, NEW high, Weighs(w, g, S, low, high)
    PROVE  /\ Numbers(w, S)
           /\ low * SumOf(g, S) <= SumOf(w, S) /\ SumOf(w, S) <= high * SumOf(g, S)
<1> DEFINE l == [x \in S |-> low * g[x]]
           h == [x \in S |-> high * g[x]]
<1>0. /\ Numbers(g, S) /\ low \in Int /\ high \in Int
      /\ \A x \in S : g[x] >= 0 /\ \E d \in low..high : w[x] = d * g[x]
  BY DEF Weighs
<1>1. ASSUME NEW x \in S PROVE w[x] \in Int /\ l[x] <= w[x] /\ w[x] <= h[x]
  <2>1. PICK d \in low..high : w[x] = d * g[x]
    BY <1>0
  <2> DEFINE a == g[x]
  <2>2. a \in Int /\ a >= 0
    BY <1>0 DEF Numbers
  <2> HIDE DEF a
  <2>3. d * a \in Int /\ low * a <= d * a /\ d * a <= high * a
    BY <1>0, <2>2
  <2> QED
    BY <2>1, <2>3 DEF a
<1>2. Numbers(w, S)
  BY <1>0, <1>1 DEF Numbers
<1>3. /\ Numbers(l, S) /\ SumOf(l, S) = low * SumOf(g, S)
      /\ Numbers(h, S) /\ SumOf(h, S) = high * SumOf(g, S)
  <2>1. \A x \in S : l[x] = low * g[x] /\ h[x] = high * g[x]
    OBVIOUS
  <2> HIDE DEF l, h
  <2> QED
    BY <1>0, <2>1, SumScaled
<1> HIDE DEF l, h
<1>4. SumOf(l, S) <= SumOf(w, S) /\ SumOf(w, S) <= SumOf(h, S)
  BY <1>1, <1>2, <1>3, SumCompare
<1> QED
  BY <1>2, <1>3, <1>4

LEMMA SumPositive ==
    ASSUME NEW S, NEW g, Numbers(g, S), \A x \in S : g[x] >= 0
    PROVE  SumOf(g, S) \in Nat
<1>1. SumOf(g, {}) <= SumOf(g, S)
  BY SumSubset
<1> QED
  BY <1>1, SumEmpty, SumTyped

(* h has v more than g at x, which may be new, and agrees elsewhere. *)
Raised(h, g, S, x, v) ==
    /\ v \in Int /\ h[x] = (IF x \in S THEN g[x] ELSE 0) + v
    /\ \A y \in S \ {x} : h[y] = g[y]

LEMMA SumRaised ==
    ASSUME NEW S, NEW g, NEW h, NEW x, NEW v, Numbers(g, S), Raised(h, g, S, x, v)
    PROVE  Numbers(h, S \cup {x}) /\ SumOf(h, S \cup {x}) = SumOf(g, S) + v
<1> USE DEF Raised
<1> DEFINE R == S \ {x}
<1>1. Numbers(g, R) /\ Numbers(h, R) /\ x \notin R /\ R \cup {x} = S \cup {x}
  BY FS_Subset DEF Numbers
<1>2. SumOf(g, R) = SumOf(h, R) /\ SumOf(g, R) \in Int
  BY <1>1, SumSame, SumTyped
<1>3. h[x] \in Int /\ (x \in S => g[x] \in Int)
  BY DEF Numbers
<1>4. SumOf(h, R \cup {x}) = h[x] + SumOf(h, R) /\ Numbers(h, R \cup {x})
  BY <1>1, <1>3, SumAdd
<1>5. CASE x \in S
  <2>1. SumOf(g, S) = g[x] + SumOf(g, R)
    BY <1>5, SumRemove
  <2> HIDE DEF R
  <2>2. h[x] = g[x] + v
    BY <1>5
  <2> DEFINE a == SumOf(g, R)
             b == g[x]
  <2>3. a \in Int /\ b \in Int /\ SumOf(h, S \cup {x}) = (b + v) + a /\ SumOf(g, S) = b + a
    BY <1>1, <1>2, <1>3, <1>4, <1>5, <2>1, <2>2
  <2> HIDE DEF a, b
  <2> QED
    BY <1>1, <1>4, <2>3
<1>6. CASE x \notin S
  <2>1. R = S
    BY <1>6
  <2>2. h[x] = v
    BY <1>6
  <2> HIDE DEF R
  <2> QED
    BY <1>1, <1>2, <1>4, <2>1, <2>2
<1> QED
  BY <1>5, <1>6

-----------------------------------------------------------------------------
(* Least and greatest members. *)

LEMMA MinIn ==
    ASSUME NEW S, S \subseteq Nat, S # {}
    PROVE  Min(S) \in S /\ \A x \in S : Min(S) <= x
<1>1. PICK m \in S : \A x \in S : m <= x
  BY LeastNatural
<1>2. m \in {x \in S : \A y \in S : x <= y}
  BY <1>1
<1> QED
  BY <1>1, <1>2 DEF Min

LEMMA MaxIn ==
    ASSUME NEW S, S \subseteq Int, S # {}, NEW b \in Int, \A x \in S : x <= b
    PROVE  Max(S) \in S /\ \A x \in S : x <= Max(S)
<1> DEFINE T == {b - x : x \in S}
<1>1. T \subseteq Nat /\ T # {}
  <2>1. \A x \in S : x \in Int /\ b - x \in Nat
    OBVIOUS
  <2>2. PICK x \in S : TRUE
    OBVIOUS
  <2> QED
    BY <2>1, <2>2
<1>2. PICK m \in T : \A n \in T : m <= n
  BY <1>1, LeastNatural
<1>3. PICK a \in S : m = b - a
  BY <1>2
<1>4. ASSUME NEW x \in S PROVE x <= a
  <2>1. b - x \in T
    OBVIOUS
  <2> HIDE DEF T
  <2>2. b - a <= b - x /\ x \in Int /\ a \in Int
    BY <1>2, <1>3, <2>1
  <2> QED
    BY <2>2
<1>5. Max(S) = a
  BY <1>4, MaxOf
<1> QED
  BY <1>4, <1>5
=============================================================================
