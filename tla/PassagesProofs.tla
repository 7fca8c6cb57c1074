--------------------------- MODULE PassagesProofs ---------------------------
(***************************************************************************)
(* Proofs about Passages, for any documents and any budgets: windows and   *)
(* chunks are bounded, overlap is, and what is left out.                   *)
(***************************************************************************)
EXTENDS Passages, DataLemmas

-----------------------------------------------------------------------------
(* The bytes of joined sentences *)

lens == [i \in 1..Len(sentences) |-> len(i)]

DocumentInv == sentences \in Documents

LEMMA SentencesTyped ==
    ASSUME DocumentInv
    PROVE  /\ Len(sentences) \in Nat
           /\ \A i \in 1..Len(sentences) : len(i) \in Nat /\ len(i) > 0 /\ lens[i] = len(i)
           /\ max_bytes \in Nat /\ max_bytes > 0 /\ overlap_bytes \in Nat
<1>1. Len(sentences) \in Nat /\ \A i \in 1..Len(sentences) : len(i) \in Nat \ {0}
  BY DocumentAssumption DEF DocumentInv, len
<1> QED
  BY <1>1, SizeAssumption DEF lens

LEMMA JoinedIs ==
    ASSUME DocumentInv, NEW i \in Nat \ {0}, NEW j \in 0..Len(sentences), i <= j
    PROVE  /\ Numbers(lens, i..j)
           /\ Joined(i, j) = SumOf(lens, i..j) + (j - i)
<1> DEFINE S == i..j
           Is(f) == f = [s \in SUBSET S |->
                            IF s = {} THEN 0
                            ELSE LET x == CHOOSE x \in s : TRUE IN len(x) + f[s \ {x}]]
<1>1. S \subseteq 1..Len(sentences) /\ ~(j < i)
  BY SentencesTyped
<1>2. IsFiniteSet(S)
  <2>1. i \in Int /\ j \in Int
    OBVIOUS
  <2> QED
    BY <2>1, FS_Interval, Zenon
<1>3. Numbers(lens, S)
  BY <1>1, <1>2, SentencesTyped DEF Numbers
<1>4. MapThenSumSet(len, S) = LET f == CHOOSE f : Is(f) IN f[S]
  BY DEF MapThenSumSet, MapThenFoldSet
<1>5. ASSUME NEW f PROVE Is(f) <=> IsSum(f, lens, S)
  <2> DEFINE one(s) == IF s = {} THEN 0 ELSE LET x == CHOOSE x \in s : TRUE IN len(x) + f[s \ {x}]
             two(s) == IF s = {} THEN 0 ELSE LET x == CHOOSE x \in s : TRUE IN lens[x] + f[s \ {x}]
  <2>1. \A s \in SUBSET S : one(s) = two(s)
    <3> SUFFICES ASSUME NEW s \in SUBSET S, s # {} PROVE one(s) = two(s)
      OBVIOUS
    <3> DEFINE x == CHOOSE x \in s : TRUE
    <3>1. x \in S
      OBVIOUS
    <3> HIDE DEF x
    <3>2. len(x) = lens[x]
      BY <1>1, <3>1, SentencesTyped
    <3> QED
      BY <3>2 DEF x
  <2>2. Is(f) <=> f = [s \in SUBSET S |-> one(s)]
    OBVIOUS
  <2>3. IsSum(f, lens, S) <=> f = [s \in SUBSET S |-> two(s)]
    BY DEF IsSum
  <2> HIDE DEF one, two
  <2> QED
    BY <2>1, <2>2, <2>3
<1> HIDE DEF Is
<1>6. (CHOOSE f : Is(f)) = (CHOOSE f : IsSum(f, lens, S))
  BY <1>5
<1>7. MapThenSumSet(len, S) = SumOf(lens, S)
  BY <1>4, <1>6 DEF SumOf
<1> QED
  BY <1>1, <1>3, <1>7 DEF Joined

LEMMA JoinedTyped ==
    ASSUME DocumentInv, NEW i \in Nat \ {0}, NEW j \in 0..Len(sentences)
    PROVE  Joined(i, j) \in Nat
<1>1. CASE j < i
  BY <1>1 DEF Joined
<1>2. CASE i <= j
  <2>1. Numbers(lens, i..j) /\ Joined(i, j) = SumOf(lens, i..j) + (j - i)
    BY <1>2, JoinedIs
  <2>2. \A x \in i..j : lens[x] >= 0
    BY SentencesTyped
  <2>3. SumOf(lens, {}) <= SumOf(lens, i..j)
    BY <2>1, <2>2, SumSubset
  <2>4. SumOf(lens, i..j) \in Int /\ SumOf(lens, i..j) >= 0
    BY <2>1, <2>3, SumEmpty, SumTyped
  <2> QED
    BY <1>2, <2>1, <2>4
<1> QED
  BY <1>1, <1>2

LEMMA JoinedNext ==
    ASSUME DocumentInv, NEW i \in Nat \ {0}, NEW j \in 1..Len(sentences), i <= j
    PROVE  Joined(i, j) = (IF i = j THEN 0 ELSE Joined(i, j - 1) + 1) + len(j)
<1>1. Numbers(lens, i..j) /\ Joined(i, j) = SumOf(lens, i..j) + (j - i)
  BY SentencesTyped, JoinedIs
<1>2. j \in i..j /\ (i..j) \ {j} = i..(j - 1)
  OBVIOUS
<1>3. SumOf(lens, i..j) = lens[j] + SumOf(lens, i..(j - 1))
  BY <1>1, <1>2, SumRemove
<1>4. lens[j] = len(j) /\ len(j) \in Nat
  BY SentencesTyped
<1>5. CASE i = j
  <2>1. i..(j - 1) = {}
    BY <1>5
  <2> QED
    BY <1>1, <1>3, <1>4, <1>5, <2>1, SumEmpty
<1>6. CASE i # j
  <2>1. j - 1 \in 0..Len(sentences) /\ i <= j - 1
    BY <1>6, SentencesTyped
  <2>2. Joined(i, j - 1) = SumOf(lens, i..(j - 1)) + (j - 1 - i) /\ Numbers(lens, i..(j - 1))
    BY <2>1, JoinedIs
  <2>3. SumOf(lens, i..(j - 1)) \in Int
    BY <2>2, SumTyped
  <2> QED
    BY <1>1, <1>3, <1>4, <1>6, <2>2, <2>3
<1> QED
  BY <1>5, <1>6

(* A part of a window is no longer than the window. *)
LEMMA JoinedMonotone ==
    ASSUME DocumentInv, NEW a \in Nat \ {0}, NEW b \in 0..Len(sentences),
           NEW i \in Nat, NEW j \in Nat, a <= i, j <= b
    PROVE  Joined(i, j) <= Joined(a, b)
<1>1. CASE j < i
  BY <1>1, JoinedTyped DEF Joined
<1>2. CASE i <= j
  <2>1. i \in Nat \ {0} /\ j \in 0..Len(sentences) /\ a <= b /\ i..j \subseteq a..b
    BY <1>2, SentencesTyped
  <2>2. Numbers(lens, a..b) /\ Joined(a, b) = SumOf(lens, a..b) + (b - a)
    BY <2>1, JoinedIs
  <2>3. Numbers(lens, i..j) /\ Joined(i, j) = SumOf(lens, i..j) + (j - i)
    BY <1>2, <2>1, JoinedIs
  <2>4. \A x \in a..b : lens[x] >= 0
    BY SentencesTyped
  <2>5. SumOf(lens, i..j) <= SumOf(lens, a..b)
    BY <2>1, <2>2, <2>4, SumSubset
  <2>6. SumOf(lens, i..j) \in Int /\ SumOf(lens, a..b) \in Int
    BY <2>2, <2>3, SumTyped
  <2> QED
    BY <2>2, <2>3, <2>5, <2>6
<1> QED
  BY <1>1, <1>2

-----------------------------------------------------------------------------
(* Windows *)

StartInv == DocumentInv /\ start \in 1..(Len(sentences) + 1)

LEMMA TailIs ==
    ASSUME StartInv, ~done
    PROVE  /\ TailFrom \in 1..start
           /\ TailFrom < start => Joined(TailFrom, start - 1) <= TailBudget
           /\ TailBudget \in Nat /\ TailBudget <= overlap_bytes
<1> DEFINE room == {i \in 1..(start - 1) : Joined(i, start - 1) <= TailBudget}
<1>1. start \in 1..Len(sentences) /\ Len(sentences) \in Nat /\ start \in Nat
  BY SentencesTyped DEF StartInv, done
<1>2. TailBudget \in Nat /\ TailBudget <= overlap_bytes
  BY <1>1, SentencesTyped DEF TailBudget, StartInv
<1>3. {start} \cup room \subseteq Nat /\ {start} \cup room # {}
  BY <1>1
<1>4. Min({start} \cup room) \in {start} \cup room
  BY <1>3, MinIn
<1>5. TailFrom \in {start} \cup room
  BY <1>4 DEF TailFrom
<1> HIDE DEF TailFrom
<1>6. start \notin room /\ \A i \in room : i \in 1..start /\ Joined(i, start - 1) <= TailBudget
  BY <1>1
<1> QED
  BY <1>1, <1>2, <1>5, <1>6

LEMMA FitIs ==
    ASSUME StartInv, ~done, NEW from \in 1..start
    PROVE  /\ LastFit(from) \in start..Len(sentences)
           /\ LastFit(from) # start => Joined(from, LastFit(from)) <= max_bytes
<1> DEFINE fits == {e \in start..Len(sentences) : Joined(from, e) <= max_bytes}
<1>1. start \in 1..Len(sentences) /\ Len(sentences) \in Nat
  BY SentencesTyped DEF StartInv, done
<1>2. /\ {start} \cup fits \subseteq Int /\ {start} \cup fits # {}
      /\ \A x \in {start} \cup fits : x <= Len(sentences)
  BY <1>1
<1>3. Max({start} \cup fits) \in {start} \cup fits
  BY <1>1, <1>2, MaxIn
<1> QED
  BY <1>1, <1>3 DEF LastFit

(* With the tail that was chosen, the next sentence fits. *)
LEMMA FirstFits ==
    ASSUME StartInv, ~done, ~oversized(start)
    PROVE  Joined(TailFrom, start) <= max_bytes
<1> DEFINE from == TailFrom
<1>1. start \in 1..Len(sentences) /\ Len(sentences) \in Nat
  BY SentencesTyped DEF StartInv, done
<1>2. /\ len(start) \in Nat /\ len(start) > 0 /\ len(start) <= max_bytes
      /\ max_bytes \in Nat /\ overlap_bytes \in Nat
  BY <1>1, SentencesTyped DEF StartInv, oversized
<1>3. /\ from \in 1..start /\ TailBudget \in Nat
      /\ from < start => Joined(from, start - 1) <= TailBudget
  BY TailIs
<1> SUFFICES Joined(from, start) <= max_bytes
  OBVIOUS
<1> HIDE DEF from
<1>4. from \in Nat \ {0} /\ start - 1 \in 0..Len(sentences) /\ from <= start
  BY <1>1, <1>3
<1>5. Joined(from, start) = (IF from = start THEN 0 ELSE Joined(from, start - 1) + 1) + len(start)
  BY <1>1, <1>4, JoinedNext DEF StartInv
<1>6. CASE from = start
  BY <1>2, <1>5, <1>6
<1>7. CASE from # start
  <2>1. Joined(from, start - 1) <= TailBudget /\ Joined(from, start - 1) \in Nat
    BY <1>1, <1>3, <1>4, <1>7, JoinedTyped DEF StartInv
  <2>2. len(from) <= Joined(from, start - 1) /\ len(from) > 0 /\ len(from) \in Nat
    <3>1. from \in 1..Len(sentences) /\ from \in 0..Len(sentences) /\ from <= start - 1
      BY <1>1, <1>3, <1>7
    <3>2. Joined(from, from) <= Joined(from, start - 1)
      BY <1>1, <1>4, <3>1, JoinedMonotone DEF StartInv
    <3>3. len(from) \in Nat /\ len(from) > 0
      BY <3>1, SentencesTyped DEF StartInv
    <3>4. Joined(from, from) = len(from)
      BY <1>4, <3>1, <3>3, JoinedNext DEF StartInv
    <3> QED
      BY <3>2, <3>3, <3>4
  <2>3. TailBudget > 0
    BY <1>3, <2>1, <2>2
  <2>4. TailBudget <= max_bytes - len(start) - 1
    BY <1>2, <2>3 DEF TailBudget
  <2>5. Joined(from, start) = Joined(from, start - 1) + 1 + len(start)
    BY <1>5, <1>7
  <2> QED
    BY <1>2, <1>3, <2>1, <2>4, <2>5
<1> QED
  BY <1>6, <1>7

LEMMA WindowFits ==
    ASSUME StartInv, ~done, ~oversized(start)
    PROVE  Joined(TailFrom, LastFit(TailFrom)) <= max_bytes
<1>1. TailFrom \in 1..start
  BY TailIs
<1> QED
  BY <1>1, FirstFits, FitIs

-----------------------------------------------------------------------------
(* Hard splits *)

LongSentence(s) == s.len \in Nat \ {0} /\ s.spaces \subseteq 1..(s.len - 2)

LEMMA ChunkEndIs ==
    ASSUME NEW s, LongSentence(s), NEW from \in 0..(s.len - 1)
    PROVE  ChunkEnd(s, from) \in (from + 1)..s.len /\ ChunkEnd(s, from) - from <= max_bytes
<1> DEFINE full == from + max_bytes
           white == {x \in s.spaces : from < x /\ x < full}
<1>1. max_bytes \in Nat \ {0} /\ s.len \in Nat
  BY SizeAssumption DEF LongSentence
<1>2. CASE full >= s.len
  <2>1. ChunkEnd(s, from) = s.len
    BY <1>2 DEF ChunkEnd
  <2> QED
    BY <1>1, <1>2, <2>1
<1>3. CASE ~(full >= s.len) /\ white = {}
  <2>1. ChunkEnd(s, from) = full
    BY <1>3 DEF ChunkEnd
  <2> QED
    BY <1>1, <1>3, <2>1
<1>4. CASE ~(full >= s.len) /\ white # {}
  <2>1. white \subseteq Int /\ \A x \in white : x <= s.len /\ from < x /\ x < full
    BY <1>1 DEF LongSentence
  <2>2. ChunkEnd(s, from) = Max(white)
    BY <1>4 DEF ChunkEnd
  <2>3. white # {} /\ s.len \in Int
    BY <1>1, <1>4
  <2> HIDE DEF white
  <2>4. Max(white) \in white
    BY <2>1, <2>3, MaxIn
  <2>5. PICK end \in white : ChunkEnd(s, from) = end
    BY <2>2, <2>4
  <2>6. end \in Int /\ from < end /\ end < full /\ end <= s.len
    BY <2>1, <2>5
  <2> QED
    BY <1>1, <2>5, <2>6
<1> QED
  BY <1>2, <1>3, <1>4

LEMMA SkipSpacesIs ==
    ASSUME NEW s, LongSentence(s), NEW at \in 0..s.len
    PROVE  /\ SkipSpaces(s, at) \in at..s.len
           /\ SkipSpaces(s, at) = s.len \/ SkipSpaces(s, at) \notin s.spaces
           /\ \A x \in at..(SkipSpaces(s, at) - 1) : x \in s.spaces
<1> DEFINE S == {s.len} \cup {x \in at..(s.len - 1) : x \notin s.spaces}
<1>1. s.len \in Nat
  BY DEF LongSentence
<1>2. S \subseteq Nat /\ S # {}
  BY <1>1
<1>3. Min(S) \in S /\ \A x \in S : Min(S) <= x
  BY <1>2, MinIn
<1>4. SkipSpaces(s, at) = Min(S)
  BY DEF SkipSpaces
<1> DEFINE m == Min(S)
<1>5. m \in at..s.len /\ (m = s.len \/ m \notin s.spaces)
  BY <1>1, <1>3
<1>6. \A x \in at..(m - 1) : x \in s.spaces
  <2> SUFFICES ASSUME NEW x \in at..(m - 1), x \notin s.spaces PROVE FALSE
    OBVIOUS
  <2>1. x \in at..(s.len - 1)
    BY <1>1, <1>5
  <2>2. x \in S
    BY <2>1
  <2>3. m <= x
    BY <1>3, <2>2
  <2> HIDE DEF m
  <2> QED
    BY <1>1, <1>5, <2>3
<1> QED
  BY <1>4, <1>5, <1>6

Trimmed(s, from, end) == Max({x \in from..(end - 1) : x \notin s.spaces})

LEMMA TrimmedIs ==
    ASSUME NEW s, NEW from \in Nat, from \notin s.spaces, NEW end \in Nat, from < end
    PROVE  /\ Trimmed(s, from, end) \in from..(end - 1)
           /\ \A x \in from..(end - 1) : x \notin s.spaces => x <= Trimmed(s, from, end)
<1> DEFINE S == {x \in from..(end - 1) : x \notin s.spaces}
<1>1. S \subseteq Int /\ from \in S /\ \A x \in S : x <= end - 1
  OBVIOUS
<1>2. Max(S) \in S /\ \A x \in S : x <= Max(S)
  BY <1>1, MaxIn
<1> HIDE DEF S
<1>3. Trimmed(s, from, end) = Max(S)
  BY DEF Trimmed, S
<1> QED
  BY <1>2, <1>3 DEF S
(* The chunks from a position on: none is longer than a window, and what   *)
(* is in none is white.                                                    *)
Chunks(s, from, q) ==
    /\ IsSeq(q)
    /\ \A i \in 1..Len(q) : /\ q[i] # <<>>
                            /\ q[i][1] \in Nat /\ q[i][2] \in Nat
                            /\ q[i][2] - q[i][1] + 1 <= max_bytes
    /\ \A x \in from..(s.len - 1) :
          x \in s.spaces \/ \E i \in 1..Len(q) : x \in q[i][1]..q[i][2]

ChunksFrom(s, f, from) ==
    IF from >= s.len THEN <<>>
    ELSE LET end == ChunkEnd(s, from)
         IN  <<<<from, Trimmed(s, from, end)>>>> \o f[SkipSpaces(s, end)]

LEMMA NextChunk ==
    ASSUME NEW s, LongSentence(s), NEW from \in 0..(s.len - 1)
    PROVE  /\ ChunkEnd(s, from) \in 0..s.len
           /\ SkipSpaces(s, ChunkEnd(s, from)) \in (from + 1)..s.len
<1>1. s.len \in Nat
  BY DEF LongSentence
<1>2. ChunkEnd(s, from) \in (from + 1)..s.len
  BY ChunkEndIs
<1>3. ChunkEnd(s, from) \in 0..s.len
  BY <1>1, <1>2
<1>4. SkipSpaces(s, ChunkEnd(s, from)) \in ChunkEnd(s, from)..s.len
  BY <1>3, SkipSpacesIs
<1> QED
  BY <1>1, <1>2, <1>3, <1>4

LEMMA ChunksExist ==
    ASSUME NEW s, LongSentence(s)
    PROVE  \E f : f = [from \in 0..s.len |-> ChunksFrom(s, f, from)]
<1> DEFINE N == s.len
           Good(f, k) == /\ f = [from \in (N - k)..N |-> f[from]]
                         /\ \A from \in (N - k)..N : f[from] = ChunksFrom(s, f, from)
           T == {k \in 0..N : \E f : Good(f, k)}
<1>1. N \in Nat
  BY DEF LongSentence
<1>2. 0 \in T
  <2> DEFINE f == [from \in (N - 0)..N |-> <<>>]
  <2>1. \A from \in (N - 0)..N : from >= N /\ f[from] = <<>>
    BY <1>1
  <2> HIDE DEF f
  <2>2. \A from \in (N - 0)..N : f[from] = ChunksFrom(s, f, from)
    BY <2>1 DEF ChunksFrom
  <2>3. f = [from \in (N - 0)..N |-> f[from]]
    BY DEF f
  <2> QED
    BY <1>1, <2>2, <2>3
<1>3. ASSUME NEW k \in 0..N, k \in T, k < N PROVE k + 1 \in T
  <2>1. PICK f : Good(f, k)
    BY <1>3
  <2> DEFINE g == [from \in (N - (k + 1))..N |-> IF from >= N - k THEN f[from] ELSE ChunksFrom(s, f, from)]
  <2>2. ASSUME NEW from \in (N - (k + 1))..N
        PROVE  g[from] = ChunksFrom(s, f, from)
    BY <1>1, <2>1
  <2>3. ASSUME NEW from \in (N - (k + 1))..N
        PROVE  ChunksFrom(s, f, from) = ChunksFrom(s, g, from)
    <3>1. CASE from >= N
      BY <3>1 DEF ChunksFrom
    <3>2. CASE from < N
      <4> DEFINE next == SkipSpaces(s, ChunkEnd(s, from))
      <4>1. from \in 0..(s.len - 1)
        BY <1>1, <1>3, <3>2
      <4>2. next \in (from + 1)..N
        BY <4>1, NextChunk
      <4>3. g[next] = f[next]
        <5> HIDE DEF next
        <5>1. next \in (N - (k + 1))..N /\ next >= N - k
          BY <1>1, <4>2
        <5> QED
          BY <5>1
      <4> HIDE DEF g
      <4> QED
        BY <4>3 DEF ChunksFrom
    <3> QED
      BY <1>1, <3>1, <3>2
  <2>4. g = [from \in (N - (k + 1))..N |-> g[from]]
    OBVIOUS
  <2> HIDE DEF g
  <2>5. Good(g, k + 1)
    BY <2>2, <2>3, <2>4
  <2>6. k + 1 \in 0..N
    BY <1>1, <1>3
  <2> HIDE DEF Good
  <2> QED
    BY <2>5, <2>6
<1>4. N \in T
  <2> HIDE DEF T
  <2>1. \A k \in 0..N : k \in T
    BY <1>1, <1>2, <1>3, InductionUpTo
  <2> QED
    BY <1>1, <2>1
<1>5. PICK f : Good(f, N)
  BY <1>4
<1>6. N - N = 0
  BY <1>1
<1>7. f = [from \in 0..N |-> f[from]] /\ \A from \in 0..N : f[from] = ChunksFrom(s, f, from)
  BY <1>5, <1>6
<1>8. f = [from \in 0..N |-> ChunksFrom(s, f, from)]
  BY <1>7
<1> QED
  BY <1>8

LEMMA Prepended ==
    ASSUME NEW q, IsSeq(q), NEW x
    PROVE  /\ IsSeq(<<x>> \o q) /\ Len(<<x>> \o q) = Len(q) + 1 /\ (<<x>> \o q)[1] = x
           /\ \A i \in 1..Len(q) : (<<x>> \o q)[i + 1] = q[i]
<1> DEFINE S == {q[i] : i \in 1..Len(q)} \cup {x}
<1>1. q \in Seq(S) /\ <<x>> \in Seq(S)
  <2>1. q \in Seq({q[i] : i \in 1..Len(q)})
    BY SeqOfIsSeq
  <2>2. <<x>> \in Seq({x})
    OBVIOUS
  <2> QED
    BY <2>1, <2>2
<1> HIDE DEF S
<1>2. <<x>> \o q \in Seq(S)
  BY <1>1
<1>3. /\ Len(<<x>> \o q) = Len(q) + 1 /\ (<<x>> \o q)[1] = x
      /\ \A i \in 1..Len(q) : (<<x>> \o q)[i + 1] = q[i]
  BY <1>1
<1> QED
  BY <1>2, <1>3, IsSeqOfSeq

LEMMA OneChunk ==
    ASSUME NEW s, LongSentence(s), NEW from \in 0..(s.len - 1), from \notin s.spaces,
           NEW q, Chunks(s, SkipSpaces(s, ChunkEnd(s, from)), q)
    PROVE  Chunks(s, from, <<<<from, Trimmed(s, from, ChunkEnd(s, from))>>>> \o q)
<1> DEFINE end == ChunkEnd(s, from)
           next == SkipSpaces(s, end)
           last == Trimmed(s, from, end)
           span == <<from, last>>
           all == <<span>> \o q
<1>1. end \in (from + 1)..s.len /\ end - from <= max_bytes /\ s.len \in Nat /\ max_bytes \in Nat
  BY ChunkEndIs, SizeAssumption DEF LongSentence
<1>2. /\ next \in (from + 1)..s.len
      /\ \A x \in end..(next - 1) : x \in s.spaces
  <2>1. end \in 0..s.len
    BY <1>1
  <2> HIDE DEF end
  <2>2. \A x \in end..(SkipSpaces(s, end) - 1) : x \in s.spaces
    BY <2>1, SkipSpacesIs
  <2> QED
    BY <2>2, NextChunk DEF end
<1>3. /\ last \in from..(end - 1)
      /\ \A x \in from..(end - 1) : x \notin s.spaces => x <= last
  <2>1. from \in Nat /\ end \in Nat /\ from < end
    BY <1>1
  <2> HIDE DEF end
  <2> QED
    BY <2>1, TrimmedIs
<1>4. /\ IsSeq(all) /\ Len(all) = Len(q) + 1 /\ all[1] = span
      /\ \A i \in 1..Len(q) : all[i + 1] = q[i]
  <2>1. IsSeq(q)
    BY DEF Chunks
  <2> HIDE DEF span
  <2> QED
    BY <2>1, Prepended
<1>5. span[1] = from /\ span[2] = last /\ span # <<>>
  OBVIOUS
<1>6. Len(q) \in Nat /\ Chunks(s, next, q)
  BY DEF Chunks, IsSeq
<1> HIDE DEF end, next, last, span, all
<1>7. \A i \in 1..Len(all) : i = 1 \/ (i - 1 \in 1..Len(q) /\ all[i] = q[i - 1])
  <2> SUFFICES ASSUME NEW i \in 1..Len(all), i # 1 PROVE i - 1 \in 1..Len(q) /\ all[i] = q[i - 1]
    OBVIOUS
  <2>1. i - 1 \in 1..Len(q) /\ (i - 1) + 1 = i
    BY <1>4, <1>6
  <2> QED
    BY <1>4, <2>1
<1>8. ASSUME NEW i \in 1..Len(all)
      PROVE  /\ all[i] # <<>> /\ all[i][1] \in Nat /\ all[i][2] \in Nat
             /\ all[i][2] - all[i][1] + 1 <= max_bytes
  <2>1. CASE i = 1
    BY <1>1, <1>3, <1>4, <1>5, <2>1
  <2>2. CASE i # 1
    BY <1>6, <1>7, <2>2 DEF Chunks
  <2> QED
    BY <2>1, <2>2
<1>9. ASSUME NEW x \in from..(s.len - 1), x \notin s.spaces
      PROVE  \E i \in 1..Len(all) : x \in all[i][1]..all[i][2]
  <2>1. CASE x < end
    <3>1. x \in from..last /\ 1 \in 1..Len(all)
      BY <1>1, <1>3, <1>4, <1>6, <1>9, <2>1
    <3> QED
      BY <1>4, <1>5, <3>1
  <2>2. CASE end <= x
    <3>1. x \in next..(s.len - 1)
      BY <1>1, <1>2, <1>9, <2>2
    <3>2. PICK i \in 1..Len(q) : x \in q[i][1]..q[i][2]
      BY <1>6, <1>9, <3>1 DEF Chunks
    <3>3. i + 1 \in 1..Len(all) /\ all[i + 1] = q[i]
      BY <1>4, <1>6
    <3> QED
      BY <3>2, <3>3
  <2> QED
    BY <1>1, <2>1, <2>2
<1>10. Chunks(s, from, all)
  BY <1>4, <1>8, <1>9 DEF Chunks
<1> QED
  BY <1>10 DEF end, last, span, all

LEMMA SplitIs ==
    ASSUME NEW s, LongSentence(s)
    PROVE  Chunks(s, 0, split_long_piece(s)) /\ split_long_piece(s) # <<>>
<1> DEFINE N == s.len
           Is(f) == f = [from \in 0..N |-> ChunksFrom(s, f, from)]
           chunks == CHOOSE f : Is(f)
<1>1. split_long_piece(s) = chunks[0]
  BY DEF split_long_piece, ChunksFrom, Trimmed
<1>2. \E f : Is(f)
  BY ChunksExist
<1>3. Is(chunks)
  BY <1>2
<1> HIDE DEF chunks
<1>4. N \in Nat /\ N > 0
  BY DEF LongSentence
<1> DEFINE Fine(from) == (from < N => from \notin s.spaces) => Chunks(s, from, chunks[from])
           T == {k \in 0..N : \A from \in (N - k)..N : Fine(from)}
<1>5. 0 \in T
  <2> SUFFICES ASSUME NEW from \in (N - 0)..N PROVE Chunks(s, from, chunks[from])
    BY <1>4
  <2>1. from \in 0..N /\ from >= N
    BY <1>4
  <2>2. chunks[from] = <<>>
    BY <1>3, <2>1 DEF ChunksFrom
  <2>3. IsSeq(<<>>) /\ Len(<<>>) = 0 /\ from..(s.len - 1) = {}
    BY <1>4, <2>1 DEF IsSeq
  <2> QED
    BY <2>2, <2>3 DEF Chunks
<1>6. ASSUME NEW k \in 0..N, k \in T, k < N PROVE k + 1 \in T
  <2> SUFFICES ASSUME NEW from \in (N - (k + 1))..N, from < N => from \notin s.spaces
               PROVE  Chunks(s, from, chunks[from])
    BY <1>4, <1>6
  <2>1. CASE from >= N - k
    <3>1. from \in (N - k)..N
      BY <1>4, <2>1
    <3> QED
      BY <1>6, <3>1
  <2>2. CASE ~(from >= N - k)
    <3> DEFINE end == ChunkEnd(s, from)
               next == SkipSpaces(s, end)
    <3>1. from \in 0..(s.len - 1) /\ from \in 0..N /\ ~(from >= N)
      BY <1>4, <1>6, <2>2
    <3>2. end \in 0..N /\ next \in (from + 1)..N
      BY <3>1, NextChunk
    <3>3. next = N \/ next \notin s.spaces
      <4> HIDE DEF end
      <4> QED
        BY <3>2, SkipSpacesIs
    <3>4. next \in (N - k)..N
      <4> HIDE DEF next
      <4> QED
        BY <1>4, <1>6, <3>1, <3>2
    <3>5. Chunks(s, next, chunks[next])
      <4> HIDE DEF next
      <4> QED
        BY <1>6, <3>3, <3>4
    <3>6. chunks[from] = <<<<from, Trimmed(s, from, end)>>>> \o chunks[next]
      BY <1>3, <3>1 DEF ChunksFrom
    <3>7. from \notin s.spaces
      BY <1>4, <1>6, <2>2
    <3> QED
      BY <3>1, <3>5, <3>6, <3>7, OneChunk
  <2> QED
    BY <2>1, <2>2
<1>7. 0 \notin s.spaces
  BY DEF LongSentence
<1>8. Chunks(s, 0, chunks[0])
  <2> HIDE DEF T
  <2>1. \A k \in 0..N : k \in T
    BY <1>4, <1>5, <1>6, InductionUpTo
  <2>2. N \in T /\ 0 \in (N - N)..N
    BY <1>4, <2>1
  <2> QED
    BY <1>7, <2>2 DEF T
<1>9. chunks[0] # <<>>
  <2>1. 0 \in 0..(s.len - 1)
    BY <1>4
  <2>2. \E i \in 1..Len(chunks[0]) : 0 \in chunks[0][i][1]..chunks[0][i][2]
    BY <1>7, <1>8, <2>1 DEF Chunks
  <2> QED
    BY <2>2
<1> QED
  BY <1>1, <1>8, <1>9
-----------------------------------------------------------------------------
(* What is placed *)

LensOf(d) == [i \in 1..Len(d) |-> d[i].len]
BytesOf(d, i, j) == IF j < i THEN 0 ELSE SumOf(LensOf(d), i..j) + (j - i)

Placed(r, k) == UNION {r[j].sentences : j \in 1..(k - 1)}
IsSplit(r, j, i) == r[j].span # <<>> /\ r[j].sentences = {i}

(* A window has a sentence, b, that is in no window before it; before b it *)
(* has at most those from a on, which the overlap allows.                  *)
Fresh(d, r, k) ==
    \E b \in r[k].sentences : \E a \in 1..b :
        /\ Placed(r, k) \subseteq 1..(b - 1)
        /\ \A i \in r[k].sentences : i < b => a <= i
        /\ BytesOf(d, a, b - 1) <= overlap_bytes

(* The sentences of d before next are placed in the passages r. *)
PlacedInv(d, next, r) ==
    /\ IsSeq(r)
    /\ \A k \in 1..Len(r) : r[k].bytes <= max_bytes /\ r[k].sentences \subseteq 1..(next - 1)
    /\ \A k \in 1..Len(r) : r[k].span = <<>> => Fresh(d, r, k)
    /\ \A i \in 1..Len(d) : (\E j \in 1..Len(r) : IsSplit(r, j, i)) =>
          \A x \in 0..(d[i].len - 1) :
              \/ x \in d[i].spaces
              \/ \E j \in 1..Len(r) : IsSplit(r, j, i) /\ x \in r[j].span[1]..r[j].span[2]
    /\ \A i \in 1..(next - 1) :
          \/ \E j \in 1..Len(r) : i \in r[j].sentences
          \/ i > 1 /\ d[i - 1].len > max_bytes

PassagesInv == StartInv /\ PlacedInv(sentences, start, result)

(* More passages behind the first n leave these as they were. *)
LEMMA FirstStay ==
    ASSUME NEW d, NEW r, IsSeq(r), NEW t, IsSeq(t), Len(r) <= Len(t),
           \A k \in 1..Len(r) : t[k] = r[k]
    PROVE  /\ \A k \in 1..(Len(r) + 1) : Placed(t, k) = Placed(r, k)
           /\ \A k \in 1..Len(r) : Fresh(d, r, k) => Fresh(d, t, k)
           /\ \A k \in 1..Len(r) : k \in 1..Len(t)
           /\ \A i, j : j \in 1..Len(r) => (IsSplit(t, j, i) <=> IsSplit(r, j, i))
<1>1. Len(r) \in Nat /\ Len(t) \in Nat
  BY DEF IsSeq
<1>2. ASSUME NEW k \in 1..(Len(r) + 1) PROVE Placed(t, k) = Placed(r, k)
  <2>1. \A j \in 1..(k - 1) : j \in 1..Len(r)
    BY <1>1
  <2>2. \A j \in 1..(k - 1) : t[j].sentences = r[j].sentences
    BY <2>1
  <2> QED
    BY <2>2 DEF Placed
<1>3. \A k \in 1..Len(r) : k \in 1..Len(t) /\ k \in 1..(Len(r) + 1)
  BY <1>1
<1>4. \A k \in 1..Len(r) : Fresh(d, r, k) => Fresh(d, t, k)
  BY <1>2, <1>3 DEF Fresh
<1>5. \A i, j : j \in 1..Len(r) => (IsSplit(t, j, i) <=> IsSplit(r, j, i))
  BY DEF IsSplit
<1> QED
  BY <1>2, <1>3, <1>4, <1>5

LEMMA WindowPlaced ==
    ASSUME NEW d, Len(d) \in Nat, NEW st \in 1..Len(d), NEW r, PlacedInv(d, st, r),
           NEW from \in 1..st, NEW last \in st..Len(d),
           NEW w, w.sentences = from..last, w.bytes <= max_bytes, w.span = <<>>,
           BytesOf(d, from, st - 1) <= overlap_bytes
    PROVE  PlacedInv(d, last + 1, Append(r, w))
<1> DEFINE t == Append(r, w)
           n == Len(r) + 1
<1>0. Len(r) \in Nat /\ IsSeq(r)
  BY DEF PlacedInv, IsSeq
<1>1. IsSeq(t) /\ Len(t) = n /\ t[n] = w /\ \A k \in 1..Len(r) : t[k] = r[k]
  BY <1>0, AppendSeq
<1> HIDE DEF t
<1>2. /\ \A k \in 1..n : Placed(t, k) = Placed(r, k)
      /\ \A k \in 1..Len(r) : Fresh(d, r, k) => Fresh(d, t, k)
      /\ \A k \in 1..Len(r) : k \in 1..Len(t)
      /\ \A i, j : j \in 1..Len(r) => (IsSplit(t, j, i) <=> IsSplit(r, j, i))
  <2>1. Len(r) <= Len(t)
    BY <1>0, <1>1
  <2> QED
    BY <1>0, <1>1, <2>1, FirstStay
<1>3. \A k \in 1..Len(t) : k \in 1..Len(r) \/ k = n
  BY <1>0, <1>1
<1>4. \A k \in 1..Len(t) : t[k].bytes <= max_bytes /\ t[k].sentences \subseteq 1..((last + 1) - 1)
  <2>1. 1..(st - 1) \subseteq 1..((last + 1) - 1) /\ from..last \subseteq 1..((last + 1) - 1)
    OBVIOUS
  <2> QED
    BY <1>1, <1>3, <2>1 DEF PlacedInv
<1>5. \A k \in 1..Len(t) : t[k].span = <<>> => Fresh(d, t, k)
  <2>1. Fresh(d, t, n)
    <3>1. st \in t[n].sentences /\ from \in 1..st
      BY <1>1
    <3>2. Placed(t, n) \subseteq 1..(st - 1)
      <4>1. \A j \in 1..(n - 1) : j \in 1..Len(r)
        BY <1>0
      <4>2. Placed(r, n) \subseteq 1..(st - 1)
        BY <4>1 DEF Placed, PlacedInv
      <4>3. n \in 1..n
        BY <1>0
      <4> QED
        BY <1>2, <4>2, <4>3
    <3>3. \A i \in t[n].sentences : from <= i
      BY <1>1
    <3> QED
      BY <3>1, <3>2, <3>3 DEF Fresh
  <2> QED
    BY <1>1, <1>2, <1>3, <2>1 DEF PlacedInv
<1>6. ~(\E i : IsSplit(t, n, i))
  BY <1>1 DEF IsSplit
<1>7. ASSUME NEW i \in 1..Len(d), \E j \in 1..Len(t) : IsSplit(t, j, i),
             NEW x \in 0..(d[i].len - 1), x \notin d[i].spaces
      PROVE  \E j \in 1..Len(t) : IsSplit(t, j, i) /\ x \in t[j].span[1]..t[j].span[2]
  <2>1. \E j \in 1..Len(r) : IsSplit(r, j, i)
    BY <1>2, <1>3, <1>6, <1>7
  <2>2. PICK j \in 1..Len(r) : IsSplit(r, j, i) /\ x \in r[j].span[1]..r[j].span[2]
    BY <1>7, <2>1 DEF PlacedInv
  <2> QED
    BY <1>1, <1>2, <2>2
<1>8. ASSUME NEW i \in 1..((last + 1) - 1)
      PROVE  (\E j \in 1..Len(t) : i \in t[j].sentences) \/ (i > 1 /\ d[i - 1].len > max_bytes)
  <2>1. CASE i < st
    <3>1. i \in 1..(st - 1)
      BY <2>1
    <3>2. (\E j \in 1..Len(r) : i \in r[j].sentences) \/ (i > 1 /\ d[i - 1].len > max_bytes)
      BY <3>1 DEF PlacedInv
    <3> QED
      BY <1>1, <1>2, <3>2
  <2>2. CASE st <= i
    <3>1. i \in t[n].sentences /\ n \in 1..Len(t)
      BY <1>0, <1>1, <2>2
    <3> QED
      BY <3>1
  <2> QED
    BY <2>1, <2>2
<1> HIDE DEF n
<1> QED
  BY <1>1, <1>4, <1>5, <1>7, <1>8 DEF PlacedInv, t

ChunkPassages(at, q) ==
    [i \in 1..Len(q) |-> [sentences |-> {at}, bytes |-> q[i][2] - q[i][1] + 1, span |-> q[i]]]

LEMMA ChunksPlaced ==
    ASSUME NEW d, Len(d) \in Nat, NEW st \in 1..Len(d), NEW r, PlacedInv(d, st, r),
           LongSentence(d[st]), d[st].len > max_bytes,
           NEW q, Chunks(d[st], 0, q), q # <<>>, NEW next \in {st + 1, st + 2}
    PROVE  PlacedInv(d, next, r \o ChunkPassages(st, q))
<1> DEFINE c == ChunkPassages(st, q)
           t == r \o c
           n == Len(r)
<1>0. Len(r) \in Nat /\ IsSeq(r) /\ IsSeq(q) /\ Len(q) \in Nat /\ Len(q) > 0
  <2>1. IsSeq(q) /\ Len(q) \in Nat /\ IsSeq(r) /\ Len(r) \in Nat
    BY DEF PlacedInv, IsSeq, Chunks
  <2>2. Len(q) # 0
    <3> SUFFICES ASSUME Len(q) = 0 PROVE q = <<>>
      OBVIOUS
    <3> QED
      BY <2>1, SeqOfIsSeq
  <2> QED
    BY <2>1, <2>2
<1>1. /\ IsSeq(c) /\ Len(c) = Len(q)
      /\ \A i \in 1..Len(q) : /\ c[i].sentences = {st} /\ c[i].span = q[i]
                              /\ c[i].bytes = q[i][2] - q[i][1] + 1
  BY <1>0 DEF ChunkPassages, IsSeq
<1> HIDE DEF c
<1>2. /\ IsSeq(t) /\ Len(t) = n + Len(q)
      /\ \A k \in 1..n : t[k] = r[k]
      /\ \A k \in 1..Len(q) : t[n + k] = c[k]
  BY <1>0, <1>1, ConcatSeq
<1> HIDE DEF t
<1>3. /\ \A k \in 1..(n + 1) : Placed(t, k) = Placed(r, k)
      /\ \A k \in 1..n : Fresh(d, r, k) => Fresh(d, t, k)
      /\ \A k \in 1..n : k \in 1..Len(t)
      /\ \A i, j : j \in 1..n => (IsSplit(t, j, i) <=> IsSplit(r, j, i))
  <2>1. Len(r) <= Len(t)
    BY <1>0, <1>2
  <2> QED
    BY <1>0, <1>2, <2>1, FirstStay
<1> HIDE DEF n
<1>4. n \in Nat /\ n = Len(r)
  BY <1>0 DEF n
<1>5. \A k \in 1..Len(t) : k \in 1..n \/ (k - n \in 1..Len(q) /\ t[k] = c[k - n])
  <2> SUFFICES ASSUME NEW k \in 1..Len(t), k \notin 1..n
               PROVE  k - n \in 1..Len(q) /\ t[k] = c[k - n]
    OBVIOUS
  <2>1. k - n \in 1..Len(q) /\ n + (k - n) = k
    BY <1>0, <1>2, <1>4
  <2> QED
    BY <1>2, <2>1
<1>6. ASSUME NEW k \in 1..Len(t), k \notin 1..n
      PROVE  /\ t[k].bytes <= max_bytes /\ t[k].sentences = {st} /\ t[k].span # <<>>
             /\ t[k].span = q[k - n]
  BY <1>1, <1>5, <1>6 DEF Chunks
<1>7. \A k \in 1..Len(t) : t[k].bytes <= max_bytes /\ t[k].sentences \subseteq 1..(next - 1)
  <2>1. 1..(st - 1) \subseteq 1..(next - 1) /\ {st} \subseteq 1..(next - 1)
    OBVIOUS
  <2>2. \A k \in 1..n : t[k].bytes <= max_bytes /\ t[k].sentences \subseteq 1..(st - 1)
    BY <1>2, <1>4 DEF PlacedInv
  <2> QED
    BY <1>6, <2>1, <2>2
<1>8. \A k \in 1..Len(t) : t[k].span = <<>> => Fresh(d, t, k)
  <2>1. \A k \in 1..n : r[k].span = <<>> => Fresh(d, r, k)
    BY <1>4 DEF PlacedInv
  <2> QED
    BY <1>2, <1>3, <1>6, <2>1
<1>9. ASSUME NEW i \in 1..Len(d), \E j \in 1..Len(t) : IsSplit(t, j, i),
             NEW x \in 0..(d[i].len - 1), x \notin d[i].spaces
      PROVE  \E j \in 1..Len(t) : IsSplit(t, j, i) /\ x \in t[j].span[1]..t[j].span[2]
  <2>1. CASE i = st
    <3>1. PICK k \in 1..Len(q) : x \in q[k][1]..q[k][2]
      BY <1>9, <2>1 DEF Chunks
    <3>2. n + k \in 1..Len(t) /\ t[n + k] = c[k] /\ c[k].span = q[k] /\ c[k].sentences = {st}
      BY <1>0, <1>1, <1>2, <1>4
    <3>3. q[k] # <<>>
      BY DEF Chunks
    <3> QED
      BY <2>1, <3>1, <3>2, <3>3 DEF IsSplit
  <2>2. CASE i # st
    <3>1. PICK j \in 1..Len(t) : IsSplit(t, j, i)
      BY <1>9
    <3>2. j \in 1..n
      <4> SUFFICES ASSUME j \notin 1..n PROVE FALSE
        OBVIOUS
      <4>1. t[j].sentences = {st} /\ t[j].sentences = {i}
        BY <1>6, <3>1 DEF IsSplit
      <4> QED
        BY <2>2, <4>1
    <3>3. j \in 1..Len(r) /\ IsSplit(r, j, i)
      BY <1>3, <1>4, <3>1, <3>2
    <3>4. PICK m \in 1..Len(r) : IsSplit(r, m, i) /\ x \in r[m].span[1]..r[m].span[2]
      BY <1>9, <3>3 DEF PlacedInv
    <3> QED
      BY <1>2, <1>3, <1>4, <3>4
  <2> QED
    BY <2>1, <2>2
<1>10. ASSUME NEW i \in 1..(next - 1)
       PROVE  (\E j \in 1..Len(t) : i \in t[j].sentences) \/ (i > 1 /\ d[i - 1].len > max_bytes)
  <2>1. CASE i < st
    <3>1. i \in 1..(st - 1)
      BY <2>1
    <3>2. (\E j \in 1..Len(r) : i \in r[j].sentences) \/ (i > 1 /\ d[i - 1].len > max_bytes)
      BY <3>1 DEF PlacedInv
    <3> QED
      BY <1>2, <1>3, <1>4, <3>2
  <2>2. CASE i = st
    <3>1. n + 1 \in 1..Len(t) /\ n + 1 \notin 1..n
      BY <1>0, <1>2, <1>4
    <3> QED
      BY <1>6, <2>2, <3>1
  <2>3. CASE i = st + 1
    <3>1. i > 1 /\ i - 1 = st
      BY <2>3
    <3> QED
      BY <3>1
  <2> QED
    BY <2>1, <2>2, <2>3
<1> QED
  BY <1>2, <1>7, <1>8, <1>9, <1>10 DEF PlacedInv, t, c
-----------------------------------------------------------------------------
(* Steps *)

LEMMA JoinedBytes ==
    ASSUME DocumentInv, NEW i \in Nat \ {0}, NEW j \in 0..Len(sentences)
    PROVE  Joined(i, j) = BytesOf(sentences, i, j)
<1>1. CASE j < i
  BY <1>1 DEF Joined, BytesOf
<1>2. CASE ~(j < i)
  <2>1. i <= j
    BY <1>2, SentencesTyped
  <2>2. Joined(i, j) = SumOf(lens, i..j) + (j - i)
    BY <2>1, JoinedIs
  <2>3. lens = LensOf(sentences)
    BY DEF lens, LensOf, len
  <2> QED
    BY <1>2, <2>2, <2>3 DEF BytesOf
<1> QED
  BY <1>1, <1>2

LEMMA WindowStep == ASSUME PassagesInv, PushWindow PROVE PassagesInv'
<1> DEFINE from == TailFrom
           last == LastFit(from)
           w == [sentences |-> from..last, bytes |-> Joined(from, last), span |-> <<>>]
<1>1. ~done /\ ~oversized(start) /\ result' = Append(result, w) /\ start' = last + 1
      /\ sentences' = sentences
  BY DEF PushWindow
<1>2. start \in 1..Len(sentences) /\ Len(sentences) \in Nat /\ StartInv
      /\ PlacedInv(sentences, start, result)
  BY <1>1, SentencesTyped DEF PassagesInv, StartInv, done
<1>3. from \in 1..start /\ (from < start => Joined(from, start - 1) <= overlap_bytes)
  <2>1. /\ from \in 1..start /\ TailBudget \in Nat /\ TailBudget <= overlap_bytes
        /\ from < start => Joined(from, start - 1) <= TailBudget
    BY <1>1, <1>2, TailIs
  <2> HIDE DEF from
  <2>2. from \in Nat \ {0} /\ start - 1 \in 0..Len(sentences) /\ DocumentInv
    BY <1>2, <2>1 DEF StartInv
  <2>3. Joined(from, start - 1) \in Nat
    BY <2>2, JoinedTyped
  <2> QED
    BY <2>1, <2>3, SizeAssumption
<1>4. last \in start..Len(sentences) /\ Joined(from, last) <= max_bytes
  BY <1>1, <1>2, <1>3, FitIs, WindowFits
<1> HIDE DEF from, last
<1>5. BytesOf(sentences, from, start - 1) <= overlap_bytes
  <2>1. CASE from < start
    BY <1>2, <1>3, <2>1, JoinedBytes DEF StartInv
  <2>2. CASE from = start
    BY <1>2, <2>2, SizeAssumption DEF BytesOf
  <2> QED
    BY <1>2, <1>3, <2>1, <2>2
<1>6. w.sentences = from..last /\ w.bytes <= max_bytes /\ w.span = <<>>
  BY <1>4
<1> HIDE DEF w
<1>7. PlacedInv(sentences, last + 1, Append(result, w))
  BY <1>2, <1>3, <1>4, <1>5, <1>6, WindowPlaced
<1>8. last + 1 \in 1..(Len(sentences) + 1)
  BY <1>2, <1>4
<1> QED
  BY <1>1, <1>2, <1>7, <1>8 DEF PassagesInv, StartInv, DocumentInv

LEMMA SplitStep == ASSUME PassagesInv, SplitSentence PROVE PassagesInv'
<1> DEFINE s == sentences[start]
           spans == split_long_piece(s)
<1>1. ~done /\ oversized(start) /\ result' = result \o ChunkPassages(start, spans)
      /\ start' = AfterSplit /\ sentences' = sentences
  BY DEF SplitSentence, ChunkPassages
<1>2. start \in 1..Len(sentences) /\ Len(sentences) \in Nat /\ StartInv
      /\ PlacedInv(sentences, start, result)
  BY <1>1, SentencesTyped DEF PassagesInv, StartInv, done
<1>3. LongSentence(s)
  BY <1>2, DocumentAssumption DEF LongSentence, StartInv, DocumentInv
<1>4. s.len > max_bytes
  BY <1>1 DEF oversized, len
<1> HIDE DEF s
<1>5. Chunks(s, 0, spans) /\ spans # <<>>
  BY <1>3, SplitIs
<1> HIDE DEF spans
<1>6. AfterSplit \in {start + 1, start + 2} /\ AfterSplit \in 1..(Len(sentences) + 1)
  BY <1>2 DEF AfterSplit
<1>7. PlacedInv(sentences, AfterSplit, result \o ChunkPassages(start, spans))
  BY <1>2, <1>3, <1>4, <1>5, <1>6, ChunksPlaced DEF s
<1> QED
  BY <1>1, <1>2, <1>6, <1>7 DEF PassagesInv, StartInv, DocumentInv

LEMMA SpecPassages == Spec => []PassagesInv
<1>1. Init => PassagesInv
  <2> SUFFICES ASSUME Init PROVE PassagesInv
    OBVIOUS
  <2>1. DocumentInv /\ start = 1 /\ result = <<>>
    BY DEF Init, DocumentInv
  <2>2. StartInv
    BY <2>1, SentencesTyped DEF StartInv
  <2>3. IsSeq(<<>>) /\ Len(<<>>) = 0
    BY DEF IsSeq
  <2> QED
    BY <2>1, <2>2, <2>3 DEF PassagesInv, PlacedInv
<1>2. PassagesInv /\ [Next]_vars => PassagesInv'
  <2> SUFFICES ASSUME PassagesInv, [Next]_vars PROVE PassagesInv'
    OBVIOUS
  <2>1. CASE PushWindow
    BY <2>1, WindowStep
  <2>2. CASE SplitSentence
    BY <2>2, SplitStep
  <2>3. CASE UNCHANGED vars
    BY <2>3 DEF vars, PassagesInv, StartInv, DocumentInv
  <2> QED
    BY <2>1, <2>2, <2>3 DEF Next, Stop
<1> QED
  BY <1>1, <1>2, PTL DEF Spec

-----------------------------------------------------------------------------
(* Theorems *)

(* No window and no chunk of any document exceeds the passage budget,      *)
(* although a window starts with a tail that was chosen before what        *)
(* follows was known (STAGE-8; passages_with_overlap, split_long_piece).   *)
THEOREM SpecWindowsBounded == Spec => []WindowsBounded
<1>1. PassagesInv => WindowsBounded
  BY DEF PassagesInv, PlacedInv, WindowsBounded
<1> QED
  BY <1>1, SpecPassages, PTL

(* What a window repeats of those before it is within the overlap, and it  *)
(* has a sentence that none before it has.                                 *)
THEOREM SpecOverlapBounded == Spec => []OverlapBounded
<1>1. PassagesInv => OverlapBounded
  <2> SUFFICES ASSUME PassagesInv, NEW i \in 1..Len(result), result[i].span = <<>>
               PROVE  LET again == result[i].sentences \cap Earlier(i) IN
                      /\ again = {} \/ Joined(Min(again), Max(again)) <= overlap_bytes
                      /\ result[i].sentences # again
    BY DEF OverlapBounded
  <2> DEFINE again == result[i].sentences \cap Earlier(i)
  <2>1. /\ StartInv /\ PlacedInv(sentences, start, result)
        /\ Len(sentences) \in Nat /\ start \in 1..(Len(sentences) + 1)
    BY SentencesTyped DEF PassagesInv, StartInv
  <2>2. PICK b \in result[i].sentences : \E a \in 1..b :
            /\ Placed(result, i) \subseteq 1..(b - 1)
            /\ \A x \in result[i].sentences : x < b => a <= x
            /\ BytesOf(sentences, a, b - 1) <= overlap_bytes
    BY <2>1 DEF PlacedInv, Fresh
  <2>3. PICK a \in 1..b :
            /\ Placed(result, i) \subseteq 1..(b - 1)
            /\ \A x \in result[i].sentences : x < b => a <= x
            /\ BytesOf(sentences, a, b - 1) <= overlap_bytes
    BY <2>2
  <2>4. b \in 1..Len(sentences)
    BY <2>1, <2>2 DEF PlacedInv
  <2>5. Earlier(i) = Placed(result, i)
    BY DEF Earlier, Placed
  <2>6. \A x \in again : x \in Nat /\ a <= x /\ x <= b - 1
    BY <2>3, <2>4, <2>5
  <2>7. b \notin again
    BY <2>4, <2>6
  <2>8. ASSUME again # {} PROVE Joined(Min(again), Max(again)) <= overlap_bytes
    <3>1. again \subseteq Nat /\ again \subseteq Int /\ b - 1 \in Int
      BY <2>4, <2>6
    <3> HIDE DEF again
    <3>2. Min(again) \in again /\ Max(again) \in again
      BY <2>6, <2>8, <3>1, MinIn, MaxIn
    <3>3. Min(again) \in Nat /\ Max(again) \in Nat /\ a <= Min(again) /\ Max(again) <= b - 1
      BY <2>6, <3>2
    <3>4. a \in Nat \ {0} /\ b - 1 \in 0..Len(sentences) /\ DocumentInv
      BY <2>1, <2>4 DEF StartInv
    <3>5. Joined(Min(again), Max(again)) <= Joined(a, b - 1)
      BY <3>3, <3>4, JoinedMonotone
    <3>6. Joined(a, b - 1) = BytesOf(sentences, a, b - 1)
      BY <3>4, JoinedBytes
    <3>7. Joined(Min(again), Max(again)) \in Nat /\ Joined(a, b - 1) \in Nat
      <4>1. Min(again) \in Nat \ {0} /\ Max(again) \in 0..Len(sentences)
        BY <3>3, <3>4
      <4> QED
        BY <3>4, <4>1, JoinedTyped
    <3> QED
      BY <2>3, <3>5, <3>6, <3>7, SizeAssumption
  <2>9. result[i].sentences # again
    BY <2>2, <2>7
  <2> QED
    BY <2>8, <2>9
<1> QED
  BY <1>1, SpecPassages, PTL

(* The chunks of a sentence, of any length and with whitespace anywhere,   *)
(* leave out nothing but whitespace.                                       *)
THEOREM SpecSplitsKeepBytes == Spec => []SplitsKeepBytes
<1>1. PassagesInv => SplitsKeepBytes
  <2> SUFFICES ASSUME PassagesInv, NEW i \in 1..Len(sentences)
               PROVE  LET spans == {result[k].span : k \in {j \in 1..Len(result) :
                                      result[j].span # <<>> /\ result[j].sentences = {i}}}
                      IN  spans # {} =>
                            0..(len(i) - 1) \ sentences[i].spaces
                              \subseteq UNION {span[1]..span[2] : span \in spans}
    BY DEF SplitsKeepBytes
  <2> DEFINE spans == {result[k].span : k \in {j \in 1..Len(result) :
                                      result[j].span # <<>> /\ result[j].sentences = {i}}}
  <2>1. PlacedInv(sentences, start, result)
    BY DEF PassagesInv
  <2>2. ASSUME spans # {}, NEW x \in 0..(len(i) - 1), x \notin sentences[i].spaces
        PROVE  x \in UNION {span[1]..span[2] : span \in spans}
    <3>1. \E j \in 1..Len(result) : IsSplit(result, j, i)
      BY <2>2 DEF IsSplit
    <3>2. PICK j \in 1..Len(result) :
              IsSplit(result, j, i) /\ x \in result[j].span[1]..result[j].span[2]
      BY <2>1, <2>2, <3>1 DEF PlacedInv, len
    <3>3. result[j].span \in spans
      BY <3>2 DEF IsSplit
    <3> QED
      BY <3>2, <3>3
  <2> QED
    BY <2>2
<1> QED
  BY <1>1, SpecPassages, PTL

(* When all is done, each sentence is in a passage, except one that        *)
(* follows a sentence which was split.                                     *)
THEOREM SpecSentencesKept == Spec => []SentencesKept
<1>1. PassagesInv => SentencesKept
  <2> SUFFICES ASSUME PassagesInv, done, NEW i \in 1..Len(sentences), i \notin Kept
               PROVE  i > 1 /\ oversized(i - 1)
    BY DEF SentencesKept
  <2>1. /\ PlacedInv(sentences, start, result) /\ Len(sentences) \in Nat
        /\ start \in 1..(Len(sentences) + 1)
    BY SentencesTyped DEF PassagesInv, StartInv
  <2>2. i \in 1..(start - 1)
    BY <2>1 DEF done
  <2>3. (\E j \in 1..Len(result) : i \in result[j].sentences) \/ (i > 1 /\ sentences[i - 1].len > max_bytes)
    BY <2>1, <2>2 DEF PlacedInv
  <2>4. ~(\E j \in 1..Len(result) : i \in result[j].sentences)
    <3>1. Len(result) \in Nat /\ (Len(result) + 1) - 1 = Len(result)
      BY <2>1 DEF PlacedInv, IsSeq
    <3> QED
      BY <3>1 DEF Kept, Earlier
  <2> QED
    BY <2>3, <2>4 DEF oversized, len
<1> QED
  BY <1>1, SpecPassages, PTL
=============================================================================
