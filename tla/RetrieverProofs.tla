-------------------------- MODULE RetrieverProofs --------------------------
(***************************************************************************)
(* Proofs about Retriever, for any processes, atoms and documents: as long *)
(* as a commit that a service has seen is not taken back, an index is used *)
(* only for what it was built from, and the feedback loop counts each      *)
(* acknowledged reinforcement once.                                        *)
(***************************************************************************)
EXTENDS RetrieverInvariant

-----------------------------------------------------------------------------
(* Commits and what is built from them *)

LEMMA BuiltSame ==
    ASSUME NEW s, NEW t, Begins(s, t), Len(s) \in Nat, NEW n \in 0..Len(s)
    PROVE  /\ BondsTo(s, n) = BondsTo(t, n)
           /\ SequenceTo(s, n) = SequenceTo(t, n)
           /\ Built(s, n) = Built(t, n)
<1>1. \A i \in 1..n : s[i] = t[i]
  BY DEF Begins
<1>2. {s[i].bonds : i \in 1..n} = {t[i].bonds : i \in 1..n}
  BY <1>1
<1>3. SequenceTo(s, n) = SequenceTo(t, n)
  BY <1>1 DEF SequenceTo
<1> QED
  BY <1>2, <1>3 DEF BondsTo, Built

LEMMA BuiltFromMore ==
    ASSUME NEW s, NEW t, Begins(s, t), Len(s) \in Nat, Len(t) \in Nat,
           NEW index, BuiltFrom(index, s)
    PROVE  BuiltFrom(index, t)
<1>1. PICK n \in 0..Len(s) : index = Built(s, n)
  BY DEF BuiltFrom
<1>2. n \in 0..Len(t)
  BY DEF Begins
<1>3. index = Built(t, n)
  BY <1>1, BuiltSame
<1> QED
  BY <1>2, <1>3 DEF BuiltFrom

LEMMA BeginsEmpty == ASSUME NEW c, Len(c) \in Nat PROVE Begins(<<>>, c)
BY DEF Begins

LEMMA BeginsSelf == ASSUME NEW c, Len(c) \in Nat PROVE Begins(c, c)
BY DEF Begins

LEMMA BeginsFurther ==
    ASSUME NEW r, NEW s, NEW t, Begins(r, s), Begins(s, t),
           Len(r) \in Nat, Len(s) \in Nat, Len(t) \in Nat
    PROVE  Begins(r, t)
BY DEF Begins

LEMMA DefaultBuilt == ASSUME NEW c, Len(c) \in Nat PROVE BuiltFrom(DefaultIndex, c)
<1>1. BondsTo(c, 0) = {} /\ SequenceTo(c, 0) = 0
  BY DEF BondsTo, SequenceTo
<1>2. DefaultIndex = Built(c, 0)
  BY <1>1 DEF DefaultIndex, Built
<1> QED
  BY <1>2 DEF BuiltFrom

LEMMA NextSequence ==
    ASSUME NEW c, IsSeq(c)
    PROVE  next_sequence(c) = SequenceTo(c, Len(c)) /\ bonds_of(c) = BondsTo(c, Len(c))
<1>1. c = <<>> <=> Len(c) = 0
  BY DEF IsSeq
<1> QED
  BY <1>1 DEF next_sequence, SequenceTo, bonds_of, BondsTo

LEMMA SequenceGrows ==
    ASSUME NEW c, CommitsInv(c), NEW m \in 0..Len(c), NEW n \in 0..Len(c)
    PROVE  /\ SequenceTo(c, n) \in Nat
           /\ m < n => SequenceTo(c, m) < SequenceTo(c, n)
<1>1. Len(c) \in Nat
  BY DEF CommitsInv, IsSeq
<1> QED
  BY <1>1 DEF CommitsInv, SequenceTo

LEMMA SequenceTells ==
    ASSUME NEW c, CommitsInv(c), NEW m \in 0..Len(c), NEW n \in 0..Len(c),
           SequenceTo(c, m) = SequenceTo(c, n)
    PROVE  m = n
<1>1. Len(c) \in Nat
  BY DEF CommitsInv, IsSeq
<1>2. SequenceTo(c, m) \in Nat /\ SequenceTo(c, n) \in Nat
  BY SequenceGrows
<1>3. ~(m < n) /\ ~(n < m)
  BY <1>2, SequenceGrows
<1> QED
  BY <1>1, <1>3

LEMMA CommitsPrefix ==
    ASSUME NEW c, CommitsInv(c), NEW n \in 0..Len(c)
    PROVE  /\ CommitsInv(SubSeq(c, 1, n)) /\ Len(SubSeq(c, 1, n)) = n
           /\ Begins(SubSeq(c, 1, n), c)
<1> DEFINE s == SubSeq(c, 1, n)
<1>1. IsSeq(c) /\ Len(c) \in Nat
  BY DEF CommitsInv, IsSeq
<1>2. IsSeq(s) /\ Len(s) = n /\ \A i \in 1..n : s[i] = c[i]
  BY <1>1, PrefixSeq
<1> HIDE DEF s
<1>3. Begins(s, c)
  BY <1>1, <1>2 DEF Begins
<1>4. \A k \in 0..Len(s) : NoGaps(BondsTo(s, k))
  <2> SUFFICES ASSUME NEW k \in 0..Len(s) PROVE NoGaps(BondsTo(s, k))
    OBVIOUS
  <2>1. BondsTo(s, k) = BondsTo(c, k)
    BY <1>2, <1>3, BuiltSame
  <2>2. k \in 0..Len(c)
    BY <1>1, <1>2
  <2> QED
    BY <2>1, <2>2 DEF CommitsInv
<1>5. CommitsInv(s)
  BY <1>1, <1>2, <1>4 DEF CommitsInv
<1> QED
  BY <1>2, <1>3, <1>5 DEF s

LEMMA NoCommits == CommitsInv(<<>>)
<1>1. IsSeq(<<>>) /\ Len(<<>>) = 0
  BY DEF IsSeq
<1>2. BondsTo(<<>>, 0) = {}
  BY DEF BondsTo
<1> QED
  BY <1>1, <1>2 DEF CommitsInv, NoGaps

LEMMA CommitsAppend ==
    ASSUME NEW c, CommitsInv(c), NEW commit,
           commit.next_sequence \in Nat, commit.next_sequence > next_sequence(c),
           NoGaps(bonds_of(c) \cup commit.bonds)
    PROVE  /\ CommitsInv(Append(c, commit)) /\ Len(Append(c, commit)) = Len(c) + 1
           /\ Begins(c, Append(c, commit))
           /\ BondsTo(Append(c, commit), Len(c) + 1) = bonds_of(c) \cup commit.bonds
<1> DEFINE e == Append(c, commit)
           n == Len(c)
<1>1. IsSeq(c) /\ n \in Nat
  BY DEF CommitsInv, IsSeq
<1>2. IsSeq(e) /\ Len(e) = n + 1 /\ e[n + 1] = commit /\ \A i \in 1..n : e[i] = c[i]
  BY <1>1, AppendSeq
<1> HIDE DEF e
<1>3. Begins(c, e)
  BY <1>1, <1>2 DEF Begins
<1>4. \A k \in 0..n : BondsTo(e, k) = BondsTo(c, k)
  BY <1>1, <1>3, BuiltSame
<1>5. BondsTo(e, n + 1) = BondsTo(e, n) \cup commit.bonds
  <2> HIDE DEF n
  <2>1. \A i \in 1..(n + 1) : i \in 1..n \/ i = n + 1
    BY <1>1
  <2>2. \A i \in 1..n : i \in 1..(n + 1)
    BY <1>1
  <2>3. n + 1 \in 1..(n + 1)
    BY <1>1
  <2> QED
    BY <1>2, <2>1, <2>2, <2>3 DEF BondsTo
<1>6. bonds_of(c) = BondsTo(c, n) /\ next_sequence(c) = SequenceTo(c, n)
  BY <1>1, NextSequence
<1>7. BondsTo(e, n + 1) = bonds_of(c) \cup commit.bonds
  BY <1>1, <1>4, <1>5, <1>6
<1>8. \A k \in 0..(n + 1) : NoGaps(BondsTo(e, k))
  <2>1. \A k \in 0..n : NoGaps(BondsTo(e, k))
    BY <1>4 DEF CommitsInv
  <2>2. NoGaps(BondsTo(e, n + 1))
    BY <1>7
  <2> HIDE DEF n
  <2> QED
    BY <1>1, <2>1, <2>2
<1>9. \A i \in 1..n : c[i].next_sequence \in Nat \ {0} /\ c[i].next_sequence < commit.next_sequence
  <2> SUFFICES ASSUME NEW i \in 1..n
               PROVE  c[i].next_sequence \in Nat \ {0} /\ c[i].next_sequence < commit.next_sequence
    OBVIOUS
  <2>1. c[i].next_sequence \in Nat \ {0} /\ c[n].next_sequence \in Nat \ {0}
    BY <1>1 DEF CommitsInv
  <2>2. i < n => c[i].next_sequence < c[n].next_sequence
    BY <1>1 DEF CommitsInv
  <2>3. c[n].next_sequence < commit.next_sequence
    BY <1>1, <1>6 DEF SequenceTo
  <2> HIDE DEF n
  <2>4. i < n \/ i = n
    BY <1>1
  <2> QED
    BY <2>1, <2>2, <2>3, <2>4
<1>10. commit.next_sequence # 0
  <2>1. next_sequence(c) \in Nat
    BY <1>1, <1>6, SequenceGrows
  <2> QED
    BY <2>1
<1>11. \A i, j \in 1..n : i < j => c[i].next_sequence < c[j].next_sequence
  BY DEF CommitsInv
<1>12. CommitsInv(e)
  <2> HIDE DEF n
  <2>1. \A i \in 1..(n + 1) : i \in 1..n \/ i = n + 1
    BY <1>1
  <2>2. \A i \in 1..(n + 1) : e[i].next_sequence \in Nat \ {0}
    BY <1>2, <1>9, <1>10, <2>1
  <2>3. \A i, j \in 1..(n + 1) : i < j => e[i].next_sequence < e[j].next_sequence
    <3> SUFFICES ASSUME NEW i \in 1..(n + 1), NEW j \in 1..(n + 1), i < j
                 PROVE  e[i].next_sequence < e[j].next_sequence
      OBVIOUS
    <3>1. i \in 1..n
      BY <1>1
    <3>2. CASE j = n + 1
      BY <1>2, <1>9, <3>1, <3>2
    <3>3. CASE j \in 1..n
      BY <1>2, <1>11, <3>1, <3>3
    <3> QED
      BY <2>1, <3>2, <3>3
  <2> QED
    BY <1>2, <1>8, <2>2, <2>3 DEF CommitsInv
<1> QED
  BY <1>2, <1>3, <1>7, <1>12 DEF e

-----------------------------------------------------------------------------
(* The numbers of the reinforcements *)

LEMMA NoGapsAll ==
    ASSUME NEW bonds, NoGaps(bonds), NEW passage, NEW polarity \in Polarity
    PROVE  LET count == feedback_count(bonds, passage, polarity)
           IN  count \in Nat /\ parse_feedback(bonds, passage, polarity) = 1..count
<1>1. CASE parse_feedback(bonds, passage, polarity) = {}
  <2>1. 1..0 = {}
    OBVIOUS
  <2>2. feedback_count(bonds, passage, polarity) = 0
    BY <1>1, <2>1, MaxUpTo DEF feedback_count
  <2> QED
    BY <1>1, <2>1, <2>2
<1>2. CASE \E bond \in bonds : bond[1] = passage /\ bond[2][1] = polarity
  BY <1>2 DEF NoGaps
<1> QED
  BY <1>1, <1>2 DEF parse_feedback

LEMMA NoGapsOther ==
    ASSUME NEW bonds, NoGaps(bonds), NEW others, \A bond \in others : bond[2][1] \notin Polarity
    PROVE  NoGaps(bonds \cup others)
<1>1. \A passage : \A polarity \in Polarity :
         parse_feedback(bonds \cup others, passage, polarity) = parse_feedback(bonds, passage, polarity)
  BY DEF parse_feedback
<1>2. \A passage : \A polarity \in Polarity :
         feedback_count(bonds \cup others, passage, polarity) = feedback_count(bonds, passage, polarity)
  BY <1>1 DEF feedback_count
<1> QED
  BY <1>1, <1>2, NoGapsAll DEF NoGaps

LEMMA NoGapsNext ==
    ASSUME NEW bonds, NoGaps(bonds), NEW passage, NEW polarity \in Polarity,
           NEW count, count = feedback_count(bonds, passage, polarity) + 1,
           NEW new, new \subseteq {<<passage, <<polarity, count>>, FEEDBACK_MARKER>>}
    PROVE  NoGaps(bonds \cup new)
<1> DEFINE all == bonds \cup new
           k == feedback_count(bonds, passage, polarity)
<1>1. k \in Nat /\ parse_feedback(bonds, passage, polarity) = 1..k
  BY NoGapsAll
<1>2. CASE new = {}
  BY <1>2
<1>3. CASE new # {}
  <2>1. PICK bond : /\ new = {bond} /\ bond[1] = passage
                    /\ bond[2][1] = polarity /\ bond[2][2] = count
    BY <1>3
  <2>2. parse_feedback(all, passage, polarity) = 1..k \cup {count}
    <3>1. parse_feedback(all, passage, polarity) =
             parse_feedback(bonds, passage, polarity) \cup {count}
      BY <2>1 DEF parse_feedback
    <3> QED
      BY <1>1, <3>1
  <2>3. \A a : \A b \in Polarity : a # passage \/ b # polarity =>
           parse_feedback(all, a, b) = parse_feedback(bonds, a, b)
    BY <2>1 DEF parse_feedback
  <2> HIDE DEF all, k
  <2>4. 1..k \cup {count} = 1..(k + 1) /\ k + 1 \in Nat
    BY <1>1 DEF k
  <2>5. feedback_count(all, passage, polarity) = k + 1
    BY <2>2, <2>4, MaxUpTo DEF feedback_count
  <2>6. \A a : \A b \in Polarity : a # passage \/ b # polarity =>
           feedback_count(all, a, b) = feedback_count(bonds, a, b)
    BY <2>3 DEF feedback_count
  <2>7. ASSUME NEW a, NEW b \in Polarity
        PROVE  /\ feedback_count(all, a, b) \in Nat
               /\ parse_feedback(all, a, b) = 1..feedback_count(all, a, b)
    <3>1. CASE a = passage /\ b = polarity
      BY <2>2, <2>4, <2>5, <3>1
    <3>2. CASE a # passage \/ b # polarity
      BY <2>3, <2>6, <3>2, NoGapsAll
    <3> QED
      BY <3>1, <3>2
  <2> QED
    BY <2>7 DEF NoGaps, all
<1> QED
  BY <1>2, <1>3

(* The count of an index is that of the bonds it was built from.           *)
LEMMA CountBuilt ==
    ASSUME NEW bonds, NEW sequence, NEW passage, NEW polarity \in Polarity
    PROVE  CountIn(build_index(bonds, sequence), passage, polarity) =
               feedback_count(bonds, passage, polarity)
<1> DEFINE feedback_bonds == {bond \in bonds : bond[2][1] \in Polarity}
           feedback == [at \in {bond[1] : bond \in feedback_bonds} |->
                        <<feedback_count(bonds, at, "strengthen"),
                          feedback_count(bonds, at, "weaken")>>]
<1>1. build_index(bonds, sequence).feedback = feedback
  BY DEF build_index
<1>2. CASE passage \in DOMAIN feedback
  BY <1>1, <1>2 DEF CountIn, Polarity
<1>3. CASE passage \notin DOMAIN feedback
  <2>1. parse_feedback(bonds, passage, polarity) = {}
    BY <1>3 DEF parse_feedback
  <2>2. 1..0 = {}
    OBVIOUS
  <2>3. feedback_count(bonds, passage, polarity) = 0
    BY <2>1, <2>2, MaxUpTo DEF feedback_count
  <2> QED
    BY <1>1, <1>3, <2>3 DEF CountIn
<1> QED
  BY <1>2, <1>3

LEMMA SequenceBuilt ==
    ASSUME NEW bonds, NEW sequence
    PROVE  build_index(bonds, sequence).snapshot_sequence = sequence
BY DEF build_index

-----------------------------------------------------------------------------
(* What the invariant says of one process *)

LEMMA Lengths ==
    ASSUME TypesInv, NEW p \in Proc, ViewInv(p)
    PROVE  Len(log) \in Nat /\ Len(view[p]) \in Nat /\ IsSeq(log) /\ IsSeq(view[p])
BY DEF TypesInv, ViewInv, CommitsInv, IsSeq

LEMMA RebuiltIs ==
    ASSUME NEW p \in Proc, ViewInv(p)
    PROVE  Rebuilt(p) = Built(view[p], Len(view[p]))
<1>1. IsSeq(view[p])
  BY DEF ViewInv, CommitsInv
<1> QED
  BY <1>1, NextSequence DEF Rebuilt, Built

LEMMA IndexCurrent ==
    ASSUME TypesInv, NEW p \in Proc, ViewInv(p)
    PROVE  Current(p) = Rebuilt(p)
<1> DEFINE k == Len(view[p])
<1>1. IsSeq(view[p]) /\ k \in Nat /\ CommitsInv(view[p]) /\ CommitsInv(log) /\ Len(log) \in Nat
  BY Lengths DEF ViewInv, TypesInv
<1>2. Rebuilt(p) = Built(view[p], k)
  BY RebuiltIs
<1>3. next_sequence(view[p]) = SequenceTo(view[p], k)
  BY <1>1, NextSequence
<1>4. ASSUME NEW c, CommitsInv(c), Begins(view[p], c), Len(c) \in Nat, NEW n \in 0..Len(c),
             retriever[p] = Built(c, n), retriever[p].snapshot_sequence = next_sequence(view[p])
      PROVE  retriever[p] = Rebuilt(p)
  <2>1. SequenceTo(view[p], k) = SequenceTo(c, k) /\ Built(view[p], k) = Built(c, k)
    BY <1>1, <1>4, BuiltSame
  <2>2. SequenceTo(c, n) = next_sequence(view[p])
    BY <1>4, SequenceBuilt DEF Built
  <2>3. k \in 0..Len(c)
    BY <1>1, <1>4 DEF Begins
  <2>4. n = k
    BY <1>3, <1>4, <2>1, <2>2, <2>3, SequenceTells
  <2> QED
    BY <1>2, <1>4, <2>1, <2>4
<1>5. CASE p \in services
  <2>1. Begins(view[p], log) /\ \E n \in 0..Len(log) : retriever[p] = Built(log, n)
    BY <1>5 DEF ViewInv, BuiltFrom
  <2>2. retriever[p].snapshot_sequence = next_sequence(view[p]) => retriever[p] = Rebuilt(p)
    BY <1>1, <1>4, <2>1
  <2> QED
    BY <2>2 DEF Current
<1>6. CASE p \notin services
  <2>1. Begins(view[p], view[p]) /\ \E n \in 0..k : retriever[p] = Built(view[p], n)
    BY <1>1, <1>6, BeginsSelf DEF ViewInv, BuiltFrom
  <2>2. retriever[p].snapshot_sequence = next_sequence(view[p]) => retriever[p] = Rebuilt(p)
    BY <1>1, <1>4, <2>1
  <2> QED
    BY <2>2 DEF Current
<1> QED
  BY <1>5, <1>6

(* The index a query or a reinforcement leaves behind.                     *)
LEMMA CurrentBuilt ==
    ASSUME TypesInv, NEW p \in Proc, ViewInv(p)
    PROVE  /\ BuiltFrom(Current(p), view[p])
           /\ p \in services => BuiltFrom(Current(p), log)
<1>1. Len(view[p]) \in Nat /\ Len(log) \in Nat
  BY Lengths
<1>2. Current(p) = Built(view[p], Len(view[p]))
  BY IndexCurrent, RebuiltIs
<1>3. BuiltFrom(Current(p), view[p])
  BY <1>1, <1>2 DEF BuiltFrom
<1> QED
  BY <1>1, <1>3, BuiltFromMore DEF ViewInv

LEMMA BondsGrow ==
    ASSUME NEW s, NEW t, Begins(s, t), Len(s) \in Nat, Len(t) \in Nat,
           NEW m \in 0..Len(s), NEW n \in m..Len(t)
    PROVE  BondsTo(s, m) \subseteq BondsTo(t, n)
<1>1. BondsTo(s, m) = BondsTo(t, m)
  BY BuiltSame
<1>2. \A i \in 1..m : i \in 1..n
  OBVIOUS
<1>3. BondsTo(t, m) \subseteq BondsTo(t, n)
  BY <1>2 DEF BondsTo
<1> QED
  BY <1>1, <1>3

LEMMA ParseGrows ==
    ASSUME NEW bonds, NEW more, bonds \subseteq more, NEW passage, NEW polarity
    PROVE  parse_feedback(bonds, passage, polarity) \subseteq parse_feedback(more, passage, polarity)
BY DEF parse_feedback

LEMMA ReceiptsKept ==
    ASSUME ReceiptsInv, UNCHANGED receipts, BondsTo(log, durable) \subseteq BondsTo(log', durable')
    PROVE  ReceiptsInv'
<1>1. \A i \in 1..Len(receipts) :
         receipts[i].count \in
            parse_feedback(BondsTo(log', durable'), receipts[i].passage, receipts[i].polarity)
  BY ParseGrows DEF ReceiptsInv
<1> QED
  BY <1>1 DEF ReceiptsInv

(* A process that a step leaves alone keeps its part of the invariant,     *)
(* while the log is not shortened.                                         *)
LEMMA OthersKept ==
    ASSUME RetrieverInv, NEW q \in Proc, Begins(log, log'), Len(log') \in Nat,
           (log' = log /\ UNCHANGED <<durable, receipts>>) \/ lease # q,
           view'[q] = view[q], retriever'[q] = retriever[q], call'[q] = call[q],
           q \in handles' <=> q \in handles, lease' = q <=> lease = q, services' = services
    PROVE  ViewInv(q)' /\ WriterInv(q)' /\ ReinforceInv(q)'
<1>1. ViewInv(q) /\ WriterInv(q) /\ ReinforceInv(q) /\ TypesInv
  BY DEF RetrieverInv
<1>2. Len(log) \in Nat /\ Len(view[q]) \in Nat
  BY <1>1, Lengths
<1>3. ViewInv(q)'
  <2>1. Begins(view[q], log) => Begins(view[q], log')
    BY <1>2, BeginsFurther
  <2>2. BuiltFrom(retriever[q], log) => BuiltFrom(retriever[q], log')
    BY <1>2, BuiltFromMore
  <2> QED
    BY <1>1, <2>1, <2>2 DEF ViewInv
<1>4. CASE lease # q
  <2>1. call[q] = NoCall /\ call[q].stage # "written"
    BY <1>1, <1>4 DEF WriterInv, NoCall
  <2>2. WriterInv(q)' /\ ReinforceInv(q)'
    BY <1>4, <2>1 DEF WriterInv, ReinforceInv
  <2> QED
    BY <1>3, <2>2
<1>5. CASE log' = log /\ UNCHANGED <<durable, receipts>>
  <2>1. WriterInv(q)'
    BY <1>1, <1>5 DEF WriterInv
  <2>2. ReinforceInv(q)'
    BY <1>1, <1>5 DEF ReinforceInv
  <2> QED
    BY <1>3, <2>1, <2>2
<1> QED
  BY <1>4, <1>5

-----------------------------------------------------------------------------
(* Steps that leave the log as it is *)

LEMMA QuietStep ==
    ASSUME RetrieverInv, TypesInv', NEW p \in Proc,
           UNCHANGED <<log, durable, receipts, services>>,
           \A q \in Proc \ {p} : /\ view'[q] = view[q] /\ retriever'[q] = retriever[q]
                                 /\ call'[q] = call[q] /\ (q \in handles' <=> q \in handles)
                                 /\ (lease' = q <=> lease = q),
           ViewInv(p)', WriterInv(p)', ReinforceInv(p)'
    PROVE  RetrieverInv'
<1>1. Begins(log, log') /\ Len(log') \in Nat /\ log' = log
  BY BeginsSelf DEF RetrieverInv, TypesInv, CommitsInv, IsSeq
<1>2. ASSUME NEW q \in Proc, q # p PROVE ViewInv(q)' /\ WriterInv(q)' /\ ReinforceInv(q)'
  BY <1>1, <1>2, OthersKept
<1>3. ReceiptsInv'
  BY <1>1, ReceiptsKept DEF RetrieverInv
<1> QED
  BY <1>2, <1>3 DEF RetrieverInv

LEMMA OpenStep == ASSUME RetrieverInv, NEW p \in Proc, Open(p), UNCHANGED processes PROVE RetrieverInv'
<1>1. /\ TypesInv /\ ViewInv(p) /\ WriterInv(p) /\ ReinforceInv(p)
      /\ p \notin handles /\ lease = Nobody /\ lease' = p
      /\ UNCHANGED <<log, durable, handles, view, retriever, call, services, receipts>>
  BY DEF RetrieverInv, Open, Acquire, processes
<1>2. TypesInv'
  BY <1>1 DEF TypesInv
<1>3. view[p] = <<>> /\ Len(log) \in Nat
  BY <1>1 DEF ViewInv, TypesInv, CommitsInv, IsSeq
<1>4. ViewInv(p)' /\ ReinforceInv(p)'
  BY <1>1 DEF ViewInv, ReinforceInv
<1>5. call[p] = NoCall /\ NoCall.stage # "written"
  BY <1>1, ProcAssumption DEF WriterInv, NoCall
<1>6. WriterInv(p)'
  BY <1>1, <1>3, <1>5, BeginsEmpty DEF WriterInv
<1>7. \A q \in Proc \ {p} : lease' # q /\ lease # q
  BY <1>1, ProcAssumption
<1> QED
  BY <1>1, <1>2, <1>4, <1>6, <1>7, QuietStep

LEMMA ScanStep ==
    ASSUME RetrieverInv, NEW p \in Proc, ScanLog(p), UNCHANGED processes
    PROVE  RetrieverInv'
<1>1. /\ TypesInv /\ ViewInv(p) /\ WriterInv(p)
      /\ call[p] = NoCall /\ (p \in handles => p \in services)
      /\ handles' = handles \cup {p} /\ view' = [view EXCEPT ![p] = log]
      /\ UNCHANGED <<log, durable, lease, retriever, call, services, receipts>>
  BY DEF RetrieverInv, ScanLog, processes
<1>2. TypesInv'
  BY <1>1 DEF TypesInv
<1>3. view'[p] = log /\ p \in handles' /\ CommitsInv(log) /\ Len(log) \in Nat
  BY <1>1 DEF TypesInv, CommitsInv, IsSeq
<1>4. Begins(log, log)
  BY <1>3, BeginsSelf
<1>5. ViewInv(p)'
  <2>1. CASE p \in services
    BY <1>1, <1>3, <1>4, <2>1 DEF ViewInv
  <2>2. CASE p \notin services
    <3>1. view[p] = <<>>
      BY <1>1, <2>2 DEF ViewInv
    <3>2. BuiltFrom(retriever[p], <<>>)
      BY <1>1, <2>2, <3>1 DEF ViewInv
    <3>3. BuiltFrom(retriever[p], log)
      BY <1>3, <3>2, BeginsEmpty, BuiltFromMore
    <3> QED
      BY <1>1, <1>3, <2>2, <3>3 DEF ViewInv
  <2> QED
    BY <2>1, <2>2
<1>6. call'[p] = NoCall /\ NoCall.stage # "written"
  BY <1>1 DEF NoCall
<1>7. WriterInv(p)' /\ ReinforceInv(p)'
  BY <1>3, <1>1, <1>4, <1>6 DEF WriterInv, ReinforceInv
<1>8. \A q \in Proc \ {p} : view'[q] = view[q] /\ (q \in handles' <=> q \in handles)
  BY <1>1 DEF TypesInv
<1> QED
  BY <1>1, <1>2, <1>5, <1>7, <1>8, QuietStep

(* A process without a handle and without a call.                          *)
LEMMA Closed ==
    ASSUME TypesInv, TypesInv', NEW p \in Proc, ViewInv(p), UNCHANGED <<log, services>>,
           p \notin handles', lease' # p, view'[p] = <<>>, call'[p] = NoCall,
           retriever'[p] = DefaultIndex \/ (p \in services /\ retriever'[p] = retriever[p])
    PROVE  ViewInv(p)' /\ WriterInv(p)' /\ ReinforceInv(p)'
<1>1. Len(log) \in Nat /\ Len(<<>>) \in Nat
  BY DEF TypesInv, CommitsInv, IsSeq
<1>2. BuiltFrom(DefaultIndex, log) /\ BuiltFrom(DefaultIndex, <<>>) /\ Begins(<<>>, log)
  BY <1>1, DefaultBuilt, BeginsEmpty
<1>3. ViewInv(p)'
  BY <1>2, NoCommits DEF ViewInv
<1>4. NoCall.stage # "written"
  BY DEF NoCall
<1> QED
  BY <1>3, <1>4 DEF WriterInv, ReinforceInv

LEMMA CloseStep ==
    ASSUME RetrieverInv, NEW p \in Proc, CloseHandle(p), UNCHANGED processes
    PROVE  RetrieverInv'
<1>1. /\ TypesInv /\ ViewInv(p) /\ p \in services /\ call[p] = NoCall
      /\ handles' = handles \ {p} /\ lease' = (IF lease = p THEN Nobody ELSE lease)
      /\ view' = [view EXCEPT ![p] = <<>>]
      /\ UNCHANGED <<log, durable, retriever, call, services, receipts>>
  BY DEF RetrieverInv, CloseHandle, Close, processes
<1>2. TypesInv'
  BY <1>1 DEF TypesInv
<1>3. lease' # p /\ view'[p] = <<>> /\ p \notin handles'
  BY <1>1, ProcAssumption DEF TypesInv
<1>4. ViewInv(p)' /\ WriterInv(p)' /\ ReinforceInv(p)'
  BY <1>1, <1>2, <1>3, Closed
<1>5. \A q \in Proc \ {p} : /\ view'[q] = view[q] /\ (q \in handles' <=> q \in handles)
                            /\ (lease' = q <=> lease = q)
  BY <1>1, ProcAssumption DEF TypesInv
<1> QED
  BY <1>1, <1>2, <1>4, <1>5, QuietStep

LEMMA ExitStep == ASSUME RetrieverInv, NEW p \in Proc, Exit(p) PROVE RetrieverInv'
<1>1. /\ TypesInv /\ ViewInv(p)
      /\ handles' = handles \ {p} /\ lease' = (IF lease = p THEN Nobody ELSE lease)
      /\ view' = [view EXCEPT ![p] = <<>>] /\ retriever' = [retriever EXCEPT ![p] = DefaultIndex]
      /\ call' = [call EXCEPT ![p] = NoCall]
      /\ UNCHANGED <<log, durable, services, receipts>>
  BY DEF RetrieverInv, Exit, Close
<1>2. TypesInv'
  BY <1>1 DEF TypesInv, Calls
<1>3. /\ lease' # p /\ view'[p] = <<>> /\ p \notin handles' /\ call'[p] = NoCall
      /\ retriever'[p] = DefaultIndex
  BY <1>1, ProcAssumption DEF TypesInv
<1>4. ViewInv(p)' /\ WriterInv(p)' /\ ReinforceInv(p)'
  <2>1. TypesInv /\ ViewInv(p) /\ UNCHANGED <<log, services>>
    BY <1>1
  <2>2. retriever'[p] = DefaultIndex \/ (p \in services /\ retriever'[p] = retriever[p])
    BY <1>3
  <2>3. p \notin handles' /\ lease' # p /\ view'[p] = <<>> /\ call'[p] = NoCall
    BY <1>3
  <2> QED
    BY <2>1, <2>2, <2>3, <1>2, Closed
<1>5. \A q \in Proc \ {p} : /\ view'[q] = view[q] /\ retriever'[q] = retriever[q]
                            /\ call'[q] = call[q] /\ (q \in handles' <=> q \in handles)
                            /\ (lease' = q <=> lease = q)
  BY <1>1, ProcAssumption DEF TypesInv
<1> QED
  BY <1>1, <1>2, <1>4, <1>5, QuietStep

LEMMA RetrieveStep ==
    ASSUME RetrieverInv, NEW p \in Proc, retrieve(p), UNCHANGED services
    PROVE  RetrieverInv'
<1>1. /\ TypesInv /\ ViewInv(p) /\ WriterInv(p) /\ p \in handles /\ call[p] = NoCall
      /\ retriever' = [retriever EXCEPT ![p] = Current(p)]
      /\ UNCHANGED <<log, durable, lease, handles, view, call, services, receipts>>
  BY DEF RetrieverInv, retrieve, vars
<1>2. TypesInv'
  BY <1>1 DEF TypesInv
<1>3. retriever'[p] = Current(p)
  BY <1>1 DEF TypesInv
<1>4. BuiltFrom(Current(p), view[p]) /\ (p \in services => BuiltFrom(Current(p), log))
  BY <1>1, CurrentBuilt
<1>5. ViewInv(p)'
  BY <1>1, <1>3, <1>4 DEF ViewInv
<1>6. NoCall.stage # "written"
  BY DEF NoCall
<1>7. WriterInv(p)' /\ ReinforceInv(p)'
  BY <1>1, <1>6 DEF WriterInv, ReinforceInv
<1>8. \A q \in Proc \ {p} : retriever'[q] = retriever[q]
  BY <1>1 DEF TypesInv
<1> QED
  BY <1>1, <1>2, <1>5, <1>7, <1>8, QuietStep

LEMMA FaultStep ==
    ASSUME RetrieverInv, NEW p \in Proc, AcknowledgeFault(p), UNCHANGED processes
    PROVE  RetrieverInv'
<1>1. /\ TypesInv /\ ViewInv(p) /\ WriterInv(p) /\ call[p].stage = "committed"
      /\ call' = [call EXCEPT ![p] = NoCall]
      /\ UNCHANGED <<log, durable, lease, handles, view, retriever, services, receipts>>
  BY DEF RetrieverInv, AcknowledgeFault, vars, processes
<1>2. TypesInv'
  BY <1>1 DEF TypesInv, Calls
<1>3. call'[p] = NoCall /\ NoCall.stage # "written" /\ call[p].stage # "written"
  BY <1>1 DEF TypesInv, NoCall
<1>4. ViewInv(p)'
  BY <1>1 DEF ViewInv
<1>5. WriterInv(p)' /\ ReinforceInv(p)'
  BY <1>1, <1>3 DEF WriterInv, ReinforceInv
<1>6. \A q \in Proc \ {p} : call'[q] = call[q]
  BY <1>1 DEF TypesInv
<1> QED
  BY <1>1, <1>2, <1>4, <1>5, <1>6, QuietStep

-----------------------------------------------------------------------------
(* Writing *)

(* A commit, or a cell without a new fact: only the call, the index and    *)
(* the log of the writer change.                                           *)
LEMMA WriteStep ==
    ASSUME RetrieverInv, NEW p \in Proc, ReadyWriter(p),
           NEW operation \in Calls, NEW index,
           UNCHANGED <<durable, lease, handles, view, services, receipts>>,
           DOMAIN retriever' = Proc, retriever'[p] = index, BuiltFrom(index, log),
           \A q \in Proc \ {p} : retriever'[q] = retriever[q],
           call' = [call EXCEPT ![p] = operation],
           CommitsInv(log'), Begins(log, log'),
           \/ operation.stage = "committed" /\ log' = log
           \/ operation.stage = "written" /\ Len(log') = Len(log) + 1,
           ReinforceInv(p)'
    PROVE  RetrieverInv'
<1>1. /\ TypesInv /\ ViewInv(p) /\ WriterInv(p) /\ ReceiptsInv
      /\ lease = p /\ p \in handles /\ call[p] = NoCall
  BY DEF RetrieverInv, ReadyWriter
<1>2. Len(log) \in Nat /\ Len(log') \in Nat /\ durable \in 0..Len(log) /\ Len(log) <= Len(log')
  BY <1>1 DEF TypesInv, CommitsInv, IsSeq, Begins
<1>3. view[p] = log
  BY <1>1 DEF WriterInv, NoCall
<1>4. TypesInv'
  <2>1. durable' \in 0..Len(log')
    BY <1>2
  <2> QED
    BY <1>1, <2>1 DEF TypesInv
<1>5. call'[p] = operation /\ view'[p] = log
  BY <1>1, <1>3 DEF TypesInv
<1>6. ViewInv(p)'
  <2>1. BuiltFrom(index, log')
    BY <1>2, BuiltFromMore
  <2> QED
    BY <1>1, <1>5, <2>1 DEF ViewInv, TypesInv
<1>7. WriterInv(p)'
  BY <1>1, <1>2, <1>5 DEF WriterInv
<1>8. ReceiptsInv'
  <2>1. BondsTo(log, durable) \subseteq BondsTo(log', durable')
    BY <1>2, BondsGrow
  <2> QED
    BY <1>1, <2>1, ReceiptsKept
<1>9. ASSUME NEW q \in Proc, q # p PROVE ViewInv(q)' /\ WriterInv(q)' /\ ReinforceInv(q)'
  <2>1. view'[q] = view[q] /\ retriever'[q] = retriever[q] /\ call'[q] = call[q] /\ lease # q
    BY <1>1, <1>9 DEF TypesInv
  <2> QED
    BY <1>2, <2>1, OthersKept
<1> QED
  BY <1>4, <1>6, <1>7, <1>8, <1>9 DEF RetrieverInv

(* What commit_cell does to the log. *)
LEMMA CellCommitted ==
    ASSUME RetrieverInv, NEW p \in Proc, NEW atoms, NEW bonds, NEW operation,
           commit_cell(p, atoms, bonds, operation), IsFiniteSet(atoms), IsFiniteSet(bonds),
           NoGaps(bonds_of(log) \cup (bonds \ bonds_of(log)))
    PROVE  /\ CommitsInv(log') /\ Begins(log, log')
           /\ \/ /\ log' = log
                 /\ call' = [call EXCEPT ![p] = [operation EXCEPT !.stage = "committed"]]
              \/ Len(log') = Len(log) + 1 /\ call' = [call EXCEPT ![p] = operation]
           /\ bonds \subseteq BondsTo(log', Len(log'))
<1> DEFINE new_atoms == atoms \ atoms_of(log)
           new_bonds == bonds \ bonds_of(log)
           frames == Cardinality(new_atoms) + Cardinality(new_bonds) + 2
           commit == [atoms |-> new_atoms, bonds |-> new_bonds,
                      next_sequence |-> next_sequence(log) + frames]
<1>1. CommitsInv(log) /\ IsSeq(log) /\ Len(log) \in Nat
  BY DEF RetrieverInv, TypesInv, CommitsInv, IsSeq
<1>2. /\ IsFiniteSet(new_atoms) /\ Cardinality(new_atoms) \in Nat
      /\ IsFiniteSet(new_bonds) /\ Cardinality(new_bonds) \in Nat
  BY FS_Difference, FS_CardinalityType
<1>3. next_sequence(log) \in Nat /\ bonds_of(log) = BondsTo(log, Len(log))
  BY <1>1, NextSequence, SequenceGrows
<1>4. \/ /\ frames = 2 /\ log' = log
         /\ call' = [call EXCEPT ![p] = [operation EXCEPT !.stage = "committed"]]
      \/ log' = Append(log, commit) /\ call' = [call EXCEPT ![p] = operation]
  BY DEF commit_cell
<1>5. frames \in Nat /\ frames >= 2
  <2> HIDE DEF new_atoms, new_bonds
  <2> QED
    BY <1>2
<1>6. CASE frames = 2 /\ log' = log
  <2>1. Cardinality(new_bonds) = 0
    <3> HIDE DEF new_atoms, new_bonds
    <3> QED
      BY <1>2, <1>6
  <2>2. new_bonds = {}
    BY <1>2, <2>1, FS_EmptySet
  <2>3. bonds \subseteq BondsTo(log', Len(log'))
    BY <1>3, <1>6, <2>2
  <2>4. Begins(log, log')
    BY <1>1, <1>6, BeginsSelf
  <2>5. Len(log') # Len(log) + 1
    BY <1>1, <1>6
  <2>6. Append(log, commit) # log
    <3> HIDE DEF commit
    <3>1. Len(Append(log, commit)) = Len(log) + 1
      BY <1>1, AppendSeq
    <3> QED
      BY <1>1, <3>1
  <2> HIDE DEF new_bonds, commit, frames
  <2>7. call' = [call EXCEPT ![p] = [operation EXCEPT !.stage = "committed"]]
    BY <1>4, <1>6, <2>6
  <2> QED
    BY <1>1, <1>6, <2>3, <2>4, <2>7
<1>7. CASE log' = Append(log, commit) /\ call' = [call EXCEPT ![p] = operation]
  <2>1. commit.next_sequence = next_sequence(log) + frames /\ commit.bonds = new_bonds
    OBVIOUS
  <2> HIDE DEF commit, frames
  <2>2. commit.next_sequence \in Nat /\ commit.next_sequence > next_sequence(log)
    BY <1>3, <1>5, <2>1
  <2>3. NoGaps(bonds_of(log) \cup commit.bonds)
    BY <2>1
  <2>4. /\ CommitsInv(log') /\ Len(log') = Len(log) + 1 /\ Begins(log, log')
        /\ BondsTo(log', Len(log) + 1) = bonds_of(log) \cup commit.bonds
    BY <1>1, <1>7, <2>2, <2>3, CommitsAppend
  <2>5. bonds \subseteq BondsTo(log', Len(log'))
    BY <2>1, <2>4
  <2> QED
    BY <1>7, <2>4, <2>5
<1> HIDE DEF commit, frames, new_atoms, new_bonds
<1> QED
  BY <1>4, <1>6, <1>7

LEMMA PutAtomStep ==
    ASSUME RetrieverInv, NEW p \in Proc, NEW id \in Atoms, put_atom(p, id), UNCHANGED services
    PROVE  RetrieverInv'
<1> DEFINE commit == [atoms |-> {id}, bonds |-> {}, next_sequence |-> next_sequence(log) + 1]
           operation == [stage |-> "written", name |-> "put_atom"]
<1>1. /\ TypesInv /\ ViewInv(p) /\ WriterInv(p) /\ CommitsInv(log) /\ IsSeq(log) /\ Len(log) \in Nat
      /\ ReadyWriter(p)
      /\ UNCHANGED <<durable, lease, handles, view, retriever, services, receipts>>
  BY DEF RetrieverInv, TypesInv, CommitsInv, IsSeq, put_atom
<1>2. log' = Append(log, commit) /\ call' = [call EXCEPT ![p] = operation]
  BY DEF put_atom
<1>3. next_sequence(log) \in Nat /\ bonds_of(log) = BondsTo(log, Len(log))
  BY <1>1, NextSequence, SequenceGrows
<1>4. commit.next_sequence \in Nat /\ commit.next_sequence > next_sequence(log) /\ commit.bonds = {}
  BY <1>3
<1>5. NoGaps(bonds_of(log) \cup commit.bonds)
  BY <1>1, <1>3, <1>4 DEF CommitsInv
<1> HIDE DEF commit
<1>6. CommitsInv(log') /\ Len(log') = Len(log) + 1 /\ Begins(log, log')
  BY <1>1, <1>2, <1>4, <1>5, CommitsAppend
<1>7. view[p] = log
  BY <1>1 DEF WriterInv, ReadyWriter, NoCall
<1>8. BuiltFrom(retriever[p], log)
  BY <1>1, <1>7 DEF ViewInv
<1>9. operation \in Calls /\ operation.stage = "written" /\ operation.name # "reinforce"
  BY DEF Calls
<1>10. call'[p] = operation
  BY <1>1, <1>2 DEF TypesInv
<1> HIDE DEF operation
<1>11. ReinforceInv(p)'
  BY <1>9, <1>10 DEF ReinforceInv
<1>12. DOMAIN retriever' = Proc
  BY <1>1 DEF TypesInv
<1> QED
  BY <1>1, <1>2, <1>6, <1>8, <1>9, <1>11, <1>12, WriteStep

LEMMA FiniteThree == ASSUME NEW a, NEW b, NEW c PROVE IsFiniteSet({a, b, c})
<1>1. IsFiniteSet({a}) /\ IsFiniteSet({b}) /\ IsFiniteSet({c})
  BY FS_Singleton
<1>2. IsFiniteSet(({a} \cup {b}) \cup {c})
  BY <1>1, FS_Union
<1>3. {a, b, c} = ({a} \cup {b}) \cup {c}
  OBVIOUS
<1> QED
  BY <1>2, <1>3

LEMMA FirstsFinite == ASSUME NEW S, IsFiniteSet(S) PROVE IsFiniteSet({x[1] : x \in S})
<1> DEFINE f == [x \in S |-> x[1]]
<1>1. IsFiniteSet({f[x] : x \in S})
  BY FiniteImage
<1>2. {f[x] : x \in S} = {x[1] : x \in S}
  OBVIOUS
<1> QED
  BY <1>1, <1>2

LEMMA SourceBondsFinite ==
    ASSUME NEW texts, IsFiniteSet(texts), NEW source
    PROVE  IsFiniteSet({<<text, FROM_SOURCE, source>> : text \in texts})
<1> DEFINE f == [text \in texts |-> <<text, FROM_SOURCE, source>>]
<1>1. IsFiniteSet({f[x] : x \in texts})
  BY FiniteImage
<1>2. {f[x] : x \in texts} = {<<text, FROM_SOURCE, source>> : text \in texts}
  OBVIOUS
<1> QED
  BY <1>1, <1>2

(* The facts of a remembered document are finitely many, and none is a     *)
(* reinforcement.                                                          *)
LEMMA DocumentFacts ==
    ASSUME NEW document \in Documents, NEW texts, NEW mentions,
           texts = {passage[1] : passage \in document.passages},
           mentions = UNION {{<<term_identity(t), MENTIONS, passage[1]>> : t \in passage[2]} :
                                 passage \in document.passages}
    PROVE  /\ IsFiniteSet({document.source, MENTIONS, FROM_SOURCE} \cup texts
                             \cup {bond[1] : bond \in mentions})
           /\ IsFiniteSet(mentions \cup {<<text, FROM_SOURCE, document.source>> : text \in texts})
           /\ \A bond \in mentions \cup {<<text, FROM_SOURCE, document.source>> : text \in texts} :
                 bond[2][1] \notin Polarity
<1> DEFINE passages == document.passages
           source_bonds == {<<text, FROM_SOURCE, document.source>> : text \in texts}
<1>1. IsFiniteSet(passages) /\ \A passage \in passages : IsFiniteSet(passage[2])
  BY DocumentAssumption
<1>2. IsFiniteSet(texts)
  BY <1>1, FirstsFinite
<1>3. IsFiniteSet(mentions)
  <2> DEFINE of(passage) == {<<term_identity(t), MENTIONS, passage[1]>> : t \in passage[2]}
             f == [passage \in passages |-> of(passage)]
  <2>1. ASSUME NEW passage \in passages PROVE IsFiniteSet(of(passage))
    <3> DEFINE g == [t \in passage[2] |-> <<term_identity(t), MENTIONS, passage[1]>>]
    <3>1. IsFiniteSet({g[t] : t \in passage[2]})
      BY <1>1, FiniteImage
    <3>2. {g[t] : t \in passage[2]} = of(passage)
      OBVIOUS
    <3> QED
      BY <3>1, <3>2
  <2>2. mentions = UNION {of(passage) : passage \in passages}
    OBVIOUS
  <2> HIDE DEF of
  <2>3. IsFiniteSet({f[x] : x \in passages})
    BY <1>1, FiniteImage
  <2>4. \A T \in {f[x] : x \in passages} : IsFiniteSet(T)
    BY <2>1
  <2>5. {f[x] : x \in passages} = {of(passage) : passage \in passages}
    OBVIOUS
  <2> QED
    BY <2>2, <2>3, <2>4, <2>5, FS_UNION
<1>4. IsFiniteSet(source_bonds)
  BY <1>2, SourceBondsFinite
<1>5. IsFiniteSet({bond[1] : bond \in mentions})
  BY <1>3, FirstsFinite
<1>6. IsFiniteSet({document.source, MENTIONS, FROM_SOURCE})
  BY FiniteThree
<1>7. \A bond \in mentions : bond[2] = MENTIONS
  OBVIOUS
<1>8. \A bond \in source_bonds : bond[2] = FROM_SOURCE
  OBVIOUS
<1>9. MENTIONS[1] \notin Polarity /\ FROM_SOURCE[1] \notin Polarity
  BY DEF MENTIONS, FROM_SOURCE, Polarity
<1> HIDE DEF source_bonds
<1>10. IsFiniteSet({document.source, MENTIONS, FROM_SOURCE} \cup texts \cup {bond[1] : bond \in mentions})
  BY <1>2, <1>5, <1>6, FS_Union
<1>11. IsFiniteSet(mentions \cup source_bonds)
  BY <1>3, <1>4, FS_Union
<1>12. \A bond \in mentions \cup source_bonds : bond[2][1] \notin Polarity
  BY <1>7, <1>8, <1>9
<1> QED
  BY <1>10, <1>11, <1>12 DEF source_bonds

(* A call of commit_cell by an operation whose part of the invariant is    *)
(* its own to show.                                                        *)
LEMMA CellStep ==
    ASSUME RetrieverInv, NEW p \in Proc, ReadyWriter(p), NEW atoms, NEW bonds, NEW index,
           NEW operation \in Calls, operation.stage = "written",
           [operation EXCEPT !.stage = "committed"] \in Calls,
           [operation EXCEPT !.stage = "committed"].stage = "committed",
           commit_cell(p, atoms, bonds, operation), IsFiniteSet(atoms), IsFiniteSet(bonds),
           NoGaps(bonds_of(log) \cup (bonds \ bonds_of(log))),
           DOMAIN retriever' = Proc, retriever'[p] = index, BuiltFrom(index, log),
           \A q \in Proc \ {p} : retriever'[q] = retriever[q],
           UNCHANGED <<services, receipts>>,
           bonds \subseteq BondsTo(log', Len(log')) => ReinforceInv(p)'
    PROVE  RetrieverInv'
<1> DEFINE committed == [operation EXCEPT !.stage = "committed"]
<1>1. /\ CommitsInv(log') /\ Begins(log, log')
      /\ \/ log' = log /\ call' = [call EXCEPT ![p] = committed]
         \/ Len(log') = Len(log) + 1 /\ call' = [call EXCEPT ![p] = operation]
      /\ bonds \subseteq BondsTo(log', Len(log'))
  BY CellCommitted
<1>2. UNCHANGED <<durable, lease, handles, view, services, receipts>>
  BY DEF commit_cell
<1>3. ReinforceInv(p)'
  BY <1>1
<1>4. committed \in Calls /\ committed.stage = "committed"
  OBVIOUS
<1> HIDE DEF committed
<1>5. CASE log' = log /\ call' = [call EXCEPT ![p] = committed]
  BY <1>1, <1>2, <1>3, <1>4, <1>5, WriteStep
<1>6. CASE Len(log') = Len(log) + 1 /\ call' = [call EXCEPT ![p] = operation]
  BY <1>1, <1>2, <1>3, <1>6, WriteStep
<1> QED
  BY <1>1, <1>5, <1>6

LEMMA RememberStep ==
    ASSUME RetrieverInv, NEW p \in Proc, NEW document \in Documents, remember(p, document),
           UNCHANGED services
    PROVE  RetrieverInv'
<1> DEFINE texts == {passage[1] : passage \in document.passages}
           mentions == UNION {{<<term_identity(t), MENTIONS, passage[1]>> : t \in passage[2]} :
                                 passage \in document.passages}
           atoms == {document.source, MENTIONS, FROM_SOURCE} \cup texts
                        \cup {bond[1] : bond \in mentions}
           bonds == mentions \cup {<<text, FROM_SOURCE, document.source>> : text \in texts}
           operation == [stage |-> "written", name |-> "remember"]
<1>1. ReadyWriter(p) /\ commit_cell(p, atoms, bonds, operation) /\ UNCHANGED <<retriever, receipts>>
  BY DEF remember
<1>2. /\ IsFiniteSet(atoms) /\ IsFiniteSet(bonds)
      /\ \A bond \in bonds : bond[2][1] \notin Polarity
  <2> HIDE DEF texts, mentions
  <2>1. texts = {passage[1] : passage \in document.passages}
          /\ mentions = UNION {{<<term_identity(t), MENTIONS, passage[1]>> : t \in passage[2]} :
                                  passage \in document.passages}
    BY DEF texts, mentions
  <2> QED
    BY <2>1, DocumentFacts
<1> HIDE DEF texts, mentions, atoms, bonds
<1>3. /\ TypesInv /\ ViewInv(p) /\ WriterInv(p) /\ CommitsInv(log) /\ IsSeq(log)
      /\ lease = p /\ p \in handles /\ call[p] = NoCall
  BY <1>1 DEF RetrieverInv, TypesInv, CommitsInv, ReadyWriter
<1>4. NoGaps(bonds_of(log))
  <2>1. bonds_of(log) = BondsTo(log, Len(log)) /\ Len(log) \in 0..Len(log)
    BY <1>3, NextSequence DEF IsSeq
  <2> QED
    BY <1>3, <2>1 DEF CommitsInv
<1>5. NoGaps(bonds_of(log) \cup (bonds \ bonds_of(log)))
  BY <1>2, <1>4, NoGapsOther
<1>6. BuiltFrom(retriever[p], log) /\ DOMAIN retriever' = Proc
  BY <1>1, <1>3 DEF ViewInv, WriterInv, NoCall, TypesInv
<1>7. /\ operation \in Calls /\ operation.stage = "written"
      /\ [operation EXCEPT !.stage = "committed"] \in Calls
      /\ [operation EXCEPT !.stage = "committed"].stage = "committed"
      /\ operation.name # "reinforce"
      /\ [operation EXCEPT !.stage = "committed"].name # "reinforce"
  BY DEF Calls
<1>8. call'[p] \in {operation, [operation EXCEPT !.stage = "committed"]}
  BY <1>1, <1>3 DEF commit_cell, TypesInv
<1> HIDE DEF operation
<1>9. ReinforceInv(p)'
  BY <1>7, <1>8 DEF ReinforceInv
<1> QED
  BY <1>1, <1>2, <1>5, <1>6, <1>7, <1>9, CellStep

LEMMA ReinforceStep ==
    ASSUME RetrieverInv, NEW p \in Proc, NEW passage \in Atoms, NEW polarity \in Polarity,
           reinforce(p, passage, polarity), UNCHANGED services
    PROVE  RetrieverInv'
<1> DEFINE count == NextCount(CountIn(Current(p), passage, polarity))
           relation == feedback_relation(polarity, count)
           bonds == {<<passage, relation, FEEDBACK_MARKER>>}
           atoms == {relation, FEEDBACK_MARKER}
           operation == [stage |-> "written", name |-> "reinforce", passage |-> passage,
                         polarity |-> polarity, count |-> count]
<1>1. /\ ReadyWriter(p) /\ commit_cell(p, atoms, bonds, operation)
      /\ retriever' = [retriever EXCEPT ![p] = Current(p)] /\ UNCHANGED receipts
  BY DEF reinforce
<1>2. /\ TypesInv /\ ViewInv(p) /\ WriterInv(p) /\ CommitsInv(log) /\ IsSeq(log) /\ ReceiptsInv
      /\ lease = p /\ p \in handles /\ call[p] = NoCall /\ durable \in 0..Len(log)
      /\ Len(log) \in Nat
  BY <1>1 DEF RetrieverInv, TypesInv, CommitsInv, ReadyWriter, IsSeq
<1>3. view[p] = log
  BY <1>2 DEF WriterInv, NoCall
<1>4. NoGaps(bonds_of(log)) /\ bonds_of(log) = BondsTo(log, Len(log))
  <2>1. bonds_of(log) = BondsTo(log, Len(log)) /\ Len(log) \in 0..Len(log)
    BY <1>2, NextSequence
  <2> QED
    BY <1>2, <2>1 DEF CommitsInv
<1> DEFINE k == feedback_count(bonds_of(log), passage, polarity)
<1>5. k \in Nat /\ parse_feedback(bonds_of(log), passage, polarity) = 1..k
  BY <1>4, NoGapsAll
<1>6. count = k + 1
  <2>1. Current(p) = build_index(bonds_of(log), next_sequence(log))
    BY <1>2, <1>3, IndexCurrent DEF Rebuilt
  <2>2. CountIn(Current(p), passage, polarity) = k
    BY <2>1, CountBuilt
  <2> QED
    BY <2>2 DEF NextCount
<1> HIDE DEF count, k
<1>7. /\ operation \in Calls /\ operation.stage = "written"
      /\ [operation EXCEPT !.stage = "committed"] \in Calls
      /\ [operation EXCEPT !.stage = "committed"].stage = "committed"
  <2>1. count \in Nat
    BY <1>5, <1>6
  <2> QED
    BY <2>1 DEF Calls
<1>8. call'[p] \in {operation, [operation EXCEPT !.stage = "committed"]}
  BY <1>1, <1>2 DEF commit_cell, TypesInv
<1>9. \A c \in {operation, [operation EXCEPT !.stage = "committed"]} :
         c.passage = passage /\ c.polarity = polarity /\ c.count = count
  OBVIOUS
<1>10. /\ bonds = {<<passage, <<polarity, count>>, FEEDBACK_MARKER>>}
       /\ IsFiniteSet(atoms) /\ IsFiniteSet(bonds)
  <2>1. bonds = {<<passage, <<polarity, count>>, FEEDBACK_MARKER>>}
    BY DEF feedback_relation
  <2>2. IsFiniteSet(bonds)
    BY FS_Singleton
  <2>3. atoms = {relation} \cup {FEEDBACK_MARKER}
    OBVIOUS
  <2>4. IsFiniteSet({relation}) /\ IsFiniteSet({FEEDBACK_MARKER})
    BY FS_Singleton
  <2> HIDE DEF relation, atoms, bonds
  <2>5. IsFiniteSet(atoms)
    BY <2>3, <2>4, FS_Union
  <2> QED
    BY <2>1, <2>2, <2>5
<1> HIDE DEF operation, bonds, atoms
<1>11. NoGaps(bonds_of(log) \cup (bonds \ bonds_of(log)))
  BY <1>4, <1>6, <1>10, NoGapsNext DEF k
<1>12. ASSUME NEW i \in 1..Len(receipts), receipts[i].passage = passage, receipts[i].polarity = polarity
       PROVE  receipts[i].count < count
  <2>1. BondsTo(log, durable) \subseteq bonds_of(log)
    BY <1>2, <1>4, BeginsSelf, BondsGrow
  <2>2. receipts[i].count \in parse_feedback(BondsTo(log, durable), passage, polarity)
    BY <1>2, <1>12 DEF ReceiptsInv
  <2>3. receipts[i].count \in 1..k
    BY <1>5, <2>1, <2>2, ParseGrows
  <2> QED
    BY <1>5, <1>6, <2>3
<1>13. bonds \subseteq BondsTo(log', Len(log')) => ReinforceInv(p)'
  <2> SUFFICES ASSUME bonds \subseteq BondsTo(log', Len(log')) PROVE ReinforceInv(p)'
    OBVIOUS
  <2>1. count \in parse_feedback(bonds, passage, polarity)
    BY <1>10 DEF parse_feedback
  <2>2. count \in parse_feedback(BondsTo(log', Len(log')), passage, polarity)
    BY <2>1, ParseGrows
  <2>3. call'[p].passage = passage /\ call'[p].polarity = polarity /\ call'[p].count = count
    BY <1>8, <1>9
  <2> QED
    BY <1>1, <1>12, <2>2, <2>3 DEF ReinforceInv
<1>14. BuiltFrom(Current(p), log)
  BY <1>2, <1>3, CurrentBuilt
<1>15. /\ DOMAIN retriever' = Proc /\ retriever'[p] = Current(p)
       /\ \A q \in Proc \ {p} : retriever'[q] = retriever[q]
  BY <1>1, <1>2 DEF TypesInv
<1> QED
  BY <1>1, <1>7, <1>10, <1>11, <1>13, <1>14, <1>15, CellStep

-----------------------------------------------------------------------------
(* Syncing, and what undoes a write *)

LEMMA SyncedStep ==
    ASSUME RetrieverInv, NEW p \in Proc, CommitSynced(p), UNCHANGED processes
    PROVE  RetrieverInv'
<1>1. /\ TypesInv /\ ViewInv(p) /\ WriterInv(p) /\ ReinforceInv(p) /\ ReceiptsInv
      /\ call[p].stage = "written" /\ durable' = Len(log)
      /\ view' = [view EXCEPT ![p] = log]
      /\ UNCHANGED <<log, lease, retriever, services, receipts>>
  BY DEF RetrieverInv, CommitSynced, Persist, processes
<1>2. call[p] # NoCall /\ lease = p /\ p \in handles
  BY <1>1 DEF WriterInv, NoCall
<1>3. handles' = handles
  BY <1>2 DEF CommitSynced, Persist
<1>4. Len(log) \in Nat /\ Len(view[p]) \in Nat /\ CommitsInv(log)
  BY <1>1, Lengths DEF TypesInv
<1>5. view'[p] = log /\ Begins(log, log) /\ Begins(view[p], log)
  BY <1>1, <1>2, <1>4, BeginsSelf DEF TypesInv, WriterInv
<1>6. /\ call' \in [Proc -> Calls]
      /\ call'[p] = NoCall
           \/ (call'[p].stage = "committed" /\ call'[p].name = call[p].name
               /\ (call[p].name = "reinforce" =>
                     call'[p].passage = call[p].passage /\ call'[p].polarity = call[p].polarity
                     /\ call'[p].count = call[p].count))
      /\ \A q \in Proc \ {p} : call'[q] = call[q]
  <2> DEFINE after == IF call[p].name = "put_atom" THEN NoCall
                      ELSE [call[p] EXCEPT !.stage = "committed"]
  <2>1. call' = [call EXCEPT ![p] = after]
    BY DEF CommitSynced
  <2>2. call[p] \in Calls
    BY <1>1 DEF TypesInv
  <2>3. /\ after \in Calls
        /\ after = NoCall
             \/ (after.stage = "committed" /\ after.name = call[p].name
                 /\ (call[p].name = "reinforce" =>
                     after.passage = call[p].passage /\ after.polarity = call[p].polarity
                     /\ after.count = call[p].count))
    BY <2>2, <1>2 DEF Calls
  <2> HIDE DEF after
  <2> QED
    BY <1>1, <2>1, <2>3 DEF TypesInv
<1>7. TypesInv'
  <2>1. durable' \in 0..Len(log') /\ CommitsInv(log') /\ DOMAIN view' = Proc
    BY <1>1, <1>4 DEF TypesInv
  <2> QED
    BY <1>1, <1>3, <1>6, <2>1 DEF TypesInv
<1>8. ViewInv(p)'
  <2>1. BuiltFrom(retriever[p], log)
    BY <1>1, <1>4, <1>5, BuiltFromMore DEF WriterInv
  <2> QED
    BY <1>1, <1>2, <1>3, <1>4, <1>5, <2>1 DEF ViewInv
<1>9. call'[p].stage # "written"
  BY <1>6 DEF NoCall
<1>10. WriterInv(p)' /\ ReinforceInv(p)'
  BY <1>1, <1>2, <1>3, <1>5, <1>6, <1>9 DEF WriterInv, ReinforceInv
<1>11. ReceiptsInv'
  <2>1. BondsTo(log, durable) \subseteq BondsTo(log', durable')
    BY <1>1, <1>4, <1>5, BondsGrow DEF TypesInv
  <2> QED
    BY <1>1, <2>1, ReceiptsKept
<1>12. ASSUME NEW q \in Proc, q # p PROVE ViewInv(q)' /\ WriterInv(q)' /\ ReinforceInv(q)'
  <2>1. view'[q] = view[q] /\ retriever'[q] = retriever[q] /\ call'[q] = call[q] /\ lease # q
    BY <1>1, <1>2, <1>6, <1>12 DEF TypesInv
  <2> QED
    BY <1>1, <1>3, <1>4, <1>5, <2>1, OthersKept
<1> QED
  BY <1>7, <1>8, <1>10, <1>11, <1>12 DEF RetrieverInv

LEMMA AcknowledgeStep ==
    ASSUME RetrieverInv, NEW p \in Proc, Acknowledge(p), UNCHANGED processes
    PROVE  RetrieverInv'
<1>1. /\ TypesInv /\ ViewInv(p) /\ WriterInv(p) /\ ReinforceInv(p) /\ ReceiptsInv
      /\ call[p].stage = "committed" /\ durable' = Len(log)
      /\ call' = [call EXCEPT ![p] = NoCall]
      /\ UNCHANGED <<log, lease, view, retriever, services>>
  BY DEF RetrieverInv, Acknowledge, Persist, processes
<1>2. call[p] # NoCall /\ lease = p /\ p \in handles /\ view[p] = log
  BY <1>1 DEF WriterInv, NoCall
<1>3. handles' = handles
  BY <1>2 DEF Acknowledge, Persist
<1>4. Len(log) \in Nat /\ Len(view[p]) \in Nat /\ CommitsInv(log) /\ Begins(log, log)
  BY <1>1, Lengths, BeginsSelf DEF TypesInv
<1>5. call'[p] = NoCall /\ NoCall \in Calls /\ NoCall.stage # "written"
  BY <1>1 DEF TypesInv, Calls, NoCall
<1>6. TypesInv'
  BY <1>1, <1>3, <1>4, <1>5 DEF TypesInv
<1>7. ViewInv(p)' /\ WriterInv(p)' /\ ReinforceInv(p)'
  BY <1>1, <1>2, <1>3, <1>4, <1>5 DEF ViewInv, WriterInv, ReinforceInv
<1>8. ASSUME NEW q \in Proc, q # p PROVE ViewInv(q)' /\ WriterInv(q)' /\ ReinforceInv(q)'
  <2>1. call'[q] = call[q] /\ lease # q
    BY <1>1, <1>2, <1>8 DEF TypesInv
  <2> QED
    BY <1>1, <1>3, <1>4, <2>1, OthersKept
<1>9. BondsTo(log, durable) \subseteq BondsTo(log', durable')
  BY <1>1, <1>4, BondsGrow DEF TypesInv
<1>10. CASE call[p].name # "reinforce"
  <2>1. receipts' = receipts
    BY <1>10 DEF Acknowledge
  <2>2. ReceiptsInv'
    BY <1>1, <1>9, <2>1, ReceiptsKept
  <2> QED
    BY <1>6, <1>7, <1>8, <2>2 DEF RetrieverInv
<1>11. CASE call[p].name = "reinforce"
  <2> DEFINE r == Receipt(call[p])
             n == Len(receipts)
  <2>1. receipts' = Append(receipts, r) /\ IsSeq(receipts) /\ n \in Nat
    BY <1>1, <1>11 DEF Acknowledge, ReceiptsInv, IsSeq
  <2>2. r.passage = call[p].passage /\ r.polarity = call[p].polarity /\ r.count = call[p].count
    BY DEF Receipt
  <2>3. r.polarity \in Polarity
    <3>1. call[p] \in Calls
      BY <1>1 DEF TypesInv
    <3> QED
      BY <1>2, <1>11, <2>2, <3>1 DEF Calls
  <2> HIDE DEF r
  <2>4. /\ IsSeq(receipts') /\ Len(receipts') = n + 1 /\ receipts'[n + 1] = r
        /\ \A i \in 1..n : receipts'[i] = receipts[i]
    BY <2>1, AppendSeq
  <2>5. r.count \in parse_feedback(BondsTo(log', durable'), r.passage, r.polarity)
    BY <1>1, <1>2, <1>11, <2>2 DEF ReinforceInv
  <2>6. \A i \in 1..n : receipts[i].passage = r.passage /\ receipts[i].polarity = r.polarity
                           => receipts[i].count < r.count
    BY <1>1, <1>2, <1>11, <2>2 DEF ReinforceInv
  <2>7. \A i \in 1..n :
          /\ receipts[i].polarity \in Polarity
          /\ receipts[i].count \in
                parse_feedback(BondsTo(log', durable'), receipts[i].passage, receipts[i].polarity)
    BY <1>1, <1>9, ParseGrows DEF ReceiptsInv
  <2>8. \A i, j \in 1..n : i < j /\ receipts[i].passage = receipts[j].passage
                                 /\ receipts[i].polarity = receipts[j].polarity
                              => receipts[i].count < receipts[j].count
    BY <1>1 DEF ReceiptsInv
  <2> HIDE DEF n
  <2>9. \A i \in 1..(n + 1) : i \in 1..n \/ i = n + 1
    BY <2>1
  <2>10. \A i, j \in 1..(n + 1) : i < j => i \in 1..n /\ (j \in 1..n \/ j = n + 1)
    BY <2>1
  <2>11. \A i \in 1..(n + 1) :
           /\ receipts'[i].polarity \in Polarity
           /\ receipts'[i].count \in
                 parse_feedback(BondsTo(log', durable'), receipts'[i].passage, receipts'[i].polarity)
    BY <2>3, <2>4, <2>5, <2>7, <2>9
  <2>12. \A i, j \in 1..(n + 1) : i < j /\ receipts'[i].passage = receipts'[j].passage
                                 /\ receipts'[i].polarity = receipts'[j].polarity
                              => receipts'[i].count < receipts'[j].count
    BY <2>4, <2>6, <2>8, <2>10
  <2>13. ReceiptsInv'
    BY <2>4, <2>11, <2>12 DEF ReceiptsInv
  <2> QED
    BY <1>6, <1>7, <1>8, <2>13 DEF RetrieverInv
<1> QED
  BY <1>10, <1>11

LEMMA RetractStep ==
    ASSUME RetrieverInv, NEW p \in Proc, Retract(p), Unseen(p), UNCHANGED processes
    PROVE  RetrieverInv'
<1> DEFINE n == Len(view[p])
<1>1. /\ TypesInv /\ ViewInv(p) /\ WriterInv(p) /\ ReceiptsInv
      /\ call[p].stage = "written" /\ log' = view[p] /\ durable' = n
      /\ call' = [call EXCEPT ![p] = NoCall]
      /\ UNCHANGED <<lease, handles, view, retriever, services, receipts>>
  BY DEF RetrieverInv, Retract, processes
<1>2. call[p] # NoCall /\ lease = p /\ p \in handles
  BY <1>1 DEF WriterInv, NoCall
<1>3. /\ Len(log) \in Nat /\ n \in Nat /\ CommitsInv(log) /\ CommitsInv(view[p]) /\ IsSeq(log)
      /\ Len(log) = n + 1 /\ durable \in 0..n /\ Begins(view[p], log)
      /\ BuiltFrom(retriever[p], view[p])
  <2>1. Len(log) \in Nat /\ n \in Nat /\ IsSeq(log)
    BY <1>1, Lengths
  <2> QED
    BY <1>1, <1>2, <2>1 DEF TypesInv, ViewInv, WriterInv
<1>4. Begins(view[p], view[p])
  BY <1>3, BeginsSelf
<1>5. /\ call' \in [Proc -> Calls] /\ call'[p] = NoCall
      /\ \A q \in Proc \ {p} : call'[q] = call[q]
  BY <1>1 DEF TypesInv, Calls
<1>6. NoCall.stage # "written"
  BY DEF NoCall
<1>7. TypesInv'
  <2>1. n \in 0..n
    BY <1>3
  <2> QED
    BY <1>1, <1>3, <1>5, <2>1 DEF TypesInv
<1>8. ViewInv(p)' /\ WriterInv(p)' /\ ReinforceInv(p)'
  BY <1>1, <1>3, <1>4, <1>5, <1>6 DEF ViewInv, WriterInv, ReinforceInv
<1>9. ReceiptsInv'
  <2>1. BondsTo(log, durable) = BondsTo(view[p], durable)
    BY <1>3, BuiltSame
  <2>2. BondsTo(view[p], durable) \subseteq BondsTo(view[p], n)
    BY <1>3, <1>4, BondsGrow
  <2> QED
    BY <1>1, <2>1, <2>2, ReceiptsKept
<1>10. ASSUME NEW q \in Proc, q # p PROVE ViewInv(q)' /\ WriterInv(q)' /\ ReinforceInv(q)'
  <2>1. ViewInv(q) /\ WriterInv(q) /\ IsSeq(view[q]) /\ Len(view[q]) \in Nat
    BY <1>1, Lengths DEF RetrieverInv
  <2>2. lease # q /\ call[q] = NoCall /\ call'[q] = NoCall
    BY <1>2, <1>5, <1>10, <2>1 DEF WriterInv
  <2>3. WriterInv(q)' /\ ReinforceInv(q)'
    BY <1>1, <1>6, <2>2 DEF WriterInv, ReinforceInv
  <2>4. ASSUME q \in services PROVE Begins(view[q], view[p]) /\ BuiltFrom(retriever[q], view[p])
    <3>1. Begins(view[q], log) /\ BuiltFrom(retriever[q], log)
      BY <2>1, <2>4 DEF ViewInv
    <3>2. view[q] # log /\ retriever[q].snapshot_sequence # next_sequence(log)
      BY <1>10, <2>4 DEF Unseen
    <3>3. Len(view[q]) # Len(log)
      BY <1>3, <2>1, <3>1, <3>2 DEF Begins, IsSeq
    <3>4. Len(view[q]) <= n
      BY <1>3, <2>1, <3>1, <3>3 DEF Begins
    <3>5. Begins(view[q], view[p])
      BY <1>3, <2>1, <3>1, <3>4 DEF Begins
    <3>6. PICK k \in 0..Len(log) : retriever[q] = Built(log, k)
      BY <3>1 DEF BuiltFrom
    <3>7. k # Len(log)
      BY <1>3, <3>2, <3>6, NextSequence, SequenceBuilt DEF Built
    <3>8. k \in 0..n
      BY <1>3, <3>6, <3>7
    <3>9. retriever[q] = Built(view[p], k)
      BY <1>3, <3>6, <3>8, BuiltSame
    <3> QED
      BY <3>5, <3>8, <3>9 DEF BuiltFrom
  <2>5. ViewInv(q)'
    BY <1>1, <2>1, <2>4 DEF ViewInv
  <2> QED
    BY <2>3, <2>5
<1> QED
  BY <1>7, <1>8, <1>9, <1>10 DEF RetrieverInv

LEMMA PowerStep == ASSUME RetrieverInv, PowerLossR PROVE RetrieverInv'
<1>1. PICK n \in durable..Len(log) : log' = SubSeq(log, 1, n) /\ durable' = n
  BY DEF PowerLossR, PowerLoss
<1>2. /\ TypesInv /\ ReceiptsInv
      /\ lease' = Nobody /\ handles' = {} /\ view' = [p \in Proc |-> <<>>]
      /\ retriever' = [p \in Proc |-> DefaultIndex] /\ call' = [p \in Proc |-> NoCall]
      /\ UNCHANGED <<services, receipts>>
  BY DEF RetrieverInv, PowerLossR, PowerLoss
<1>3. CommitsInv(log) /\ IsSeq(log) /\ Len(log) \in Nat /\ durable \in 0..Len(log) /\ n \in 0..Len(log)
  BY <1>1, <1>2 DEF TypesInv, CommitsInv, IsSeq
<1>4. CommitsInv(log') /\ Len(log') = n /\ Begins(log', log)
  BY <1>1, <1>3, CommitsPrefix
<1>5. TypesInv'
  <2>1. NoCall \in Calls /\ n \in 0..n
    BY <1>3 DEF Calls
  <2> QED
    BY <1>1, <1>2, <1>4, <2>1 DEF TypesInv
<1>6. ReceiptsInv'
  <2>1. BondsTo(log', n) = BondsTo(log, n) /\ Begins(log, log)
    BY <1>3, <1>4, BuiltSame, BeginsSelf
  <2>2. BondsTo(log, durable) \subseteq BondsTo(log, n)
    BY <1>1, <1>3, <2>1, BondsGrow
  <2> QED
    BY <1>1, <1>2, <2>1, <2>2, ReceiptsKept
<1>7. ASSUME NEW p \in Proc PROVE ViewInv(p)' /\ WriterInv(p)' /\ ReinforceInv(p)'
  <2>1. Len(log') \in Nat /\ Len(<<>>) \in Nat
    BY <1>3, <1>4
  <2>2. BuiltFrom(DefaultIndex, log') /\ BuiltFrom(DefaultIndex, <<>>) /\ Begins(<<>>, log')
    BY <2>1, DefaultBuilt, BeginsEmpty
  <2>3. NoCall.stage # "written"
    BY DEF NoCall
  <2> QED
    BY <1>2, <2>2, <2>3, NoCommits, ProcAssumption DEF ViewInv, WriterInv, ReinforceInv
<1> QED
  BY <1>5, <1>6, <1>7 DEF RetrieverInv

-----------------------------------------------------------------------------
(* The theorems *)

(* The invariant holds in every state, unless a commit is taken back that  *)
(* a service has seen.                                                     *)
THEOREM RetrieverInvariantHolds == ASSUME ~SeenMayFail PROVE SpecR => []RetrieverInv
<1>1. InitR => RetrieverInv
  <2> SUFFICES ASSUME InitR PROVE RetrieverInv
    OBVIOUS
  <2>1. /\ log = <<>> /\ durable = 0 /\ lease = Nobody /\ handles = {} /\ receipts = <<>>
        /\ view = [p \in Proc |-> <<>>] /\ retriever = [p \in Proc |-> DefaultIndex]
        /\ call = [p \in Proc |-> NoCall] /\ services \subseteq Proc
    BY DEF InitR, Init
  <2>2. Len(<<>>) = 0 /\ IsSeq(<<>>)
    BY DEF IsSeq
  <2>3. TypesInv
    BY <2>1, <2>2, NoCommits DEF TypesInv, Calls
  <2>4. ReceiptsInv
    BY <2>1, <2>2 DEF ReceiptsInv
  <2>5. BuiltFrom(DefaultIndex, <<>>) /\ Begins(<<>>, <<>>) /\ NoCall.stage # "written"
    BY <2>2, DefaultBuilt, BeginsEmpty DEF NoCall
  <2>6. ASSUME NEW p \in Proc PROVE ViewInv(p) /\ WriterInv(p) /\ ReinforceInv(p)
    BY <2>1, <2>5, NoCommits, ProcAssumption DEF ViewInv, WriterInv, ReinforceInv
  <2> QED
    BY <2>3, <2>4, <2>6 DEF RetrieverInv
<1>2. RetrieverInv /\ [NextR]_vars_r => RetrieverInv'
  <2> SUFFICES ASSUME RetrieverInv, [NextR]_vars_r PROVE RetrieverInv'
    OBVIOUS
  <2>1. CASE UNCHANGED vars_r
    BY <2>1 DEF vars_r, vars, processes, RetrieverInv, TypesInv, ReceiptsInv, ViewInv, WriterInv,
                ReinforceInv
  <2>2. ASSUME NEW p \in Proc, Operation(p), UNCHANGED services PROVE RetrieverInv'
    BY <2>2, RetrieveStep, PutAtomStep, RememberStep, ReinforceStep DEF Operation
  <2>3. ASSUME NEW p \in Proc, UNCHANGED processes,
               \/ Open(p) \/ ScanLog(p) \/ CloseHandle(p)
               \/ CommitSynced(p) \/ Retract(p) \/ Acknowledge(p) \/ AcknowledgeFault(p)
        PROVE  RetrieverInv'
    <3>1. Retract(p) => Unseen(p)
      BY DEF Retract
    <3> QED
      BY <2>3, <3>1, OpenStep, ScanStep, CloseStep, SyncedStep, RetractStep, AcknowledgeStep, FaultStep
  <2> QED
    BY <2>1, <2>2, <2>3, ExitStep, PowerStep DEF NextR
<1> QED
  BY <1>1, <1>2, PTL DEF SpecR

(* A derived index is never used for commits it was not built from,        *)
(* although its cache is keyed by the sequence number alone.               *)
THEOREM SpecIndexIsCurrent == ASSUME ~SeenMayFail PROVE SpecR => []IndexIsCurrent
<1>1. RetrieverInv => IndexIsCurrent
  BY IndexCurrent DEF RetrieverInv, IndexIsCurrent
<1> QED
  BY <1>1, RetrieverInvariantHolds, PTL

(* No acknowledged reinforcement is lost, counted twice, or left out of    *)
(* the count of a later writer.                                            *)
THEOREM SpecReinforcementsCounted == ASSUME ~SeenMayFail PROVE SpecR => []ReinforcementsCounted
<1>1. RetrieverInv => ReinforcementsCounted
  <2> SUFFICES ASSUME RetrieverInv, NEW i \in 1..Len(receipts)
               PROVE  receipts[i].count
                        <= feedback_count(bonds_of(log), receipts[i].passage, receipts[i].polarity)
    BY DEF ReinforcementsCounted, RetrieverInv, ReceiptsInv
  <2> DEFINE passage == receipts[i].passage
             polarity == receipts[i].polarity
             k == feedback_count(bonds_of(log), passage, polarity)
  <2>1. /\ CommitsInv(log) /\ IsSeq(log) /\ Len(log) \in Nat /\ durable \in 0..Len(log)
        /\ Begins(log, log) /\ polarity \in Polarity
        /\ receipts[i].count \in parse_feedback(BondsTo(log, durable), passage, polarity)
    BY BeginsSelf DEF RetrieverInv, TypesInv, CommitsInv, IsSeq, ReceiptsInv
  <2>2. bonds_of(log) = BondsTo(log, Len(log)) /\ BondsTo(log, durable) \subseteq BondsTo(log, Len(log))
    BY <2>1, NextSequence, BondsGrow
  <2>3. NoGaps(bonds_of(log))
    BY <2>1, <2>2 DEF CommitsInv
  <2>4. k \in Nat /\ parse_feedback(bonds_of(log), passage, polarity) = 1..k
    BY <2>1, <2>3, NoGapsAll
  <2>5. receipts[i].count \in 1..k
    BY <2>1, <2>2, <2>4, ParseGrows
  <2> HIDE DEF k
  <2>6. receipts[i].count <= k
    BY <2>4, <2>5
  <2> QED
    BY <2>6 DEF k
<1> QED
  BY <1>1, RetrieverInvariantHolds, PTL

(* The numbers of the reinforcements in every view are 1 up to the count.  *)
THEOREM SpecHistoryIsTheCounter == ASSUME ~SeenMayFail PROVE SpecR => []HistoryIsTheCounter
<1>1. RetrieverInv => HistoryIsTheCounter
  <2> SUFFICES ASSUME RetrieverInv, NEW p \in Proc PROVE NoGaps(bonds_of(view[p]))
    BY DEF HistoryIsTheCounter, NoGaps
  <2>1. CommitsInv(view[p]) /\ IsSeq(view[p]) /\ Len(view[p]) \in 0..Len(view[p])
    <3>1. CommitsInv(view[p])
      BY DEF RetrieverInv, ViewInv
    <3>2. IsSeq(view[p]) /\ Len(view[p]) \in Nat
      BY <3>1 DEF CommitsInv, IsSeq
    <3> QED
      BY <3>1, <3>2
  <2>2. bonds_of(view[p]) = BondsTo(view[p], Len(view[p]))
    BY <2>1, NextSequence
  <2> QED
    BY <2>1, <2>2 DEF CommitsInv
<1> QED
  BY <1>1, RetrieverInvariantHolds, PTL

(* A step of the retriever is a step of the store as CausalLog describes   *)
(* it, or takes back the commit of a writer whose sync has failed.         *)
THEOREM SpecKeepsCausalLog ==
    ASSUME ~SeenMayFail PROVE SpecR => [][Next \/ \E p \in Proc : Retract(p)]_vars
<1>1. RetrieverInv /\ [NextR]_vars_r => [Next \/ \E p \in Proc : Retract(p)]_vars
  <2> SUFFICES ASSUME RetrieverInv, NextR PROVE [Next \/ \E p \in Proc : Retract(p)]_vars
    BY DEF vars_r, vars
  <2>1. TypesInv /\ CommitsInv(log) /\ IsSeq(log) /\ Len(log) \in Nat
    BY DEF RetrieverInv, TypesInv, CommitsInv, IsSeq
  <2>2. ASSUME NEW commit, lease # Nobody, log' = Append(log, commit),
               UNCHANGED <<lease, handles, durable, view>>
        PROVE  Extend
    <3>1. /\ IsSeq(log') /\ Len(log') = Len(log) + 1
          /\ \A i \in 1..Len(log) : log'[i] = log[i]
      BY <2>1, <2>2, AppendSeq
    <3>2. Len(log) \in 0..Len(log) /\ Len(log) \in 0..Len(log')
      BY <2>1, <3>1
    <3> DEFINE s == SubSeq(log, 1, Len(log))
               t == SubSeq(log', 1, Len(log))
    <3>3. /\ IsSeq(s) /\ Len(s) = Len(log) /\ \A i \in 1..Len(log) : s[i] = log[i]
          /\ IsSeq(t) /\ Len(t) = Len(log) /\ \A i \in 1..Len(log) : t[i] = log'[i]
      BY <2>1, <3>1, <3>2, PrefixSeq
    <3> HIDE DEF s, t
    <3>4. s = t
      BY <3>1, <3>3 DEF IsSeq
    <3> QED
      BY <2>1, <2>2, <3>1, <3>4 DEF Extend, IsPrefix, s, t
  <2>3. ASSUME NEW p \in Proc, NEW atoms, NEW bonds, NEW operation, ReadyWriter(p),
               commit_cell(p, atoms, bonds, operation)
        PROVE  Extend \/ UNCHANGED vars
    <3>1. lease # Nobody
      BY <2>3, ProcAssumption DEF ReadyWriter
    <3> QED
      BY <2>2, <2>3, <3>1 DEF commit_cell, vars
  <2>4. ASSUME NEW p \in Proc, Operation(p) PROVE Extend \/ UNCHANGED vars
    <3>1. CASE retrieve(p)
      BY <3>1 DEF retrieve
    <3>2. ASSUME NEW id \in Atoms, put_atom(p, id) PROVE Extend
      <4>1. lease # Nobody
        BY <3>2, ProcAssumption DEF put_atom, ReadyWriter
      <4> QED
        BY <2>2, <3>2, <4>1 DEF put_atom
    <3>3. ASSUME NEW document \in Documents, remember(p, document) PROVE Extend \/ UNCHANGED vars
      BY <2>3, <3>3 DEF remember
    <3>4. ASSUME NEW passage \in Atoms, NEW polarity \in Polarity, reinforce(p, passage, polarity)
          PROVE  Extend \/ UNCHANGED vars
      BY <2>3, <3>4 DEF reinforce
    <3> QED
      BY <2>4, <3>1, <3>2, <3>3, <3>4 DEF Operation
  <2>5. ASSUME NEW p \in Proc, ScanLog(p) PROVE Observe(p) \/ UNCHANGED vars
    <3>1. ViewInv(p) /\ WriterInv(p) /\ Len(view[p]) \in Nat
      BY <2>1, Lengths DEF RetrieverInv
    <3>2. /\ call[p] = NoCall /\ NoCall.stage # "written" /\ (p \in handles => p \in services)
          /\ handles' = handles \cup {p} /\ view' = [view EXCEPT ![p] = log]
          /\ UNCHANGED <<lease, log, durable>>
      BY <2>5 DEF ScanLog, NoCall
    <3>3. CASE lease = p /\ p \in handles
      <4>1. view[p] = log
        BY <3>1, <3>2, <3>3 DEF WriterInv
      <4>2. view' = view /\ handles' = handles
        BY <2>1, <3>2, <3>3, <4>1 DEF TypesInv
      <4> QED
        BY <3>2, <4>2 DEF vars
    <3>4. CASE ~(lease = p /\ p \in handles)
      <4>1. Len(view[p]) <= Len(log)
        BY <2>1, <3>1, <3>2 DEF ViewInv, Begins
      <4>2. Len(log) \in Len(view[p])..Len(log) /\ Len(log) \in 0..Len(log)
        BY <2>1, <3>1, <4>1
      <4>3. SubSeq(log, 1, Len(log)) = log
        <5>1. /\ IsSeq(SubSeq(log, 1, Len(log))) /\ Len(SubSeq(log, 1, Len(log))) = Len(log)
              /\ \A i \in 1..Len(log) : SubSeq(log, 1, Len(log))[i] = log[i]
          BY <2>1, <4>2, PrefixSeq
        <5> QED
          BY <2>1, <5>1 DEF IsSeq
      <4>4. \E n \in Len(view[p])..Len(log) : view' = [view EXCEPT ![p] = SubSeq(log, 1, n)]
        BY <3>2, <4>2, <4>3
      <4> QED
        BY <3>2, <3>4, <4>4 DEF Observe
    <3> QED
      BY <3>3, <3>4
  <2>6. ASSUME NEW p \in Proc,
               \/ Open(p) \/ ScanLog(p) \/ CloseHandle(p)
               \/ CommitSynced(p) \/ Retract(p) \/ Acknowledge(p) \/ AcknowledgeFault(p)
        PROVE  Next \/ UNCHANGED vars \/ Retract(p)
    BY <2>5, <2>6 DEF Open, CloseHandle, CommitSynced, Acknowledge, AcknowledgeFault, Next
  <2>7. ASSUME NEW p \in Proc, Exit(p) PROVE Next
    BY <2>7 DEF Exit, Next
  <2>8. PowerLossR => Next
    BY DEF PowerLossR, Next
  <2> QED
    BY <2>4, <2>6, <2>7, <2>8 DEF NextR, Next
<1> QED
  BY <1>1, RetrieverInvariantHolds, PTL DEF SpecR
=============================================================================
