---------------------------- MODULE PacketProofs ----------------------------
(***************************************************************************)
(* Proofs about the field of RetrievalField and the packet that a query    *)
(* makes of it, for every graph, cues, query, text and valid               *)
(* configuration.                                                          *)
(***************************************************************************)
EXTENDS Packet, DataLemmas

MinimumAssumed == \A in \in Inputs : in.config.minimum_activation > 0

-----------------------------------------------------------------------------
(* Lanes and nodes *)

Predecessors == {NoPredecessor} \cup (Nat \X Nat)
Signals == [activation : Nat, strongest_signal : Nat, predecessor : Predecessors]
LaneMaps == UNION {[lanes -> Signals] : lanes \in SUBSET (1..Len(cues))}

NodesTyped(map) ==
    /\ IsFiniteSet(DOMAIN map) /\ DOMAIN map \subseteq Nat
    /\ \A n \in DOMAIN map : map[n].signals \in LaneMaps

LEMMA InputTyped ==
    ASSUME input \in Inputs
    PROVE  /\ arcs \in Seq(Arcs) /\ cues \in Seq(Cues)
           /\ validate(config)
           /\ Len(arcs) \in Nat /\ Len(cues) \in Nat /\ Len(cues) <= config.node_budget
           /\ \A i \in 1..Len(arcs) :
                 /\ arcs[i].from \in Nat /\ arcs[i].to \in Nat
                 /\ arcs[i].edge \in Nat /\ arcs[i].conductance \in 1..CONDUCTANCE_LIMIT
           /\ \A i \in 1..Len(cues) : cues[i].node \in Nat /\ cues[i].activation \in Nat
<1>1. /\ arcs \in Seq(Arcs) /\ cues \in Seq(Cues)
      /\ validate(config) /\ Len(cues) <= config.node_budget
  BY InputAssumption DEF arcs, cues, config
<1>2. /\ \A i \in 1..Len(arcs) : arcs[i] \in Arcs
      /\ \A i \in 1..Len(cues) : cues[i] \in Cues
  BY <1>1
<1>3. Len(arcs) \in Nat /\ Len(cues) \in Nat
  BY <1>1
<1>4. \A arc \in Arcs : /\ arc.from \in Nat /\ arc.to \in Nat
                       /\ arc.edge \in Nat /\ arc.conductance \in 1..CONDUCTANCE_LIMIT
  BY DEF Arcs
<1>5. \A cue \in Cues : cue.node \in Nat /\ cue.activation \in Nat
  BY DEF Cues
<1> QED
  BY <1>1, <1>2, <1>3, <1>4, <1>5

LEMMA ConfigTyped ==
    ASSUME input \in Inputs
    PROVE  /\ config.max_depth \in Nat \ {0}
           /\ config.frontier_capacity \in Nat \ {0} /\ config.node_budget \in Nat
           /\ config.frontier_capacity <= config.node_budget
           /\ config.propagation_per_mille \in Nat /\ config.minimum_activation \in Nat
           /\ PER_MILLE \in Nat \ {0}
<1>1. validate(config)
  BY InputTyped
<1>2. PER_MILLE \in Nat \ {0}
  BY DEF PER_MILLE
<1>3. config.propagation_per_mille \in Nat /\ config.minimum_activation \in Nat
  BY <1>1, <1>2 DEF validate
<1>4. config.max_depth \in Nat \ {0} /\ config.frontier_capacity \in Nat \ {0}
  BY <1>1 DEF validate
<1>5. config.node_budget \in config.frontier_capacity..BUDGET_LIMIT
  BY <1>1 DEF validate
<1>6. config.node_budget \in Nat /\ config.frontier_capacity <= config.node_budget
  BY <1>4, <1>5
<1> QED
  BY <1>2, <1>3, <1>4, <1>6

LEMMA LanesFinite ==
    ASSUME input \in Inputs, NEW signals \in LaneMaps
    PROVE  /\ DOMAIN signals \subseteq 1..Len(cues) /\ signals \in [DOMAIN signals -> Signals]
           /\ IsFiniteSet(DOMAIN signals) /\ Cardinality(DOMAIN signals) \in Nat
<1>0. DOMAIN signals \subseteq 1..Len(cues) /\ signals \in [DOMAIN signals -> Signals]
  BY DEF LaneMaps
<1>1. Len(cues) \in Nat
  BY InputTyped
<1>2. IsFiniteSet(1..Len(cues))
  BY <1>1, LastPlacePicks
<1> QED
  BY <1>0, <1>2, FS_Subset, FS_CardinalityType

LEMMA TotalTyped ==
    ASSUME input \in Inputs, NEW signals \in LaneMaps
    PROVE  total_activation(signals) \in Nat
<1> DEFINE S == DOMAIN signals
           pick == AnyMember(S)
           step == [x \in S \X Nat |-> signals[x[1]].activation + x[2]]
           Is(f) == f = [s \in SUBSET S |->
                            IF s = {} THEN 0
                            ELSE LET x == CHOOSE x \in s : TRUE
                                 IN  signals[x].activation + f[s \ {x}]]
           total == CHOOSE f : Is(f)
<1>0. \A cue \in S : signals[cue].activation \in Nat
  BY LanesFinite DEF Signals
<1>1. total_activation(signals) = total[S]
  BY DEF total_activation, MapThenSumSet, MapThenFoldSet
<1>2. IsFiniteSet(S) /\ Picks(pick, S)
  BY LanesFinite, AnyMemberPicks
<1>3. step \in [S \X Nat -> Nat]
  BY <1>0
<1>4. \E f : Is(f)
  <2> HIDE DEF step, Is, pick, S
  <2>1. PICK f : IsIteration(f, S, Nat, pick, 0, step)
    BY <1>2, <1>3, IterationExists
  <2>2. \A s \in SUBSET S : f[s] = IF s = {} THEN 0
                            ELSE LET x == CHOOSE x \in s : TRUE
                                 IN  signals[x].activation + f[s \ {x}]
    <3> SUFFICES ASSUME NEW s \in SUBSET S, s # {}
                 PROVE  LET x == CHOOSE x \in s : TRUE
                        IN  f[s] = signals[x].activation + f[s \ {x}]
      BY <2>1 DEF IsIteration
    <3> DEFINE x == CHOOSE x \in s : TRUE
    <3>1. x \in S /\ pick[s] = x
      BY DEF pick, AnyMember
    <3> HIDE DEF x
    <3>2. f[s] = step[<<x, f[s \ {x}]>>] /\ <<x, f[s \ {x}]>> \in S \X Nat
      BY <2>1, <3>1 DEF IsIteration
    <3>3. f[s] = signals[x].activation + f[s \ {x}]
      BY <3>2 DEF step
    <3> QED
      BY <3>3 DEF x
  <2>3. f = [s \in SUBSET S |->
                            IF s = {} THEN 0
                            ELSE LET x == CHOOSE x \in s : TRUE
                                 IN  signals[x].activation + f[s \ {x}]]
    BY <2>1, <2>2 DEF IsIteration
  <2> QED
    BY <2>3 DEF Is
<1>5. Is(total)
  BY <1>4
<1> HIDE DEF total
<1>6. \A s \in SUBSET S : s # {} /\ total[s \ {pick[s]}] \in Nat => total[s] \in Nat
  <2> SUFFICES ASSUME NEW s \in SUBSET S, s # {}, total[s \ {pick[s]}] \in Nat
               PROVE  total[s] \in Nat
    OBVIOUS
  <2>1. pick[s] \in S /\ pick[s] = CHOOSE x \in s : TRUE
    BY DEF AnyMember
  <2>2. total[s] = signals[pick[s]].activation + total[s \ {pick[s]}]
    BY <1>5, <2>1
  <2> QED
    BY <1>0, <2>1, <2>2
<1>7. total[{}] \in Nat
  BY <1>5
<1> HIDE DEF pick, S, Is, step
<1>8. total[S] \in Nat
  BY <1>2, <1>6, <1>7, IterationStays
<1> QED
  BY <1>1, <1>8

-----------------------------------------------------------------------------
(* Orders *)

LEMMA RankedMembers ==
    ASSUME input \in Inputs, NEW map, NodesTyped(map)
    PROVE  /\ ranked(map) \in Seq(DOMAIN map) /\ Len(ranked(map)) = Cardinality(DOMAIN map)
           /\ \A n \in DOMAIN map : \E i \in 1..Len(ranked(map)) : ranked(map)[i] = n
<1> DEFINE S == DOMAIN map
           lanes == [n \in S |-> Cardinality(DOMAIN map[n].signals)]
           total == [n \in S |-> total_activation(map[n].signals)]
           before(m, n) == \/ lanes[m] > lanes[n]
                           \/ lanes[m] = lanes[n] /\ total[m] > total[n]
                           \/ lanes[m] = lanes[n] /\ total[m] = total[n] /\ m < n
           ahead(m, n) ==
               \/ Cardinality(DOMAIN map[m].signals) > Cardinality(DOMAIN map[n].signals)
               \/ /\ Cardinality(DOMAIN map[m].signals) = Cardinality(DOMAIN map[n].signals)
                  /\ total_activation(map[m].signals) > total_activation(map[n].signals)
               \/ /\ Cardinality(DOMAIN map[m].signals) = Cardinality(DOMAIN map[n].signals)
                  /\ total_activation(map[m].signals) = total_activation(map[n].signals)
                  /\ m < n
           R == {x \in S \X S : before(x[1], x[2])}
           q == ranked(map)
<1>1. lanes \in [S -> Nat] /\ total \in [S -> Nat] /\ S \subseteq Nat /\ IsFiniteSet(S)
  BY LanesFinite, TotalTyped DEF NodesTyped
<1>2. Orders(R, S)
  <2> HIDE DEF lanes, total, S
  <2>1. \A x, y \in S : <<x, y>> \in R <=> before(x, y)
    OBVIOUS
  <2> HIDE DEF R
  <2>2. \A x \in S : ~before(x, x)
    BY <1>1
  <2>3. \A x, y \in S : x # y => before(x, y) \/ before(y, x)
    BY <1>1
  <2>4. \A x, y, z \in S : before(x, y) /\ before(y, z) => before(x, z)
    BY <1>1
  <2> HIDE DEF before
  <2> QED
    BY <2>1, <2>2, <2>3, <2>4 DEF Orders
<1>3. q = [k \in 1..Cardinality(S) |->
             CHOOSE x \in S : Cardinality({y \in S : ahead(y, x)}) = k - 1]
  BY DEF ranked, InOrder
<1>4. \A x \in S : Place(R, S, x) = Cardinality({y \in S : ahead(y, x)})
  BY DEF Place
<1>5. ASSUME NEW k \in 1..Cardinality(S), NEW x \in S, Place(R, S, x) = k - 1
      PROVE  q[k] \in S /\ Place(R, S, q[k]) = k - 1
  <2> HIDE DEF R, lanes, total, q, ahead
  <2> QED
    BY <1>3, <1>4, <1>5
<1>6. q = [k \in 1..Cardinality(S) |-> q[k]]
  BY <1>3
<1> HIDE DEF R, q, S
<1>7. InOrderOf(q, S, R)
  BY <1>1, <1>2, <1>5, <1>6, PlacesGiveOrder
<1> QED
  BY <1>7 DEF InOrderOf, q, S

ArcsFrom(from) == {arcs[i] : i \in {i \in 1..Len(arcs) : arcs[i].from = from}}

LEMMA AdjacencyArcs ==
    ASSUME input \in Inputs, NEW from
    PROVE  /\ adjacency(from) \in Seq(ArcsFrom(from))
           /\ \A i \in 1..Len(arcs) : arcs[i].from = from =>
                  \E j \in 1..Len(adjacency(from)) :
                      /\ adjacency(from)[j].to = arcs[i].to
                      /\ adjacency(from)[j].edge = arcs[i].edge
<1> DEFINE mine == {i \in 1..Len(arcs) : arcs[i].from = from}
           same(i, j) == arcs[i].edge = arcs[j].edge /\ arcs[i].to = arcs[j].to
           S == {i \in mine : \A j \in mine : same(i, j) => i <= j}
           before(i, j) == \/ arcs[i].edge < arcs[j].edge
                           \/ arcs[i].edge = arcs[j].edge /\ arcs[i].to < arcs[j].to
           R == {x \in S \X S : before(x[1], x[2])}
           member(k) == CHOOSE x \in S : Cardinality({y \in S : before(y, x)}) = k - 1
           q == [k \in 1..Cardinality(S) |-> member(k)]
<1>0. adjacency(from) = [i \in 1..Len(q) |-> arcs[q[i]]]
  BY DEF adjacency, InOrder
<1>1. /\ Len(arcs) \in Nat
      /\ \A i \in mine : i \in 1..Len(arcs) /\ arcs[i].edge \in Nat /\ arcs[i].to \in Nat
  BY InputTyped
<1>2. IsFiniteSet(S)
  BY <1>1, LastPlacePicks, FS_Subset
<1>3. Orders(R, S)
  <2>1. \A x, y \in S : same(x, y) => x = y
    BY <1>1
  <2>2. \A x, y \in S : <<x, y>> \in R <=> before(x, y)
    OBVIOUS
  <2>3. \A x \in S : x \in mine
    OBVIOUS
  <2> HIDE DEF S, R, mine
  <2>4. \A x \in S : ~before(x, x)
    BY <1>1, <2>3
  <2>5. \A x, y \in S : x # y => before(x, y) \/ before(y, x)
    BY <1>1, <2>1, <2>3
  <2>6. ASSUME NEW x \in S, NEW y \in S, NEW z \in S, before(x, y), before(y, z)
        PROVE  before(x, z)
    BY <1>1, <2>3, <2>6
  <2> HIDE DEF before
  <2> QED
    BY <2>2, <2>4, <2>5, <2>6 DEF Orders
<1>4. \A x \in S : Place(R, S, x) = Cardinality({y \in S : before(y, x)})
  BY DEF Place
<1>5. ASSUME NEW k \in 1..Cardinality(S), NEW x \in S, Place(R, S, x) = k - 1
      PROVE  q[k] \in S /\ Place(R, S, q[k]) = k - 1
  <2> HIDE DEF R, S, before
  <2> QED
    BY <1>4, <1>5
<1>6. q = [k \in 1..Cardinality(S) |-> q[k]]
  <2> HIDE DEF member, S
  <2> QED
    OBVIOUS
<1>7. InOrderOf(q, S, R)
  <2> HIDE DEF q, R, S
  <2> QED
    BY <1>2, <1>3, <1>5, <1>6, PlacesGiveOrder
<1>8. \A i \in 1..Len(q) : q[i] \in mine /\ arcs[q[i]] \in ArcsFrom(from)
  <2> HIDE DEF q, R
  <2>1. \A i \in 1..Len(q) : q[i] \in S
    BY <1>7, SMTT(40) DEF InOrderOf
  <2> QED
    BY <2>1 DEF ArcsFrom
<1>9. Len(q) \in Nat
  <2> HIDE DEF q, R, S
  <2> QED
    BY <1>7 DEF InOrderOf
<1>10. adjacency(from) \in Seq(ArcsFrom(from)) /\ Len(adjacency(from)) = Len(q)
  <2> HIDE DEF q
  <2>1. adjacency(from) \in [1..Len(q) -> ArcsFrom(from)]
    BY <1>0, <1>8
  <2> QED
    BY <1>9, <2>1, FunctionIsSeq
<1>11. ASSUME NEW i \in mine
       PROVE  \E x \in S : same(i, x)
  <2> DEFINE T == {j \in mine : same(i, j)}
  <2>1. T \subseteq Nat /\ i \in T
    BY <1>1
  <2>2. PICK m \in T : \A n \in T : m <= n
    <3> HIDE DEF T
    <3> QED
      BY <2>1, LeastNatural
  <2> QED
    BY <2>2
<1>12. ASSUME NEW i \in mine
       PROVE  \E j \in 1..Len(q) : arcs[q[j]].to = arcs[i].to /\ arcs[q[j]].edge = arcs[i].edge
  <2>1. PICK x \in S : same(i, x)
    BY <1>11
  <2> HIDE DEF q, R
  <2>2. PICK j \in 1..Len(q) : q[j] = x
    BY <1>7, <2>1 DEF InOrderOf
  <2> QED
    BY <2>1, <2>2
<1> HIDE DEF q
<1> QED
  BY <1>0, <1>10, <1>12

-----------------------------------------------------------------------------
(* What an arc brings *)

LEMMA ProductTyped == ASSUME NEW a \in Nat, NEW b \in Nat PROVE a * b \in Nat
  OBVIOUS

LEMMA QuotientTyped == ASSUME NEW a \in Nat, NEW b \in Nat \ {0} PROVE a \div b \in Nat
  OBVIOUS

LEMMA RestTyped == ASSUME NEW a \in Nat, NEW b \in Nat \ {0} PROVE a % b \in Nat
  OBVIOUS

LEMMA TransmittedTyped ==
    ASSUME input \in Inputs, NEW activation \in Nat, NEW arc \in Arcs, NEW degree \in Nat \ {0}
    PROVE  transmitted(activation, arc, degree) \in Nat
<1> DEFINE gain == config.propagation_per_mille * arc.conductance
           high == activation * (gain \div PER_MILLE)
           low == (activation * (gain % PER_MILLE)) \div PER_MILLE
<1>1. config.propagation_per_mille \in Nat /\ arc.conductance \in Nat /\ PER_MILLE \in Nat \ {0}
  <2>1. arc.conductance \in 1..CONDUCTANCE_LIMIT
    BY DEF Arcs
  <2>2. arc.conductance \in Nat
    BY <2>1
  <2> QED
    BY <2>2, ConfigTyped
<1>2. gain \in Nat
  BY <1>1, ProductTyped
<1> HIDE DEF gain
<1>3. gain \div PER_MILLE \in Nat /\ gain % PER_MILLE \in Nat
  BY <1>1, <1>2, QuotientTyped, RestTyped
<1>4. high \in Nat /\ activation * (gain % PER_MILLE) \in Nat
  BY <1>3, ProductTyped
<1>5. low \in Nat
  BY <1>1, <1>4, QuotientTyped
<1> HIDE DEF high, low
<1>6. high + low \in Nat
  BY <1>4, <1>5
<1>7. (high + low) \div PER_MILLE \in Nat
  BY <1>1, <1>6, QuotientTyped
<1>8. ((high + low) \div PER_MILLE) \div degree \in Nat
  BY <1>7, QuotientTyped
<1> QED
  BY <1>8 DEF transmitted, gain, high, low

(* A lane of a node leads back to a node where it was expanded before.     *)
Comes(predecessor, n, cue, now, rank) ==
    /\ predecessor \in Nat \X Nat
    /\ <<predecessor[1], cue>> \in now
    /\ <<n, cue>> \in now => rank[<<predecessor[1], cue>>] < rank[<<n, cue>>]
    /\ \E i \in 1..Len(arcs) : /\ arcs[i].from = predecessor[1] /\ arcs[i].to = n
                               /\ arcs[i].edge = predecessor[2]

(* In a round, and in the end. *)
Arrived(signal, n, cue, now, rank) ==
    signal.strongest_signal > 0 /\ Comes(signal.predecessor, n, cue, now, rank)
Stands(signal, n, cue, now, rank) ==
    \/ signal.predecessor = NoPredecessor /\ n = cues[cue].node
    \/ Comes(signal.predecessor, n, cue, now, rank)

LEMMA AbsorbKeeps ==
    ASSUME NEW signal \in Signals, NEW activation \in Nat, NEW strongest \in Nat,
           NEW predecessor \in Predecessors,
           NEW n, NEW cue, NEW now, NEW rank
    PROVE  LET after == absorb(signal, activation, strongest, predecessor)
           IN  /\ after \in Signals
               /\ strongest > 0 /\ Comes(predecessor, n, cue, now, rank) =>
                     /\ signal = NoSignal \/ Arrived(signal, n, cue, now, rank) =>
                           Arrived(after, n, cue, now, rank)
                     /\ signal = NoSignal \/ Stands(signal, n, cue, now, rank) =>
                           Stands(after, n, cue, now, rank)
<1> DEFINE after == absorb(signal, activation, strongest, predecessor)
           stronger == strongest > signal.strongest_signal
<1>1. /\ signal.activation \in Nat /\ signal.strongest_signal \in Nat
      /\ signal.predecessor \in Predecessors
  BY DEF Signals
<1>2. /\ after.activation = signal.activation + activation
      /\ after.strongest_signal = IF stronger THEN strongest ELSE signal.strongest_signal
      /\ after.predecessor = IF stronger THEN predecessor ELSE signal.predecessor
      /\ after = [activation |-> after.activation, strongest_signal |-> after.strongest_signal,
                  predecessor |-> after.predecessor]
  BY DEF absorb
<1>3. after \in Signals
  <2> HIDE DEF after
  <2>1. /\ after.activation \in Nat /\ after.strongest_signal \in Nat
        /\ after.predecessor \in Predecessors
    BY <1>1, <1>2
  <2> QED
    BY <1>2, <2>1 DEF Signals
<1>4. signal = NoSignal => signal.strongest_signal = 0
  BY DEF NoSignal
<1> HIDE DEF after
<1>5. ASSUME strongest > 0, Comes(predecessor, n, cue, now, rank)
      PROVE  /\ signal = NoSignal \/ Arrived(signal, n, cue, now, rank) =>
                    Arrived(after, n, cue, now, rank)
             /\ signal = NoSignal \/ Stands(signal, n, cue, now, rank) =>
                    Stands(after, n, cue, now, rank)
  <2>1. CASE stronger
    BY <1>2, <1>5, <2>1 DEF Arrived, Stands
  <2>2. CASE ~stronger
    <3>1. signal # NoSignal
      BY <1>1, <1>4, <1>5, <2>2
    <3> QED
      BY <1>2, <2>2, <3>1 DEF Arrived, Stands
  <2> QED
    BY <2>1, <2>2
<1> QED
  BY <1>3, <1>5 DEF after

Reaches == UNION {[nodes -> [incoming_signals : Nat, signals : LaneMaps]] : nodes \in SUBSET Nat}

(* What a round has sent: with a least activation, every lane leads back.  *)
Sound(now, rank) ==
    {map \in Reaches :
        /\ IsFiniteSet(DOMAIN map)
        /\ MinimumAssumed =>
              \A n \in DOMAIN map : \A cue \in DOMAIN map[n].signals :
                  Arrived(map[n].signals[cue], n, cue, now, rank)}

(* What is sent along an arc, by a node that is being expanded. *)
Sent(arc, arrivals, now, rank) ==
    /\ arc \in Arcs /\ \E i \in 1..Len(arcs) : arc = arcs[i]
    /\ DOMAIN arrivals \subseteq 1..Len(cues)
    /\ \A cue \in DOMAIN arrivals :
          /\ arrivals[cue] \in Nat /\ (MinimumAssumed => arrivals[cue] > 0)
          /\ <<arc.from, cue>> \in now /\ <<arc.to, cue>> \notin now

LEMMA EmptyTyped ==
    EmptyMap \in LaneMaps /\ DOMAIN EmptyMap = {}
<1>1. EmptyMap \in [{} -> Signals] /\ DOMAIN EmptyMap = {}
  BY DEF EmptyMap
<1> QED
  BY <1>1 DEF LaneMaps

Covers(map, n, cue) == n \in DOMAIN map /\ cue \in DOMAIN map[n].signals

LEMMA ArriveCovers ==
    ASSUME NEW found, NEW arc, NEW arrivals
    PROVE  /\ \A n, cue : Covers(found, n, cue) => Covers(Arrive(found, arc, arrivals), n, cue)
           /\ \A cue \in DOMAIN arrivals : Covers(Arrive(found, arc, arrivals), arc.to, cue)
<1> DEFINE prior == IF arc.to \in DOMAIN found THEN found[arc.to]
                    ELSE [incoming_signals |-> 0, signals |-> EmptyMap]
           after == Arrive(found, arc, arrivals)
<1>1. CASE DOMAIN arrivals = {}
  BY <1>1 DEF Arrive
<1>2. CASE DOMAIN arrivals # {}
  <2>1. /\ DOMAIN after = DOMAIN found \cup {arc.to}
        /\ DOMAIN after[arc.to].signals = DOMAIN prior.signals \cup DOMAIN arrivals
        /\ \A n \in DOMAIN found : n # arc.to => after[n] = found[n]
    BY <1>2 DEF Arrive, SetOf
  <2>2. arc.to \in DOMAIN found => prior = found[arc.to]
    OBVIOUS
  <2> HIDE DEF after, prior
  <2>3. \A n, cue : Covers(found, n, cue) => Covers(after, n, cue)
    BY <2>1, <2>2 DEF Covers
  <2>4. \A cue \in DOMAIN arrivals : Covers(after, arc.to, cue)
    BY <2>1 DEF Covers
  <2> QED
    BY <2>3, <2>4 DEF after
<1> QED
  BY <1>1, <1>2

LEMMA ArriveKeeps ==
    ASSUME input \in Inputs, NEW now, NEW rank, NEW found \in Sound(now, rank),
           NEW arc, NEW arrivals, Sent(arc, arrivals, now, rank)
    PROVE  Arrive(found, arc, arrivals) \in Sound(now, rank)
<1> DEFINE to == arc.to
           D == DOMAIN arrivals
           prior == IF to \in DOMAIN found THEN found[to]
                    ELSE [incoming_signals |-> 0, signals |-> EmptyMap]
           signal(cue) ==
               IF cue \notin D THEN prior.signals[cue]
               ELSE absorb(LaneOf(prior.signals, cue), arrivals[cue], arrivals[cue],
                           <<arc.from, arc.edge>>)
           signals == [cue \in DOMAIN prior.signals \cup D |-> signal(cue)]
           reach == [incoming_signals |-> prior.incoming_signals + 1, signals |-> signals]
           after == [k \in DOMAIN found \cup {to} |-> IF k = to THEN reach ELSE found[k]]
<1>1. CASE D = {}
  BY <1>1 DEF Arrive
<1>2. CASE D # {}
  <2>1. Arrive(found, arc, arrivals) = after
    BY <1>2 DEF Arrive, SetOf
  <2>2. /\ arc.from \in Nat /\ to \in Nat /\ arc.edge \in Nat
        /\ D \subseteq 1..Len(cues)
    BY DEF Sent, Arcs
  <2>3. /\ DOMAIN found \subseteq Nat /\ IsFiniteSet(DOMAIN found)
        /\ \A n \in DOMAIN found : found[n] \in [incoming_signals : Nat, signals : LaneMaps]
    BY DEF Sound, Reaches
  <2>4. prior \in [incoming_signals : Nat, signals : LaneMaps]
    BY <2>3, EmptyTyped
  <2>5. prior.incoming_signals \in Nat /\ prior.signals \in LaneMaps
    BY <2>4
  <2>6. to \notin DOMAIN found => DOMAIN prior.signals = {}
    BY EmptyTyped
  <2>7. to \in DOMAIN found => prior = found[to]
    OBVIOUS
  <2> HIDE DEF prior
  <2>8. /\ DOMAIN prior.signals \subseteq 1..Len(cues)
        /\ \A cue \in DOMAIN prior.signals : prior.signals[cue] \in Signals
    BY <2>5, LanesFinite
  <2>9. ASSUME NEW cue \in DOMAIN signals
        PROVE  /\ signal(cue) \in Signals
               /\ MinimumAssumed => Arrived(signal(cue), to, cue, now, rank)
    <3>1. cue \in DOMAIN prior.signals =>
             (MinimumAssumed => Arrived(prior.signals[cue], to, cue, now, rank))
      BY <2>6, <2>7 DEF Sound
    <3>2. CASE cue \notin D
      BY <2>8, <3>1, <3>2
    <3>3. CASE cue \in D
      <4> DEFINE lane == LaneOf(prior.signals, cue)
                 from == <<arc.from, arc.edge>>
      <4>1. lane \in Signals /\ (cue \notin DOMAIN prior.signals => lane = NoSignal)
        BY <2>8 DEF LaneOf, NoSignal, Signals, Predecessors
      <4>2. cue \in DOMAIN prior.signals => lane = prior.signals[cue]
        BY DEF LaneOf
      <4>3. from \in Predecessors /\ arrivals[cue] \in Nat
        BY <2>2, <3>3 DEF Predecessors, Sent
      <4>4. MinimumAssumed => arrivals[cue] > 0
        BY <3>3 DEF Sent
      <4>5. Comes(from, to, cue, now, rank)
        <5>1. from \in Nat \X Nat /\ from[1] = arc.from /\ from[2] = arc.edge
          BY <2>2
        <5> HIDE DEF from
        <5> QED
          BY <3>3, <5>1 DEF Comes, Sent
      <4>6. signal(cue) = absorb(lane, arrivals[cue], arrivals[cue], from)
        BY <3>3
      <4> HIDE DEF lane, from, signal
      <4> QED
        BY <3>1, <4>1, <4>2, <4>3, <4>4, <4>5, <4>6, AbsorbKeeps
    <3> QED
      BY <3>2, <3>3
  <2>10. signals \in LaneMaps
    <3>1. DOMAIN signals \in SUBSET (1..Len(cues))
      BY <2>2, <2>8
    <3>2. signals \in [DOMAIN signals -> Signals]
      BY <2>9
    <3> HIDE DEF signals
    <3> QED
      BY <3>1, <3>2 DEF LaneMaps
  <2>11. MinimumAssumed => \A cue \in DOMAIN signals : Arrived(signals[cue], to, cue, now, rank)
    BY <2>9
  <2> HIDE DEF signals
  <2>12. reach \in [incoming_signals : Nat, signals : LaneMaps] /\ reach.signals = signals
    BY <2>5, <2>10
  <2> HIDE DEF reach
  <2>13. after \in Reaches
    <3>1. DOMAIN after \in SUBSET Nat
      BY <2>2, <2>3
    <3>2. after \in [DOMAIN after -> [incoming_signals : Nat, signals : LaneMaps]]
      BY <2>3, <2>12
    <3> HIDE DEF after
    <3> QED
      BY <3>1, <3>2 DEF Reaches
  <2>14. IsFiniteSet(DOMAIN after)
    BY <2>3, FS_AddElement
  <2>15. ASSUME MinimumAssumed, NEW n \in DOMAIN after, NEW cue \in DOMAIN after[n].signals
         PROVE  Arrived(after[n].signals[cue], n, cue, now, rank)
    <3>1. CASE n = to
      BY <2>11, <2>12, <2>15, <3>1
    <3>2. CASE n # to
      <4>1. n \in DOMAIN found /\ after[n] = found[n]
        BY <3>2
      <4> HIDE DEF after
      <4> QED
        BY <2>15, <4>1 DEF Sound
    <3> QED
      BY <3>1, <3>2
  <2> HIDE DEF after
  <2> QED
    BY <2>1, <2>13, <2>14, <2>15 DEF Sound
<1> QED
  BY <1>1, <1>2

-----------------------------------------------------------------------------
(* The invariant.  A rank says in which turn a lane was expanded: each     *)
(* lane leads back to one of a lower rank, though merges replace the       *)
(* predecessors of lanes that others were already reached from.            *)

StateMaps ==
    UNION {[nodes -> [depth : Nat, incoming_signals : Nat, signals : LaneMaps]] : nodes \in SUBSET Nat}

LanesOf(map) == UNION {{n} \X DOMAIN map[n].signals : n \in DOMAIN map}

Backwards(rank) ==
    /\ \E k \in Nat : \A x \in expanded : rank[x] \in Nat /\ rank[x] < k
    /\ candidates \in Sound(expanded, rank)
    /\ MinimumAssumed =>
          \A n \in DOMAIN states : \A cue \in DOMAIN states[n].signals :
              Stands(states[n].signals[cue], n, cue, expanded, rank)

FieldInv ==
    /\ input \in Inputs
    /\ depth \in Nat
    /\ states \in StateMaps /\ IsFiniteSet(DOMAIN states)
    /\ active \in Seq(DOMAIN states)
    /\ FieldIsBounded
    /\ expanded \subseteq LanesOf(states)
    /\ \E rank : Backwards(rank)

LEMMA StatesTyped ==
    ASSUME FieldInv, NEW n \in DOMAIN states
    PROVE  /\ n \in Nat
           /\ states[n].depth \in Nat /\ states[n].incoming_signals \in Nat
           /\ states[n].signals \in LaneMaps
           /\ DOMAIN states[n].signals \subseteq 1..Len(cues)
           /\ \A cue \in DOMAIN states[n].signals : states[n].signals[cue] \in Signals
<1>1. n \in Nat /\ states[n] \in [depth : Nat, incoming_signals : Nat, signals : LaneMaps]
  BY DEF FieldInv, StateMaps
<1>2. states[n].signals \in LaneMaps
  BY <1>1
<1> QED
  BY <1>1, <1>2, LanesFinite DEF FieldInv

(* Turns after the k-th do not disturb what was before. *)
LEMMA RankGrows ==
    ASSUME NEW before, NEW now, before \subseteq now, NEW k \in Nat,
           NEW rank, \A x \in before : rank[x] \in Nat /\ rank[x] < k,
           NEW later, \A x \in now : later[x] = IF x \in before THEN rank[x] ELSE k,
           NEW n, NEW cue, NEW predecessor, Comes(predecessor, n, cue, before, rank)
    PROVE  Comes(predecessor, n, cue, now, later)
<1> DEFINE p == <<predecessor[1], cue>>
           x == <<n, cue>>
<1>1. p \in before /\ p \in now /\ later[p] = rank[p] /\ rank[p] \in Nat /\ rank[p] < k
  BY DEF Comes
<1>2. x \in before => rank[p] < rank[x]
  BY DEF Comes
<1>3. x \in now => later[x] = IF x \in before THEN rank[x] ELSE k
  OBVIOUS
<1>4. x \in now => later[p] < later[x]
  <2> HIDE DEF p, x
  <2> QED
    BY <1>1, <1>2, <1>3
<1> QED
  BY <1>1, <1>4 DEF Comes

(* What is sent along the arcs from a node, one after the other. *)
Now(from) == expanded \cup {<<from, cue>> : cue \in Pending(from)}
SentAlong(from, cue, arc) ==
    transmitted(states[from].signals[cue].activation, arc, Len(adjacency(from)))
Arrivals(from, arc) ==
    [cue \in {c \in Pending(from) : /\ Open(arc.to, c, Now(from))
                                    /\ SentAlong(from, c, arc) >= config.minimum_activation}
        |-> SentAlong(from, cue, arc)]
AllSent(from) ==
    FoldLeft(LAMBDA found, arc : Arrive(found, arc, Arrivals(from, arc)),
             candidates, adjacency(from))

LEMMA ArcsArrive ==
    ASSUME input \in Inputs, NEW now, NEW rank, candidates \in Sound(now, rank), NEW from,
           \A arc \in ArcsFrom(from) : Sent(arc, Arrivals(from, arc), now, rank)
    PROVE  /\ AllSent(from) \in Sound(now, rank)
           /\ \A n, cue : Covers(candidates, n, cue) => Covers(AllSent(from), n, cue)
           /\ \A x \in 1..Len(adjacency(from)) : \A cue \in DOMAIN Arrivals(from, adjacency(from)[x]) :
                  Covers(AllSent(from), adjacency(from)[x].to, cue)
<1> DEFINE base == candidates
           q == adjacency(from)
           N == Len(q)
           V == Sound(now, rank)
           pick == LastPlace(N)
           op(x, found) == Arrive(found, q[x], Arrivals(from, q[x]))
           step == [x \in (1..N) \X V |-> op(x[1], x[2])]
           Is(f) == f = [s \in SUBSET (DOMAIN q) |->
                            IF s = {} THEN base
                            ELSE LET x == Max(s) IN op(x, f[s \ {x}])]
           all == CHOOSE f : Is(f)
<1>1. AllSent(from) = all[DOMAIN q]
  BY DEF AllSent, FoldLeft, MapThenFoldSet
<1>2. N \in Nat /\ DOMAIN q = 1..N /\ \A x \in 1..N : q[x] \in ArcsFrom(from)
  BY AdjacencyArcs
<1>3. IsFiniteSet(1..N) /\ Picks(pick, 1..N)
  BY <1>2, LastPlacePicks
<1> HIDE DEF N, q
<1>4. \A x \in 1..N, found \in V : op(x, found) \in V
  BY <1>2, ArriveKeeps
<1>c. \A x \in 1..N, found \in V :
          /\ \A n, cue : Covers(found, n, cue) => Covers(op(x, found), n, cue)
          /\ \A cue \in DOMAIN Arrivals(from, q[x]) : Covers(op(x, found), q[x].to, cue)
  BY ArriveCovers
<1> HIDE DEF op, V
<1>5. step \in [(1..N) \X V -> V]
  BY <1>4
<1>6. \E f : Is(f)
  <2> HIDE DEF step, Is, pick
  <2>1. PICK f : IsIteration(f, 1..N, V, pick, base, step)
    <3>1. base \in V
      BY DEF V
    <3> QED
      BY <1>3, <1>5, <3>1, IterationExists
  <2>2. \A s \in SUBSET (1..N) : f[s] = IF s = {} THEN base
                                       ELSE LET x == Max(s) IN op(x, f[s \ {x}])
    <3> SUFFICES ASSUME NEW s \in SUBSET (1..N), s # {}
                 PROVE  f[s] = op(Max(s), f[s \ {Max(s)}])
      BY <2>1 DEF IsIteration
    <3>1. pick[s] = Max(s) /\ Max(s) \in 1..N
      BY <1>3 DEF pick, LastPlace, Picks
    <3>2. f[s] = step[<<Max(s), f[s \ {Max(s)}]>>] /\ <<Max(s), f[s \ {Max(s)}]>> \in (1..N) \X V
      BY <2>1, <3>1 DEF IsIteration
    <3> QED
      BY <3>2 DEF step
  <2>3. f = [s \in SUBSET (DOMAIN q) |->
                IF s = {} THEN base ELSE LET x == Max(s) IN op(x, f[s \ {x}])]
    BY <1>2, <2>1, <2>2 DEF IsIteration
  <2> QED
    BY <2>3 DEF Is
<1>7. Is(all)
  BY <1>6
<1> HIDE DEF all
<1> DEFINE Good(found, s) ==
               /\ found \in V
               /\ \A n, cue : Covers(base, n, cue) => Covers(found, n, cue)
               /\ \A x \in s : \A cue \in DOMAIN Arrivals(from, q[x]) : Covers(found, q[x].to, cue)
           T == {s \in SUBSET (1..N) : Good(all[s], s)}
<1>8. {} \in T
  <2>1. all[{}] = base
    BY <1>7
  <2> QED
    BY <2>1 DEF V
<1>9. \A s \in SUBSET (1..N) : s # {} /\ s \ {pick[s]} \in T => s \in T
  <2> SUFFICES ASSUME NEW s \in SUBSET (1..N), s # {}, s \ {pick[s]} \in T
               PROVE  Good(all[s], s)
    OBVIOUS
  <2> DEFINE x == Max(s)
             found == all[s \ {x}]
  <2>1. pick[s] = x /\ x \in 1..N
    BY <1>3 DEF LastPlace, Picks
  <2>2. all[s] = op(x, found)
    BY <1>2, <1>7, <2>1
  <2>3. Good(found, s \ {x})
    BY <2>1
  <2> HIDE DEF pick, x, found
  <2>4. op(x, found) \in V
    BY <1>4, <2>1, <2>3
  <2>5. \A n, cue : Covers(base, n, cue) => Covers(op(x, found), n, cue)
    BY <1>c, <2>1, <2>3
  <2>6. \A y \in s : \A cue \in DOMAIN Arrivals(from, q[y]) : Covers(op(x, found), q[y].to, cue)
    BY <1>c, <2>1, <2>3
  <2> QED
    BY <2>2, <2>4, <2>5, <2>6
<1> HIDE DEF pick, Is, step, T, Good
<1>10. (1..N) \in T
  BY <1>3, <1>8, <1>9, WholeSet
<1>11. Good(AllSent(from), 1..N)
  BY <1>1, <1>2, <1>10 DEF T
<1> QED
  BY <1>11 DEF Good, V, q, N

-----------------------------------------------------------------------------
(* The steps *)

LEMMA ExpandDefined ==
    ASSUME ExpandNode
    PROVE  /\ ~done /\ active # <<>>
           /\ spent' = [x \in Now(Head(active)) |->
                           IF x[1] = Head(active) /\ x[2] \in Pending(Head(active))
                           THEN states[Head(active)].signals[x[2]].activation ELSE spent[x]]
           /\ candidates' = AllSent(Head(active))
           /\ active' = Tail(active)
           /\ UNCHANGED <<input, states, depth, budget_exhausted, stabilized, done>>
<1>1. candidates' = AllSent(Head(active))
  BY DEF ExpandNode, AllSent, Arrivals, SentAlong, Now, FoldLeft, MapThenFoldSet
<1> QED
  BY <1>1 DEF ExpandNode, Now, FoldLeft, MapThenFoldSet

(* Each pair of a node and a cue propagates once: the turns that a lane    *)
(* had are kept as they were (lib.rs:338-352).                             *)
LEMMA ExpandOnce ==
    ASSUME FieldInv, ExpandNode
    PROVE  \A x \in DOMAIN spent : x \in DOMAIN spent' /\ spent'[x] = spent[x]
<1> DEFINE from == Head(active)
<1> SUFFICES ASSUME NEW x \in expanded PROVE x \in DOMAIN spent' /\ spent'[x] = spent[x]
  BY DEF expanded
<1>1. PICK n \in DOMAIN states : x \in {n} \X DOMAIN states[n].signals
  BY DEF FieldInv, LanesOf
<1>2. x = <<x[1], x[2]>>
  BY <1>1
<1>3. ~(x[1] = from /\ x[2] \in Pending(from))
  BY <1>2 DEF Pending
<1>4. x \in Now(from)
  BY DEF Now
<1> HIDE DEF from
<1> QED
  BY <1>3, <1>4, ExpandDefined DEF from

LEMMA ExpandSends ==
    ASSUME FieldInv, active # <<>>, NEW rank, NEW arc \in ArcsFrom(Head(active))
    PROVE  Sent(arc, Arrivals(Head(active), arc), Now(Head(active)), rank)
<1> DEFINE from == Head(active)
           sent == Arrivals(from, arc)
<1>1. from \in DOMAIN states
  BY DEF FieldInv
<1>2. PICK i \in 1..Len(arcs) : arc = arcs[i] /\ arcs[i].from = from
  BY DEF ArcsFrom
<1>3. input \in Inputs
  BY DEF FieldInv
<1>4. arc \in Arcs /\ arc.from = from
  <2>1. arcs \in Seq(Arcs)
    BY <1>3, InputTyped
  <2> QED
    BY <1>2, <2>1
<1>5. Len(adjacency(from)) \in Nat \ {0}
  <2>1. adjacency(from) \in Seq(ArcsFrom(from))
    BY <1>3, AdjacencyArcs
  <2>2. \E j \in 1..Len(adjacency(from)) : TRUE
    BY <1>2, <1>3, AdjacencyArcs
  <2> QED
    BY <2>1, <2>2
<1> HIDE DEF from
<1>6. Pending(from) \subseteq DOMAIN states[from].signals
  BY DEF Pending
<1>7. DOMAIN states[from].signals \subseteq 1..Len(cues)
  BY <1>1, StatesTyped
<1>8. ASSUME NEW cue \in DOMAIN sent
      PROVE  /\ sent[cue] \in Nat /\ (MinimumAssumed => sent[cue] > 0)
             /\ <<arc.from, cue>> \in Now(from) /\ <<arc.to, cue>> \notin Now(from)
  <2>1. cue \in Pending(from) /\ Open(arc.to, cue, Now(from))
    BY DEF Arrivals
  <2>2. sent[cue] = SentAlong(from, cue, arc) /\ sent[cue] >= config.minimum_activation
    BY DEF Arrivals
  <2>3. states[from].signals[cue].activation \in Nat
    BY <1>1, <1>6, <2>1, StatesTyped DEF Signals
  <2>4. SentAlong(from, cue, arc) \in Nat
    BY <1>3, <1>4, <1>5, <2>3, TransmittedTyped DEF SentAlong
  <2>5. config.minimum_activation \in Nat /\ (MinimumAssumed => config.minimum_activation > 0)
    BY <1>3, ConfigTyped DEF MinimumAssumed, config
  <2> HIDE DEF sent
  <2>6. sent[cue] \in Nat /\ (MinimumAssumed => sent[cue] > 0)
    BY <2>2, <2>4, <2>5
  <2>7. <<arc.from, cue>> \in Now(from)
    BY <1>4, <2>1 DEF Now
  <2> QED
    BY <2>1, <2>6, <2>7 DEF Open
<1>9. DOMAIN sent \subseteq 1..Len(cues)
  BY <1>6, <1>7 DEF Arrivals
<1> HIDE DEF sent
<1>10. Sent(arc, sent, Now(from), rank)
  BY <1>2, <1>4, <1>8, <1>9 DEF Sent
<1> QED
  BY <1>10 DEF sent, from

LEMMA ExpandKeeps == FieldInv /\ ExpandNode => FieldInv'
<1> SUFFICES ASSUME FieldInv, ExpandNode PROVE FieldInv'
  OBVIOUS
<1> DEFINE from == Head(active)
           now == Now(from)
<1>1. from \in DOMAIN states /\ active' \in Seq(DOMAIN states) /\ Len(active') <= Len(active)
  BY ExpandDefined DEF FieldInv
<1>2. /\ candidates' = AllSent(from) /\ expanded' = now
      /\ input' = input /\ states' = states /\ depth' = depth
      /\ arcs' = arcs /\ cues' = cues /\ config' = config
  BY ExpandDefined DEF expanded, arcs, cues, config
<1>3. expanded \subseteq now /\ now \subseteq LanesOf(states)
  <2>1. Pending(from) \subseteq DOMAIN states[from].signals
    BY DEF Pending
  <2> HIDE DEF from
  <2> QED
    BY <1>1, <2>1 DEF Now, FieldInv, LanesOf
<1>4. FieldIsBounded'
  <2>1. Len(active) \in Nat /\ Len(active') \in Nat /\ config.frontier_capacity \in Nat
    BY <1>1, ConfigTyped DEF FieldInv
  <2>2. Len(active') <= config.frontier_capacity
    BY <1>1, <2>1 DEF FieldInv, FieldIsBounded
  <2> QED
    BY <1>2, <2>2 DEF FieldInv, FieldIsBounded
<1>5. PICK rank : Backwards(rank)
  BY DEF FieldInv
<1>6. PICK k \in Nat : \A x \in expanded : rank[x] \in Nat /\ rank[x] < k
  BY <1>5 DEF Backwards
<1>7. PICK later : \A x \in now : later[x] = IF x \in expanded THEN rank[x] ELSE k
  <2> DEFINE f == [x \in now |-> IF x \in expanded THEN rank[x] ELSE k]
  <2>1. \A x \in now : f[x] = IF x \in expanded THEN rank[x] ELSE k
    OBVIOUS
  <2> HIDE DEF f
  <2> QED
    BY <2>1
<1>8. \A x \in now : later[x] \in Nat /\ later[x] < k + 1
  BY <1>6, <1>7
<1> HIDE DEF now
<1>9. \A n, cue, predecessor :
          Comes(predecessor, n, cue, expanded, rank) => Comes(predecessor, n, cue, now, later)
  BY <1>3, <1>6, <1>7, RankGrows
<1>10. candidates \in Sound(now, later)
  BY <1>5, <1>9 DEF Backwards, Sound, Arrived
<1>11. AllSent(from) \in Sound(now, later)
  <2>1. \A arc \in ArcsFrom(from) : Sent(arc, Arrivals(from, arc), now, later)
    BY ExpandDefined, ExpandSends DEF now
  <2> QED
    BY <1>10, <2>1, ArcsArrive DEF FieldInv
<1>12. MinimumAssumed =>
          \A n \in DOMAIN states : \A cue \in DOMAIN states[n].signals :
              Stands(states[n].signals[cue], n, cue, now, later)
  BY <1>5, <1>9 DEF Backwards, Stands
<1>13. Backwards(later)'
  <2>1. \E m \in Nat : \A x \in now : later[x] \in Nat /\ later[x] < m
    <3>1. k + 1 \in Nat
      OBVIOUS
    <3> QED
      BY <1>8, <3>1
  <2>2. Reaches' = Reaches
    BY <1>2 DEF Reaches, LaneMaps
  <2>3. \A predecessor, n, cue :
            Comes(predecessor, n, cue, expanded, later)' <=> Comes(predecessor, n, cue, now, later)
    BY <1>2 DEF Comes
  <2>4. Sound(expanded, later)' = Sound(now, later)
    BY <2>2, <2>3 DEF Sound, Arrived
  <2>5. \A signal, n, cue :
            Stands(signal, n, cue, expanded, later)' <=> Stands(signal, n, cue, now, later)
    BY <1>2, <2>3 DEF Stands
  <2> QED
    BY <1>2, <1>11, <1>12, <2>1, <2>4, <2>5 DEF Backwards
<1>14. StateMaps' = StateMaps
  BY <1>2 DEF StateMaps, LaneMaps
<1> QED
  BY <1>1, <1>2, <1>3, <1>4, <1>13, <1>14, ExpandDefined DEF FieldInv, LanesOf

-----------------------------------------------------------------------------
(* The end of a round *)

(* What has been chosen, after some of the candidates: no more nodes than  *)
(* were counted are new, though they were not looked at one by one.        *)
NewNodes(nodes) == ToSet(nodes) \ DOMAIN states

Chosen ==
    {acc \in [next : Seq(DOMAIN candidates), known : Nat, full : BOOLEAN, exhausted : BOOLEAN] :
        /\ Len(acc.next) <= config.frontier_capacity
        /\ acc.known <= config.node_budget
        /\ IsFiniteSet(NewNodes(acc.next))
        /\ Cardinality(DOMAIN states) + Cardinality(NewNodes(acc.next)) <= acc.known
        /\ acc.full => acc.exhausted}

Consider(acc, node) ==
    IF acc.full THEN acc
    ELSE IF Len(acc.next) = config.frontier_capacity
         THEN [acc EXCEPT !.full = TRUE, !.exhausted = TRUE]
    ELSE IF node \in DOMAIN states
         THEN [acc EXCEPT !.next = Append(@, node)]
    ELSE IF ~(acc.known < config.node_budget)
         THEN [acc EXCEPT !.exhausted = TRUE]
    ELSE [acc EXCEPT !.next = Append(@, node), !.known = @ + 1]

NothingChosen ==
    [next |-> <<>>, known |-> Cardinality(DOMAIN states), full |-> FALSE, exhausted |-> FALSE]

LEMMA AppendToSet ==
    ASSUME NEW S, NEW s \in Seq(S), NEW x
    PROVE  ToSet(Append(s, x)) = ToSet(s) \cup {x}
<1>1. /\ Len(s) \in Nat /\ DOMAIN s = 1..Len(s) /\ DOMAIN Append(s, x) = 1..(Len(s) + 1)
      /\ Append(s, x)[Len(s) + 1] = x /\ \A i \in 1..Len(s) : Append(s, x)[i] = s[i]
  <2>1. s \in Seq(S \cup {x}) /\ x \in S \cup {x}
    OBVIOUS
  <2> QED
    BY <2>1
<1>2. 1..(Len(s) + 1) = (1..Len(s)) \cup {Len(s) + 1}
  BY <1>1
<1> QED
  BY <1>1, <1>2 DEF ToSet

LEMMA ConsiderKeeps ==
    ASSUME FieldInv, NEW acc \in Chosen, NEW node \in DOMAIN candidates
    PROVE  Consider(acc, node) \in Chosen
<1> DEFINE known == Cardinality(DOMAIN states)
           new == NewNodes(acc.next)
           longer == Append(acc.next, node)
<1>1. /\ acc \in [next : Seq(DOMAIN candidates), known : Nat, full : BOOLEAN, exhausted : BOOLEAN]
      /\ acc.next \in Seq(DOMAIN candidates) /\ acc.known \in Nat
      /\ Len(acc.next) \in Nat /\ Len(acc.next) <= config.frontier_capacity
      /\ acc.known <= config.node_budget
      /\ IsFiniteSet(new) /\ known + Cardinality(new) <= acc.known
      /\ acc.full => acc.exhausted
  BY DEF Chosen
<1>2. /\ config.frontier_capacity \in Nat /\ config.node_budget \in Nat /\ known \in Nat
      /\ Cardinality(new) \in Nat
  BY <1>1, ConfigTyped, FS_CardinalityType DEF FieldInv
<1>3. CASE acc.full
  BY <1>3 DEF Consider
<1>4. CASE ~acc.full /\ Len(acc.next) = config.frontier_capacity
  <2> DEFINE after == [acc EXCEPT !.full = TRUE, !.exhausted = TRUE]
  <2>1. /\ after \in [next : Seq(DOMAIN candidates), known : Nat, full : BOOLEAN, exhausted : BOOLEAN]
        /\ after.next = acc.next /\ after.known = acc.known /\ (after.full => after.exhausted)
    BY <1>1
  <2>2. Consider(acc, node) = after
    BY <1>4 DEF Consider
  <2> HIDE DEF after
  <2> QED
    BY <1>1, <2>1, <2>2 DEF Chosen
<1>5. CASE ~acc.full /\ Len(acc.next) # config.frontier_capacity
  <2>1. /\ longer \in Seq(DOMAIN candidates) /\ Len(longer) = Len(acc.next) + 1
        /\ ToSet(longer) = ToSet(acc.next) \cup {node}
    BY <1>1, AppendToSet
  <2>2. Len(longer) <= config.frontier_capacity
    BY <1>1, <1>2, <1>5, <2>1
  <2> HIDE DEF longer
  <2>3. CASE node \in DOMAIN states
    <3> DEFINE after == [acc EXCEPT !.next = longer]
    <3>1. /\ after \in [next : Seq(DOMAIN candidates), known : Nat, full : BOOLEAN, exhausted : BOOLEAN]
          /\ after.next = longer /\ after.known = acc.known /\ (after.full => after.exhausted)
      BY <1>1, <2>1
    <3>2. Consider(acc, node) = after
      BY <1>5, <2>3 DEF Consider, longer
    <3>3. NewNodes(longer) = new
      BY <2>1, <2>3 DEF NewNodes
    <3> HIDE DEF after
    <3> QED
      BY <1>1, <2>2, <3>1, <3>2, <3>3 DEF Chosen
  <2>4. CASE node \notin DOMAIN states /\ ~(acc.known < config.node_budget)
    <3> DEFINE after == [acc EXCEPT !.exhausted = TRUE]
    <3>1. /\ after \in [next : Seq(DOMAIN candidates), known : Nat, full : BOOLEAN, exhausted : BOOLEAN]
          /\ after.next = acc.next /\ after.known = acc.known /\ (after.full => after.exhausted)
      BY <1>1
    <3>2. Consider(acc, node) = after
      BY <1>5, <2>4 DEF Consider
    <3> HIDE DEF after
    <3> QED
      BY <1>1, <3>1, <3>2 DEF Chosen
  <2>5. CASE node \notin DOMAIN states /\ acc.known < config.node_budget
    <3> DEFINE after == [acc EXCEPT !.next = longer, !.known = acc.known + 1]
    <3>1. /\ after \in [next : Seq(DOMAIN candidates), known : Nat, full : BOOLEAN, exhausted : BOOLEAN]
          /\ after.next = longer /\ after.known = acc.known + 1 /\ (after.full => after.exhausted)
      <4>1. acc.known + 1 \in Nat
        BY <1>1
      <4> QED
        BY <1>1, <2>1, <4>1, Zenon
    <3>2. Consider(acc, node) = after
      BY <1>5, <2>5 DEF Consider, longer
    <3>3. NewNodes(longer) = new \cup {node}
      BY <2>1, <2>5 DEF NewNodes
    <3>4. /\ IsFiniteSet(new \cup {node})
          /\ Cardinality(new \cup {node}) \in Nat
          /\ Cardinality(new \cup {node}) <= Cardinality(new) + 1
      <4>1. CASE node \in new
        <5>1. new \cup {node} = new
          BY <4>1
        <5> HIDE DEF new
        <5>2. Cardinality(new) <= Cardinality(new) + 1
          BY <1>2
        <5> QED
          BY <1>1, <1>2, <5>1, <5>2, Zenon
      <4>2. CASE node \notin new
        <5> HIDE DEF new
        <5>1. IsFiniteSet(new \cup {node}) /\ Cardinality(new \cup {node}) = Cardinality(new) + 1
          BY <1>1, <4>2, FS_AddElement
        <5> QED
          BY <1>2, <5>1
      <4> QED
        BY <4>1, <4>2
    <3> HIDE DEF after, new, known
    <3>5. after.known <= config.node_budget
      BY <1>1, <1>2, <2>5, <3>1
    <3>6. known + Cardinality(NewNodes(after.next)) <= after.known
      BY <1>1, <1>2, <3>1, <3>3, <3>4
    <3> QED
      BY <2>2, <3>1, <3>2, <3>3, <3>4, <3>5, <3>6 DEF Chosen, known
  <2> QED
    BY <2>3, <2>4, <2>5
<1> QED
  BY <1>3, <1>4, <1>5

(* What is passed over is reported. *)
LEMMA ConsiderCovers ==
    ASSUME NEW acc \in Chosen, NEW node, ~Consider(acc, node).exhausted
    PROVE  /\ ~acc.exhausted
           /\ ToSet(acc.next) \cup {node} \subseteq ToSet(Consider(acc, node).next)
<1> DEFINE longer == Append(acc.next, node)
<1>1. /\ acc \in [next : Seq(DOMAIN candidates), known : Nat, full : BOOLEAN, exhausted : BOOLEAN]
      /\ acc.next \in Seq(DOMAIN candidates) /\ (acc.full => acc.exhausted)
  BY DEF Chosen
<1>2. ToSet(longer) = ToSet(acc.next) \cup {node}
  BY <1>1, AppendToSet
<1>3. ~acc.full
  BY <1>1 DEF Consider
<1>4. Len(acc.next) # config.frontier_capacity
  BY <1>1, <1>3, Zenon DEF Consider
<1>5. CASE node \in DOMAIN states
  <2>1. Consider(acc, node) = [acc EXCEPT !.next = longer]
    BY <1>3, <1>4, <1>5, Zenon DEF Consider
  <2> HIDE DEF longer
  <2> QED
    BY <1>1, <1>2, <2>1, Zenon
<1>6. CASE node \notin DOMAIN states
  <2>1. acc.known < config.node_budget
    BY <1>1, <1>3, <1>4, <1>6, Zenon DEF Consider
  <2>2. Consider(acc, node) = [acc EXCEPT !.next = longer, !.known = acc.known + 1]
    BY <1>3, <1>4, <1>6, <2>1, Zenon DEF Consider
  <2> HIDE DEF longer
  <2> QED
    BY <1>1, <1>2, <2>2, Zenon
<1> QED
  BY <1>5, <1>6

LEMMA FrontierChosen ==
    ASSUME FieldInv
    PROVE  /\ NextFrontier \in Chosen
           /\ ~NextFrontier.exhausted => DOMAIN candidates \subseteq ToSet(NextFrontier.next)
<1> DEFINE base == NothingChosen
           q == ranked(candidates)
           N == Len(q)
           V == Chosen
           pick == LastPlace(N)
           op(x, acc) == Consider(acc, q[x])
           step == [x \in (1..N) \X V |-> op(x[1], x[2])]
           Is(f) == f = [s \in SUBSET (DOMAIN q) |->
                            IF s = {} THEN base
                            ELSE LET x == Max(s) IN op(x, f[s \ {x}])]
           all == CHOOSE f : Is(f)
<1>0. NextFrontier = all[DOMAIN q]
  BY DEF NextFrontier, Choose, Consider, NothingChosen, FoldLeft, MapThenFoldSet
<1>1. NodesTyped(candidates)
  BY DEF FieldInv, Backwards, Sound, Reaches, NodesTyped
<1>r. \A n \in DOMAIN candidates : \E x \in 1..N : q[x] = n
  BY <1>1, RankedMembers DEF FieldInv
<1>2. N \in Nat /\ DOMAIN q = 1..N /\ \A x \in 1..N : q[x] \in DOMAIN candidates
  <2>1. q \in Seq(DOMAIN candidates)
    BY <1>1, RankedMembers DEF FieldInv
  <2> HIDE DEF q
  <2> QED
    BY <2>1
<1>3. IsFiniteSet(1..N) /\ Picks(pick, 1..N)
  BY <1>2, LastPlacePicks
<1> HIDE DEF N, q
<1>4. \A x \in 1..N, acc \in V : op(x, acc) \in V
  BY <1>2, ConsiderKeeps
<1>b. base \in V
  <2>1. NewNodes(<<>>) = {}
    BY DEF NewNodes, ToSet
  <2>2. /\ config.frontier_capacity \in Nat /\ config.node_budget \in Nat
        /\ Cardinality(DOMAIN states) \in Nat /\ Cardinality(DOMAIN states) <= config.node_budget
    BY ConfigTyped, FS_CardinalityType DEF FieldInv, FieldIsBounded
  <2>3. IsFiniteSet({}) /\ Cardinality({}) = 0
    BY FS_EmptySet
  <2>4. base.next = <<>> /\ base.known = Cardinality(DOMAIN states) /\ (base.full => base.exhausted)
    BY DEF NothingChosen
  <2>5. base \in [next : Seq(DOMAIN candidates), known : Nat, full : BOOLEAN, exhausted : BOOLEAN]
    BY <2>2 DEF NothingChosen
  <2>6. Len(<<>>) = 0
    OBVIOUS
  <2> HIDE DEF base
  <2>7. Len(base.next) <= config.frontier_capacity /\ base.known <= config.node_budget
    BY <2>2, <2>4, <2>6
  <2>8. IsFiniteSet(NewNodes(base.next)) /\ Cardinality(NewNodes(base.next)) = 0
    BY <2>1, <2>3, <2>4, Zenon
  <2>9. Cardinality(DOMAIN states) + Cardinality(NewNodes(base.next)) <= base.known
    BY <2>2, <2>4, <2>8
  <2> QED
    BY <2>4, <2>5, <2>7, <2>8, <2>9, Zenon DEF Chosen
<1> HIDE DEF op, V, base
<1>5. step \in [(1..N) \X V -> V]
  BY <1>4
<1>6. \E f : Is(f)
  <2> HIDE DEF step, Is, pick
  <2>1. PICK f : IsIteration(f, 1..N, V, pick, base, step)
    BY <1>3, <1>5, <1>b, IterationExists
  <2>2. \A s \in SUBSET (1..N) : f[s] = IF s = {} THEN base
                                       ELSE LET x == Max(s) IN op(x, f[s \ {x}])
    <3> SUFFICES ASSUME NEW s \in SUBSET (1..N), s # {}
                 PROVE  f[s] = op(Max(s), f[s \ {Max(s)}])
      BY <2>1 DEF IsIteration
    <3>1. pick[s] = Max(s) /\ Max(s) \in 1..N
      BY <1>3 DEF pick, LastPlace, Picks
    <3>2. f[s] = step[<<Max(s), f[s \ {Max(s)}]>>] /\ <<Max(s), f[s \ {Max(s)}]>> \in (1..N) \X V
      BY <2>1, <3>1 DEF IsIteration
    <3> QED
      BY <3>2 DEF step
  <2>3. f = [s \in SUBSET (DOMAIN q) |->
                IF s = {} THEN base ELSE LET x == Max(s) IN op(x, f[s \ {x}])]
    BY <1>2, <2>1, <2>2 DEF IsIteration
  <2> QED
    BY <2>3 DEF Is
<1>7. Is(all)
  BY <1>6
<1> HIDE DEF all
<1> DEFINE Good(acc, s) ==
               acc \in V /\ (~acc.exhausted => \A x \in s : q[x] \in ToSet(acc.next))
           T == {s \in SUBSET (1..N) : Good(all[s], s)}
<1>8. {} \in T
  BY <1>7, <1>b
<1>9. \A s \in SUBSET (1..N) : s # {} /\ s \ {pick[s]} \in T => s \in T
  <2> SUFFICES ASSUME NEW s \in SUBSET (1..N), s # {}, s \ {pick[s]} \in T
               PROVE  Good(all[s], s)
    OBVIOUS
  <2> DEFINE x == Max(s)
             acc == all[s \ {x}]
  <2>1. pick[s] = x /\ x \in 1..N
    BY <1>3 DEF LastPlace, Picks
  <2>2. all[s] = op(x, acc)
    BY <1>2, <1>7, <2>1
  <2>3. Good(acc, s \ {x})
    BY <2>1
  <2> HIDE DEF pick, x, acc
  <2>4. op(x, acc) \in V
    BY <1>4, <2>1, <2>3
  <2>5. ~op(x, acc).exhausted =>
            ~acc.exhausted /\ ToSet(acc.next) \cup {q[x]} \subseteq ToSet(op(x, acc).next)
    BY <2>3, ConsiderCovers DEF op, V
  <2> QED
    BY <2>2, <2>3, <2>4, <2>5
<1> HIDE DEF pick, Is, step, T, Good
<1>10. (1..N) \in T
  BY <1>3, <1>8, <1>9, WholeSet
<1>11. Good(NextFrontier, 1..N)
  BY <1>0, <1>2, <1>10 DEF T
<1> QED
  BY <1>r, <1>11 DEF Good, V

LEMMA MergedKeeps ==
    ASSUME FieldInv, NEW rank, Backwards(rank), NEW n \in DOMAIN candidates
    PROVE  /\ Merged(n) \in [depth : Nat, incoming_signals : Nat, signals : LaneMaps]
           /\ n \in DOMAIN states => DOMAIN states[n].signals \subseteq DOMAIN Merged(n).signals
           /\ MinimumAssumed =>
                 \A cue \in DOMAIN Merged(n).signals :
                     Stands(Merged(n).signals[cue], n, cue, expanded, rank)
<1> DEFINE candidate == candidates[n]
           state == states[n]
           D == DOMAIN candidate.signals
           signal(cue) ==
               IF cue \notin D THEN state.signals[cue]
               ELSE absorb(LaneOf(state.signals, cue), candidate.signals[cue].activation,
                           candidate.signals[cue].strongest_signal,
                           candidate.signals[cue].predecessor)
           signals == [cue \in DOMAIN state.signals \cup D |-> signal(cue)]
<1>1. /\ candidate \in [incoming_signals : Nat, signals : LaneMaps]
      /\ candidate.incoming_signals \in Nat /\ candidate.signals \in LaneMaps
  <2>1. candidate \in [incoming_signals : Nat, signals : LaneMaps]
    BY DEF Backwards, Sound, Reaches
  <2> HIDE DEF candidate
  <2> QED
    BY <2>1
<1>2. D \subseteq 1..Len(cues) /\ \A cue \in D : candidate.signals[cue] \in Signals
  BY <1>1, LanesFinite DEF FieldInv
<1>3. \A cue \in D : /\ candidate.signals[cue].activation \in Nat
                     /\ candidate.signals[cue].strongest_signal \in Nat
                     /\ candidate.signals[cue].predecessor \in Predecessors
  BY <1>2 DEF Signals
<1>4. MinimumAssumed =>
          \A cue \in D : Arrived(candidate.signals[cue], n, cue, expanded, rank)
  BY DEF Backwards, Sound
<1>5. depth \in Nat
  BY DEF FieldInv
<1>6. CASE n \notin DOMAIN states
  <2>1. Merged(n) = [depth |-> depth, incoming_signals |-> candidate.incoming_signals,
                     signals |-> candidate.signals]
    BY <1>6 DEF Merged
  <2> HIDE DEF candidate
  <2>2. Merged(n).signals = candidate.signals
    BY <2>1
  <2>3. Merged(n) \in [depth : Nat, incoming_signals : Nat, signals : LaneMaps]
    BY <1>1, <1>5, <2>1
  <2> QED
    BY <1>4, <1>6, <2>2, <2>3 DEF Arrived, Stands
<1>7. CASE n \in DOMAIN states
  <2>1. /\ state.depth \in Nat /\ state.incoming_signals \in Nat
        /\ DOMAIN state.signals \subseteq 1..Len(cues)
        /\ \A cue \in DOMAIN state.signals : state.signals[cue] \in Signals
    BY <1>7, StatesTyped
  <2>2. MinimumAssumed =>
            \A cue \in DOMAIN state.signals : Stands(state.signals[cue], n, cue, expanded, rank)
    BY <1>7 DEF Backwards
  <2>3. Merged(n) = [depth |-> IF state.depth < depth THEN state.depth ELSE depth,
                     incoming_signals |-> state.incoming_signals + candidate.incoming_signals,
                     signals |-> signals]
    BY <1>7 DEF Merged
  <2> HIDE DEF candidate, state
  <2>4. ASSUME NEW cue \in DOMAIN signals
        PROVE  /\ signal(cue) \in Signals
               /\ MinimumAssumed => Stands(signal(cue), n, cue, expanded, rank)
    <3>1. CASE cue \notin D
      BY <2>1, <2>2, <3>1
    <3>2. CASE cue \in D
      <4> DEFINE lane == LaneOf(state.signals, cue)
                 brought == candidate.signals[cue]
      <4>1. lane \in Signals /\ (cue \notin DOMAIN state.signals => lane = NoSignal)
        BY <2>1 DEF LaneOf, NoSignal, Signals, Predecessors
      <4>2. cue \in DOMAIN state.signals => lane = state.signals[cue]
        BY DEF LaneOf
      <4>3. signal(cue) = absorb(lane, brought.activation, brought.strongest_signal,
                                 brought.predecessor)
        BY <3>2
      <4>4. /\ brought.activation \in Nat /\ brought.strongest_signal \in Nat
            /\ brought.predecessor \in Predecessors
            /\ MinimumAssumed => Arrived(brought, n, cue, expanded, rank)
        BY <1>3, <1>4, <3>2
      <4> HIDE DEF lane, brought, signal
      <4>5. absorb(lane, brought.activation, brought.strongest_signal, brought.predecessor)
              \in Signals
        BY <4>1, <4>4, AbsorbKeeps
      <4>6. MinimumAssumed => lane = NoSignal \/ Stands(lane, n, cue, expanded, rank)
        BY <2>2, <4>1, <4>2
      <4>7. MinimumAssumed =>
               Stands(absorb(lane, brought.activation, brought.strongest_signal,
                             brought.predecessor), n, cue, expanded, rank)
        BY <4>1, <4>4, <4>6, AbsorbKeeps DEF Arrived
      <4> QED
        BY <4>3, <4>5, <4>7
    <3> QED
      BY <3>1, <3>2
  <2>5. signals \in LaneMaps
    <3>1. DOMAIN signals \in SUBSET (1..Len(cues))
      BY <1>2, <2>1
    <3>2. signals \in [DOMAIN signals -> Signals]
      BY <2>4
    <3> HIDE DEF signals
    <3> QED
      BY <3>1, <3>2 DEF LaneMaps
  <2>6. /\ MinimumAssumed =>
              \A cue \in DOMAIN signals : Stands(signals[cue], n, cue, expanded, rank)
        /\ DOMAIN state.signals \subseteq DOMAIN signals
    BY <2>4
  <2>7. /\ (IF state.depth < depth THEN state.depth ELSE depth) \in Nat
        /\ state.incoming_signals + candidate.incoming_signals \in Nat
    BY <1>1, <1>5, <2>1
  <2> HIDE DEF signals
  <2>8. /\ Merged(n) \in [depth : Nat, incoming_signals : Nat, signals : LaneMaps]
        /\ Merged(n).signals = signals
    BY <2>3, <2>5, <2>7
  <2> QED
    BY <2>6, <2>8 DEF state
<1> QED
  BY <1>6, <1>7

LEMMA NothingSent ==
    ASSUME NEW now, NEW rank
    PROVE  EmptyMap \in Sound(now, rank)
<1>1. EmptyMap \in [{} -> [incoming_signals : Nat, signals : LaneMaps]] /\ DOMAIN EmptyMap = {}
  BY DEF EmptyMap
<1>2. EmptyMap \in Reaches
  BY <1>1 DEF Reaches
<1> QED
  BY <1>1, <1>2, FS_EmptySet DEF Sound

LEMMA EndKeeps == FieldInv /\ EndRound => FieldInv'
<1> SUFFICES ASSUME FieldInv, EndRound PROVE FieldInv'
  OBVIOUS
<1> DEFINE nodes == NextFrontier.next
           next == ToSet(nodes)
<1>1. /\ states' = [n \in DOMAIN states \cup next |-> IF n \in next THEN Merged(n) ELSE states[n]]
      /\ active' = nodes
      /\ depth' = depth \/ depth' = depth + 1
      /\ candidates' = EmptyMap /\ input' = input /\ spent' = spent
      /\ arcs' = arcs /\ cues' = cues /\ config' = config /\ expanded' = expanded
  BY DEF EndRound, arcs, cues, config, expanded
<1>2. /\ nodes \in Seq(DOMAIN candidates) /\ Len(nodes) <= config.frontier_capacity
      /\ NextFrontier.known \in Nat /\ NextFrontier.known <= config.node_budget
      /\ IsFiniteSet(next \ DOMAIN states)
      /\ Cardinality(DOMAIN states) + Cardinality(next \ DOMAIN states) <= NextFrontier.known
  BY FrontierChosen DEF Chosen, NewNodes
<1>3. next \subseteq DOMAIN candidates /\ nodes \in Seq(next)
  BY <1>2 DEF ToSet
<1>4. PICK rank : Backwards(rank)
  BY DEF FieldInv
<1> HIDE DEF nodes, next
<1>5. IsFiniteSet(DOMAIN states') /\ Cardinality(DOMAIN states') <= config.node_budget
  <2> DEFINE old == DOMAIN states
             new == next \ DOMAIN states
  <2>1. IsFiniteSet(old) /\ IsFiniteSet(new) /\ old \cap new = {} /\ DOMAIN states' = old \cup new
    BY <1>1, <1>2 DEF FieldInv
  <2> HIDE DEF old, new
  <2>2. /\ Cardinality(old) \in Nat /\ Cardinality(new) \in Nat /\ config.node_budget \in Nat
        /\ IsFiniteSet({}) /\ Cardinality({}) = 0
    BY <2>1, FS_CardinalityType, FS_EmptySet, ConfigTyped DEF FieldInv
  <2>3. /\ IsFiniteSet(old \cup new)
        /\ Cardinality(old \cup new) = Cardinality(old) + Cardinality(new) - Cardinality(old \cap new)
    BY <2>1, FS_Union
  <2>4. Cardinality(old \cup new) = Cardinality(old) + Cardinality(new)
    <3>1. Cardinality(old \cap new) = 0
      BY <2>1, <2>2, Zenon
    <3> QED
      BY <2>2, <2>3, <3>1
  <2>5. Cardinality(old) + Cardinality(new) <= config.node_budget
    BY <1>2, <2>2 DEF old, new
  <2> QED
    BY <2>1, <2>3, <2>4, <2>5
<1>6. ASSUME NEW n \in DOMAIN states'
      PROVE  /\ n \in Nat
             /\ states'[n] \in [depth : Nat, incoming_signals : Nat, signals : LaneMaps]
             /\ n \in DOMAIN states => DOMAIN states[n].signals \subseteq DOMAIN states'[n].signals
             /\ MinimumAssumed =>
                   \A cue \in DOMAIN states'[n].signals :
                       Stands(states'[n].signals[cue], n, cue, expanded, rank)
  <2>1. CASE n \in next
    <3>1. states'[n] = Merged(n) /\ n \in DOMAIN candidates
      BY <1>1, <1>3, <2>1
    <3>2. DOMAIN candidates \subseteq Nat
      BY <1>4 DEF Backwards, Sound, Reaches
    <3> QED
      BY <1>4, <3>1, <3>2, MergedKeeps
  <2>2. CASE n \notin next
    <3>1. states'[n] = states[n] /\ n \in DOMAIN states
      BY <1>1, <2>2
    <3>2. n \in Nat /\ states[n] \in [depth : Nat, incoming_signals : Nat, signals : LaneMaps]
      BY <3>1 DEF FieldInv, StateMaps
    <3> QED
      BY <1>4, <3>1, <3>2 DEF Backwards
  <2> QED
    BY <2>1, <2>2
<1>7. StateMaps' = StateMaps /\ LaneMaps' = LaneMaps
  BY <1>1 DEF StateMaps, LaneMaps
<1>8. states' \in StateMaps
  <2>1. DOMAIN states' \in SUBSET Nat
    BY <1>6
  <2>2. states' \in [DOMAIN states' -> [depth : Nat, incoming_signals : Nat, signals : LaneMaps]]
    BY <1>1, <1>6
  <2> QED
    BY <2>1, <2>2 DEF StateMaps
<1>9. active' \in Seq(DOMAIN states') /\ FieldIsBounded'
  <2>1. next \subseteq DOMAIN states'
    BY <1>1
  <2>2. active' \in Seq(DOMAIN states')
    BY <1>1, <1>3, <2>1
  <2> QED
    BY <1>1, <1>2, <1>5, <2>2 DEF FieldIsBounded
<1>10. expanded \subseteq LanesOf(states')
  <2> SUFFICES ASSUME NEW x \in expanded PROVE x \in LanesOf(states')
    OBVIOUS
  <2>1. PICK n \in DOMAIN states : x \in {n} \X DOMAIN states[n].signals
    BY DEF FieldInv, LanesOf
  <2>2. n \in DOMAIN states'
    BY <1>1
  <2>3. x \in {n} \X DOMAIN states'[n].signals
    BY <1>6, <2>1, <2>2
  <2> QED
    BY <2>2, <2>3 DEF LanesOf
<1>11. Backwards(rank)'
  <2>1. EmptyMap \in Sound(expanded, rank)
    BY NothingSent
  <2>2. Reaches' = Reaches
    BY <1>7 DEF Reaches
  <2>3. \A predecessor, n, cue :
            Comes(predecessor, n, cue, expanded, rank)' <=> Comes(predecessor, n, cue, expanded, rank)
    BY <1>1 DEF Comes
  <2>4. Sound(expanded, rank)' = Sound(expanded, rank)
    BY <2>2, <2>3 DEF Sound, Arrived
  <2>5. \A signal, n, cue :
            Stands(signal, n, cue, expanded, rank)' <=> Stands(signal, n, cue, expanded, rank)
    BY <1>1, <2>3 DEF Stands
  <2> QED
    BY <1>1, <1>4, <1>6, <2>1, <2>4, <2>5 DEF Backwards
<1>12. depth' \in Nat
  BY <1>1 DEF FieldInv
<1>13. input' \in Inputs
  BY <1>1 DEF FieldInv
<1> QED
  BY <1>1, <1>5, <1>7, <1>8, <1>9, <1>10, <1>11, <1>12, <1>13 DEF FieldInv, LanesOf

-----------------------------------------------------------------------------
(* The start *)

LEMMA FieldInitially == Init => FieldInv
<1> SUFFICES ASSUME Init PROVE FieldInv
  OBVIOUS
<1> DEFINE live == {i \in 1..Len(cues) : cues[i].activation # 0}
           lanes(n) == {i \in live : cues[i].node = n}
           nodes == {cues[i].node : i \in live}
           signal(i) == [activation |-> cues[i].activation,
                         strongest_signal |-> cues[i].activation,
                         predecessor |-> NoPredecessor]
           signals(n) == [i \in lanes(n) |-> signal(i)]
<1>1. /\ input \in Inputs /\ depth = 1 /\ spent = EmptyMap /\ candidates = EmptyMap
      /\ active = Truncated(ranked(states))
      /\ states = [n \in nodes |-> [depth |-> 0, incoming_signals |-> 1, signals |-> signals(n)]]
  BY DEF Init
<1>2. /\ Len(cues) \in Nat /\ Len(cues) <= config.node_budget
      /\ \A i \in 1..Len(cues) : cues[i].node \in Nat /\ cues[i].activation \in Nat
  BY <1>1, InputTyped
<1>3. \A i \in live : signal(i) \in Signals /\ signal(i).predecessor = NoPredecessor
  BY <1>2 DEF Signals, Predecessors
<1> HIDE DEF signal
<1>4. \A n : /\ signals(n) \in LaneMaps
             /\ \A i \in DOMAIN signals(n) : /\ signals(n)[i].predecessor = NoPredecessor
                                             /\ n = cues[i].node
  <2> SUFFICES ASSUME NEW n
               PROVE  /\ signals(n) \in LaneMaps
                      /\ \A i \in DOMAIN signals(n) :
                            signals(n)[i].predecessor = NoPredecessor /\ n = cues[i].node
    OBVIOUS
  <2>1. lanes(n) \in SUBSET (1..Len(cues)) /\ signals(n) \in [lanes(n) -> Signals]
    BY <1>3
  <2>2. signals(n) \in LaneMaps
    BY <2>1 DEF LaneMaps
  <2> QED
    BY <1>3, <2>2
<1> HIDE DEF signals, lanes
<1>5. nodes \subseteq Nat
  BY <1>2
<1>6. IsFiniteSet(nodes) /\ Cardinality(nodes) <= config.node_budget
  <2> DEFINE f == [i \in live |-> cues[i].node]
  <2>1. f \in Surjection(live, nodes)
    BY DEF Surjection
  <2>2. IsFiniteSet(1..Len(cues)) /\ Cardinality(1..Len(cues)) = Len(cues)
    <3>1. 1 \in Int /\ Len(cues) \in Int
      BY <1>2
    <3>2. Cardinality(1..Len(cues)) = IF 1 > Len(cues) THEN 0 ELSE Len(cues) - 1 + 1
      BY <3>1, FS_Interval, Zenon
    <3> QED
      BY <1>2, <3>2, LastPlacePicks
  <2>3. IsFiniteSet(live) /\ Cardinality(live) <= Cardinality(1..Len(cues))
    <3>1. live \in SUBSET (1..Len(cues))
      OBVIOUS
    <3> HIDE DEF live
    <3> QED
      BY <2>2, <3>1, FS_Subset
  <2> HIDE DEF f, live, nodes
  <2>4. IsFiniteSet(nodes) /\ Cardinality(nodes) <= Cardinality(live)
    BY <2>1, <2>3, FS_Surjection
  <2>5. Cardinality(nodes) \in Nat /\ Cardinality(live) \in Nat /\ config.node_budget \in Nat
    BY <1>1, <2>3, <2>4, FS_CardinalityType, ConfigTyped
  <2> QED
    BY <1>2, <2>2, <2>3, <2>4, <2>5
<1> HIDE DEF nodes
<1>7. states \in StateMaps
  <2>1. states \in [nodes -> [depth : Nat, incoming_signals : Nat, signals : LaneMaps]]
    BY <1>1, <1>4
  <2> QED
    BY <1>5, <2>1 DEF StateMaps
<1>8. DOMAIN states = nodes /\ \A n \in nodes : states[n].signals = signals(n)
  BY <1>1
<1>9. active \in Seq(DOMAIN states) /\ Len(active) <= config.frontier_capacity
  <2> DEFINE q == ranked(states)
             k == IF Len(q) < config.frontier_capacity THEN Len(q) ELSE config.frontier_capacity
  <2>1. NodesTyped(states)
    BY <1>4, <1>5, <1>6, <1>8 DEF NodesTyped
  <2>2. q \in Seq(DOMAIN states)
    BY <1>1, <2>1, RankedMembers
  <2>3. config.frontier_capacity \in Nat
    BY <1>1, ConfigTyped
  <2>4. active = SubSeq(q, 1, k)
    BY <1>1 DEF Truncated
  <2> HIDE DEF q
  <2>5. k \in 0..Len(q) /\ k <= config.frontier_capacity
    BY <2>2, <2>3
  <2> HIDE DEF k
  <2>6. active \in Seq(DOMAIN states) /\ Len(active) = k
    BY <2>2, <2>4, <2>5
  <2> QED
    BY <2>5, <2>6
<1>10. expanded = {}
  BY <1>1, EmptyTyped DEF expanded
<1>11. \E rank : Backwards(rank)
  <2> DEFINE rank == EmptyMap
  <2>1. \A n \in DOMAIN states : \A cue \in DOMAIN states[n].signals :
            Stands(states[n].signals[cue], n, cue, expanded, rank)
    BY <1>4, <1>8 DEF Stands
  <2>2. candidates \in Sound(expanded, rank)
    BY <1>1, NothingSent
  <2>3. \E k \in Nat : \A x \in expanded : rank[x] \in Nat /\ rank[x] < k
    <3>1. 0 \in Nat
      OBVIOUS
    <3> QED
      BY <1>10, <3>1
  <2>4. Backwards(rank)
    BY <2>1, <2>2, <2>3 DEF Backwards
  <2> QED
    BY <2>4
<1> QED
  BY <1>1, <1>6, <1>7, <1>8, <1>9, <1>10, <1>11 DEF FieldInv, FieldIsBounded

LEMMA FieldInductive == FieldInv /\ [Next]_vars => FieldInv'
<1>1. ASSUME FieldInv, UNCHANGED vars PROVE FieldInv'
  <2>1. /\ input' = input /\ states' = states /\ active' = active /\ spent' = spent
        /\ candidates' = candidates /\ depth' = depth
        /\ arcs' = arcs /\ cues' = cues /\ config' = config /\ expanded' = expanded
    BY <1>1 DEF vars, arcs, cues, config, expanded
  <2>2. PICK rank : Backwards(rank)
    BY <1>1 DEF FieldInv
  <2>3. \A predecessor, n, cue :
            Comes(predecessor, n, cue, expanded, rank)' <=> Comes(predecessor, n, cue, expanded, rank)
    BY <2>1 DEF Comes
  <2>4. LaneMaps' = LaneMaps /\ Reaches' = Reaches /\ StateMaps' = StateMaps
    BY <2>1 DEF LaneMaps, Reaches, StateMaps
  <2>5. Sound(expanded, rank)' = Sound(expanded, rank)
    BY <2>3, <2>4 DEF Sound, Arrived
  <2>6. \A signal, n, cue :
            Stands(signal, n, cue, expanded, rank)' <=> Stands(signal, n, cue, expanded, rank)
    BY <2>1, <2>3 DEF Stands
  <2>7. Backwards(rank)'
    BY <2>1, <2>2, <2>5, <2>6 DEF Backwards
  <2> QED
    BY <1>1, <2>1, <2>4, <2>7 DEF FieldInv, FieldIsBounded, LanesOf
<1> QED
  BY <1>1, ExpandKeeps, EndKeeps DEF Next

-----------------------------------------------------------------------------
(* The query on top of the field leaves it alone. *)

LEMMA QueryKeepsField == SpecP => Spec
<1>1. InitP => Init
  BY DEF InitP
<1>2. [NextP]_varsP => [Next]_vars
  BY DEF NextP, SkipHit, TakeEvidence, Answer, LookAtHit, Returned, varsP, packetVars
<1> QED
  BY <1>1, <1>2, PTL DEF SpecP, Spec

LEMMA SpecFieldInv == Spec => []FieldInv
  BY FieldInitially, FieldInductive, PTL DEF Spec

(* However the rounds go, the frontier and the nodes that were reached     *)
(* stay within what the configuration allows (lib.rs:399-420).             *)
THEOREM SpecFieldIsBounded == SpecP => []FieldIsBounded
<1>1. FieldInv => FieldIsBounded
  BY DEF FieldInv
<1> QED
  BY <1>1, QueryKeepsField, SpecFieldInv, PTL

(* No lane is expanded a second time (lib.rs:338-363). *)
THEOREM SpecPropagatesOnce == SpecP => PropagatesOnce
<1> DEFINE Once == \A x \in DOMAIN spent : x \in DOMAIN spent' /\ spent'[x] = spent[x]
<1>1. FieldInv /\ [Next]_vars => [Once]_vars
  <2> SUFFICES ASSUME FieldInv, Next PROVE Once
    BY DEF vars
  <2>1. CASE ExpandNode
    BY <2>1, ExpandOnce
  <2>2. CASE EndRound
    BY <2>2 DEF EndRound
  <2> QED
    BY <2>1, <2>2 DEF Next
<1> QED
  BY <1>1, QueryKeepsField, SpecFieldInv, PTL DEF Spec, PropagatesOnce

-----------------------------------------------------------------------------
(* The way back.  In a lane it goes to nodes of a lower and lower rank, of *)
(* which there are no more than nodes in all.                              *)

InLane(cue) == {n \in DOMAIN states : cue \in DOMAIN states[n].signals}
OneBack(n, cue) ==
    IF n = cues[cue].node THEN n ELSE states[n].signals[cue].predecessor[1]
Lower(n, cue, rank) ==
    {m \in InLane(cue) : /\ <<m, cue>> \in expanded
                         /\ <<n, cue>> \in expanded => rank[<<m, cue>>] < rank[<<n, cue>>]}

LEMMA OneBackLower ==
    ASSUME MinimumAssumed, FieldInv, NEW rank, Backwards(rank), NEW cue, NEW n \in InLane(cue),
           n # cues[cue].node
    PROVE  /\ states[n].signals[cue].predecessor # NoPredecessor
           /\ OneBack(n, cue) \in InLane(cue)
           /\ OneBack(n, cue) \in Lower(n, cue, rank)
           /\ Lower(OneBack(n, cue), cue, rank) \subseteq Lower(n, cue, rank)
           /\ OneBack(n, cue) \notin Lower(OneBack(n, cue), cue, rank)
<1> DEFINE predecessor == states[n].signals[cue].predecessor
           p == predecessor[1]
<1>1. n \in DOMAIN states /\ cue \in DOMAIN states[n].signals
  BY DEF InLane
<1>2. Comes(predecessor, n, cue, expanded, rank)
  BY <1>1 DEF Backwards, Stands
<1>3. OneBack(n, cue) = p
  BY DEF OneBack
<1>4. predecessor # NoPredecessor
  <2>1. PICK a \in Nat, b \in Nat : predecessor = <<a, b>>
    BY <1>2 DEF Comes
  <2>2. <<a, b>> # <<>>
    OBVIOUS
  <2> QED
    BY <2>1, <2>2 DEF NoPredecessor
<1>5. /\ <<p, cue>> \in expanded
      /\ <<n, cue>> \in expanded => rank[<<p, cue>>] < rank[<<n, cue>>]
  BY <1>2 DEF Comes
<1>6. p \in InLane(cue)
  <2>1. PICK m \in DOMAIN states : <<p, cue>> \in {m} \X DOMAIN states[m].signals
    BY <1>5 DEF FieldInv, LanesOf
  <2> QED
    BY <2>1 DEF InLane
<1>7. \A x \in expanded : rank[x] \in Nat
  BY DEF Backwards
<1> HIDE DEF p
<1>8. p \in Lower(n, cue, rank)
  BY <1>5, <1>6 DEF Lower
<1>9. p \notin Lower(p, cue, rank)
  BY <1>5, <1>7 DEF Lower
<1>10. ASSUME NEW m \in Lower(p, cue, rank) PROVE m \in Lower(n, cue, rank)
  <2>1. m \in InLane(cue) /\ <<m, cue>> \in expanded /\ rank[<<m, cue>>] < rank[<<p, cue>>]
    BY <1>5 DEF Lower
  <2>2. <<n, cue>> \in expanded => rank[<<m, cue>>] < rank[<<n, cue>>]
    BY <1>5, <1>7, <2>1
  <2> QED
    BY <2>1, <2>2 DEF Lower
<1> QED
  BY <1>3, <1>4, <1>6, <1>8, <1>9, <1>10

IsWayBack(way, node, cue) ==
    LET N == Cardinality(DOMAIN states)
    IN  /\ way[0] = node /\ way[N] = cues[cue].node
        /\ \A k \in 0..N : way[k] \in InLane(cue)
        /\ \A k \in 0..N : k < N => way[k + 1] = OneBack(way[k], cue)

LEMMA WayBackEnds ==
    ASSUME MinimumAssumed, FieldInv, NEW node \in DOMAIN states,
           NEW cue \in DOMAIN states[node].signals
    PROVE  reconstruct_thread(node, cue) /\ \E way : IsWayBack(way, node, cue)
<1> DEFINE N == Cardinality(DOMAIN states)
           home == cues[cue].node
           S == InLane(cue)
           op(n) == IF n = home THEN n
                    ELSE IF n \notin DOMAIN states THEN NoNode
                    ELSE LET predecessor == LaneOf(states[n].signals, cue).predecessor
                         IN  IF predecessor = NoPredecessor THEN NoNode ELSE predecessor[1]
           Is(f) == f = [k \in 0..N |-> IF k = 0 THEN node ELSE LET n == f[k - 1] IN op(n)]
           way == CHOOSE f : Is(f)
<1>1. reconstruct_thread(node, cue) <=> way[N] = home
  BY DEF reconstruct_thread, Back
<1>2. PICK rank : Backwards(rank)
  BY DEF FieldInv
<1>3. N \in Nat /\ node \in S
  BY FS_CardinalityType DEF FieldInv, InLane
<1>4. ASSUME NEW n \in S PROVE op(n) = OneBack(n, cue) /\ op(n) \in S
  <2>1. CASE n = home
    BY <2>1 DEF OneBack
  <2>2. CASE n # home
    <3>1. /\ states[n].signals[cue].predecessor # NoPredecessor
          /\ OneBack(n, cue) \in S
      BY <1>2, <2>2, OneBackLower
    <3>2. n \in DOMAIN states /\ LaneOf(states[n].signals, cue) = states[n].signals[cue]
      BY DEF InLane, LaneOf
    <3>3. op(n) = OneBack(n, cue)
      BY <2>2, <3>1, <3>2 DEF OneBack
    <3> QED
      BY <3>1, <3>3
  <2> QED
    BY <2>1, <2>2
<1> HIDE DEF N, S, op
<1>5. \E f : Is(f)
  <2> DEFINE step == [n \in S |-> op(n)]
  <2>1. step \in [S -> S]
    BY <1>4
  <2> HIDE DEF step, Is
  <2>2. PICK f : IsWalk(f, N, S, node, step)
    BY <1>3, <2>1, WalkExists
  <2>3. \A k \in 0..N : f[k] = IF k = 0 THEN node ELSE LET n == f[k - 1] IN op(n)
    <3> SUFFICES ASSUME NEW k \in 0..N PROVE f[k] = IF k = 0 THEN node ELSE op(f[k - 1])
      OBVIOUS
    <3>1. CASE k # 0
      <4>1. k \in 1..N /\ k - 1 \in 0..N
        BY <1>3, <3>1
      <4>2. f[k - 1] \in S /\ f[k] = step[f[k - 1]]
        BY <2>2, <4>1 DEF IsWalk
      <4> QED
        BY <3>1, <4>2 DEF step
    <3> QED
      BY <2>2, <3>1 DEF IsWalk
  <2>4. f = [k \in 0..N |-> IF k = 0 THEN node ELSE LET n == f[k - 1] IN op(n)]
    BY <2>2, <2>3 DEF IsWalk
  <2> QED
    BY <2>4 DEF Is
<1>6. Is(way)
  BY <1>5
<1> HIDE DEF way
<1> DEFINE below(n) == Cardinality(Lower(n, cue, rank))
           T == {k \in 0..N : way[k] \in S /\ (way[k] = home \/ below(way[k]) + k <= N)}
<1>7. \A n \in S : /\ IsFiniteSet(Lower(n, cue, rank)) /\ below(n) \in Nat /\ below(n) <= N
  <2> SUFFICES ASSUME NEW n \in S
               PROVE  IsFiniteSet(Lower(n, cue, rank)) /\ below(n) \in Nat /\ below(n) <= N
    OBVIOUS
  <2>1. IsFiniteSet(DOMAIN states) /\ Lower(n, cue, rank) \in SUBSET (DOMAIN states)
    BY DEF FieldInv, Lower, InLane
  <2> QED
    BY <2>1, FS_Subset, FS_CardinalityType DEF N
<1>8. ASSUME NEW n \in S, n # home
      PROVE  below(OneBack(n, cue)) < below(n)
  <2> DEFINE p == OneBack(n, cue)
  <2>1. /\ p \in S /\ p \in Lower(n, cue, rank) /\ p \notin Lower(p, cue, rank)
        /\ Lower(p, cue, rank) \in SUBSET Lower(n, cue, rank)
    BY <1>2, <1>8, OneBackLower DEF S
  <2> HIDE DEF p
  <2>2. below(p) <= below(n) /\ below(p) # below(n)
    BY <1>7, <2>1, FS_Subset
  <2>3. below(p) \in Nat /\ below(n) \in Nat
    BY <1>7, <2>1
  <2> HIDE DEF below
  <2>4. below(p) < below(n)
    BY <2>2, <2>3
  <2> QED
    BY <2>4 DEF p
<1> HIDE DEF below
<1>9. 0 \in T
  <2>1. 0 \in 0..N /\ way[0] = node
    BY <1>3, <1>6
  <2>2. below(node) + 0 <= N
    BY <1>3, <1>7
  <2> QED
    BY <1>3, <2>1, <2>2
<1>10. ASSUME NEW k \in 0..N, k \in T, k < N PROVE k + 1 \in T
  <2> DEFINE n == way[k]
  <2>1. k + 1 \in 0..N /\ k + 1 # 0 /\ (k + 1) - 1 = k
    BY <1>3, <1>10
  <2>2. n \in S /\ (n = home \/ below(n) + k <= N)
    BY <1>10
  <2>3. way[k + 1] = op(n)
    BY <1>6, <2>1
  <2> HIDE DEF n
  <2>4. way[k + 1] = OneBack(n, cue) /\ way[k + 1] \in S
    BY <1>4, <2>2, <2>3
  <2>5. CASE n = home
    BY <2>1, <2>4, <2>5 DEF OneBack
  <2>6. CASE n # home
    <3>1. below(way[k + 1]) < below(n) /\ below(way[k + 1]) \in Nat /\ below(n) \in Nat
      BY <1>7, <1>8, <2>2, <2>4, <2>6
    <3>2. below(way[k + 1]) + (k + 1) <= N
      BY <1>3, <2>2, <2>6, <3>1
    <3> QED
      BY <2>1, <2>4, <3>2
  <2> QED
    BY <2>5, <2>6
<1>11. \A k \in 0..N : way[k] \in S /\ (way[k] = home \/ below(way[k]) + k <= N)
  <2> HIDE DEF T
  <2>1. \A k \in 0..N : k \in T
    BY <1>3, <1>9, <1>10, InductionUpTo
  <2> QED
    BY <2>1 DEF T
<1>12. way[N] = home
  <2> SUFFICES ASSUME way[N] # home PROVE FALSE
    OBVIOUS
  <2>1. way[N] \in S /\ below(way[N]) + N <= N
    BY <1>3, <1>11
  <2>2. below(OneBack(way[N], cue)) < below(way[N])
    BY <1>8, <2>1
  <2>3. OneBack(way[N], cue) \in S
    BY <1>4, <2>1
  <2>4. below(OneBack(way[N], cue)) \in Nat /\ below(way[N]) \in Nat
    BY <1>7, <2>1, <2>3
  <2> QED
    BY <1>3, <2>1, <2>2, <2>4
<1>13. \A k \in 0..N : k < N => way[k + 1] = OneBack(way[k], cue)
  <2> SUFFICES ASSUME NEW k \in 0..N, k < N PROVE way[k + 1] = OneBack(way[k], cue)
    OBVIOUS
  <2>1. k + 1 \in 0..N /\ k + 1 # 0 /\ (k + 1) - 1 = k
    BY <1>3
  <2>2. way[k + 1] = op(way[k])
    BY <1>6, <2>1
  <2> QED
    BY <1>4, <1>11, <2>2
<1>14. way[0] = node
  <2>1. 0 \in 0..N
    BY <1>3
  <2> QED
    BY <1>6, <2>1
<1>15. IsWayBack(way, node, cue)
  BY <1>11, <1>12, <1>13, <1>14 DEF IsWayBack, N, S
<1> QED
  BY <1>1, <1>12, <1>15

(* Each cue that a node is reported with has a thread that leads back to   *)
(* the cue's own node along arcs of the graph, however merges replaced the *)
(* predecessors, if a signal of nothing is not sent on (lib.rs:370-391,    *)
(* 418-441, 519-548).                                                      *)
THEOREM SpecThreadsReconstruct ==
    ASSUME MinimumAssumed
    PROVE  SpecP => []ThreadsReconstruct
<1>1. FieldInv => ThreadsReconstruct
  <2> SUFFICES ASSUME FieldInv, NEW n \in DOMAIN states, NEW cue \in DOMAIN states[n].signals,
                      states[n].signals[cue].predecessor # NoPredecessor
               PROVE  LET predecessor == states[n].signals[cue].predecessor
                      IN  \E i \in 1..Len(arcs) : /\ arcs[i].from = predecessor[1] /\ arcs[i].to = n
                                                  /\ arcs[i].edge = predecessor[2]
    BY WayBackEnds DEF ThreadsReconstruct
  <2>1. PICK rank : Backwards(rank)
    BY DEF FieldInv
  <2> QED
    BY <2>1 DEF Backwards, Stands, Comes
<1> QED
  BY <1>1, QueryKeepsField, SpecFieldInv, PTL

-----------------------------------------------------------------------------
(* A field that reports no exhaustion has left out nothing: each lane was  *)
(* expanded or is about to be, and what an expanded lane sends is there or *)
(* among the candidates.  The first frontier alone is cut off unreported   *)
(* (lib.rs:317), so it has to have room for the cues.                      *)

CuesFit == \A in \in Inputs : Len(in.cues) <= in.config.frontier_capacity

Delivered(n, cue, reached, sent) ==
    \A j \in 1..Len(adjacency(n)) :
        transmitted(spent[<<n, cue>>], adjacency(n)[j], Len(adjacency(n)))
             >= config.minimum_activation
          => Covers(reached, adjacency(n)[j].to, cue) \/ Covers(sent, adjacency(n)[j].to, cue)

Complete ==
    /\ ~budget_exhausted =>
          \A n \in DOMAIN states : \A cue \in DOMAIN states[n].signals :
              /\ <<n, cue>> \in expanded \/ n \in ToSet(active)
              /\ <<n, cue>> \in expanded => Delivered(n, cue, states, candidates)
    /\ done /\ ~budget_exhausted => active = <<>> /\ candidates = EmptyMap

LEMMA CompleteInitially ==
    ASSUME CuesFit, Init
    PROVE  Complete
<1> DEFINE q == ranked(states)
<1>1. FieldInv
  BY FieldInitially
<1>2. NodesTyped(states) /\ input \in Inputs
  BY <1>1 DEF FieldInv, StateMaps, NodesTyped
<1>3. /\ q \in Seq(DOMAIN states)
      /\ \A n \in DOMAIN states : \E i \in 1..Len(q) : q[i] = n
  BY <1>2, RankedMembers
<1>4. Len(q) <= config.frontier_capacity
  <2> DEFINE live == {i \in 1..Len(cues) : cues[i].activation # 0}
             f == [i \in live |-> cues[i].node]
  <2>1. DOMAIN states = {cues[i].node : i \in live}
    BY DEF Init
  <2>2. f \in Surjection(live, DOMAIN states)
    BY <2>1 DEF Surjection
  <2>3. Len(cues) \in Nat /\ Len(cues) <= config.frontier_capacity
    BY <1>2, InputTyped DEF CuesFit, cues, config
  <2>4. IsFiniteSet(1..Len(cues)) /\ Cardinality(1..Len(cues)) = Len(cues)
    <3>1. 1 \in Int /\ Len(cues) \in Int
      BY <2>3
    <3>2. Cardinality(1..Len(cues)) = IF 1 > Len(cues) THEN 0 ELSE Len(cues) - 1 + 1
      BY <3>1, FS_Interval, Zenon
    <3> QED
      BY <2>3, <3>2, LastPlacePicks
  <2>5. live \in SUBSET (1..Len(cues))
    OBVIOUS
  <2> HIDE DEF live, f
  <2>6. IsFiniteSet(live) /\ Cardinality(live) <= Len(cues)
    BY <2>4, <2>5, FS_Subset
  <2>7. Cardinality(DOMAIN states) <= Cardinality(live)
    BY <2>2, <2>6, FS_Surjection
  <2>8. Len(q) = Cardinality(DOMAIN states)
    BY <1>2, RankedMembers
  <2>9. /\ Cardinality(DOMAIN states) \in Nat /\ Cardinality(live) \in Nat
        /\ config.frontier_capacity \in Nat
    BY <1>2, <2>6, FS_CardinalityType, ConfigTyped DEF NodesTyped
  <2> HIDE DEF q
  <2> QED
    BY <2>3, <2>6, <2>7, <2>8, <2>9
<1>5. config.frontier_capacity \in Nat
  BY <1>2, ConfigTyped
<1>6. active = SubSeq(q, 1, IF Len(q) < config.frontier_capacity
                            THEN Len(q) ELSE config.frontier_capacity)
  BY DEF Init, Truncated
<1> HIDE DEF q
<1>7. active = q
  <2>1. Len(q) \in Nat
    BY <1>3
  <2>2. active = SubSeq(q, 1, Len(q))
    BY <1>4, <1>5, <1>6, <2>1
  <2> QED
    BY <1>3, <2>2
<1>8. \A n \in DOMAIN states : n \in ToSet(active)
  BY <1>3, <1>7 DEF ToSet
<1>9. expanded = {} /\ candidates = EmptyMap /\ (done => active = <<>>)
  BY EmptyTyped DEF Init, expanded
<1> QED
  BY <1>8, <1>9 DEF Complete

LEMMA ExpandCompletes ==
    ASSUME FieldInv, Complete, ExpandNode
    PROVE  Complete'
<1> DEFINE from == Head(active)
           now == Now(from)
           sent == AllSent(from)
<1>1. /\ ~done /\ active # <<>> /\ active' = Tail(active) /\ candidates' = sent /\ expanded' = now
      /\ input' = input /\ states' = states /\ budget_exhausted' = budget_exhausted /\ done' = done
      /\ arcs' = arcs /\ config' = config
  BY ExpandDefined DEF expanded, arcs, config
<1>2. active \in Seq(DOMAIN states) /\ from \in DOMAIN states /\ input \in Inputs
  BY <1>1 DEF FieldInv
<1>3. \A n \in ToSet(active) : n = from \/ n \in ToSet(active')
  <2> SUFFICES ASSUME NEW i \in 1..Len(active), active[i] # from
               PROVE  active[i] \in ToSet(active')
    BY <1>2 DEF ToSet
  <2>1. i # 1 /\ i - 1 \in 1..Len(active') /\ active'[i - 1] = active[i]
    BY <1>1, <1>2
  <2>2. DOMAIN active' = 1..Len(active')
    BY <1>1, <1>2
  <2> QED
    BY <2>1, <2>2 DEF ToSet
<1>4. PICK rank : Backwards(rank)
  BY DEF FieldInv
<1>5. \E later : candidates \in Sound(now, later)
  <2>1. PICK k \in Nat : \A x \in expanded : rank[x] \in Nat /\ rank[x] < k
    BY <1>4 DEF Backwards
  <2> DEFINE later == [x \in now |-> IF x \in expanded THEN rank[x] ELSE k]
  <2>2. \A x \in now : later[x] = IF x \in expanded THEN rank[x] ELSE k
    OBVIOUS
  <2>3. expanded \subseteq now
    BY DEF Now
  <2> HIDE DEF later, now
  <2>4. \A n, cue, predecessor :
            Comes(predecessor, n, cue, expanded, rank) => Comes(predecessor, n, cue, now, later)
    BY <2>1, <2>2, <2>3, RankGrows
  <2>5. candidates \in Sound(now, later)
    BY <1>4, <2>4 DEF Backwards, Sound, Arrived
  <2> QED
    BY <2>5
<1>6. PICK later : candidates \in Sound(now, later)
  BY <1>5
<1>7. /\ \A n, cue : Covers(candidates, n, cue) => Covers(sent, n, cue)
      /\ \A x \in 1..Len(adjacency(from)) : \A cue \in DOMAIN Arrivals(from, adjacency(from)[x]) :
             Covers(sent, adjacency(from)[x].to, cue)
  <2>1. \A arc \in ArcsFrom(from) : Sent(arc, Arrivals(from, arc), now, later)
    BY <1>1, ExpandSends
  <2> HIDE DEF from, now
  <2> QED
    BY <1>2, <1>6, <2>1, ArcsArrive
<1>8. \A x \in expanded : x \in now /\ spent'[x] = spent[x]
  BY <1>1, ExpandOnce DEF expanded
<1>9. now \subseteq LanesOf(states)
  <2>1. FieldInv'
    BY ExpandKeeps
  <2> QED
    BY <1>1, <2>1 DEF FieldInv, LanesOf
<1>10. \A cue \in Pending(from) : spent'[<<from, cue>>] = states[from].signals[cue].activation
  BY ExpandDefined DEF Now
<1>11. now = expanded \cup {<<from, cue>> : cue \in Pending(from)}
  BY DEF Now
<1>12. \A n : adjacency(n)' = adjacency(n)
  BY <1>1 DEF adjacency, InOrder
<1>13. \A activation, arc, degree :
           transmitted(activation, arc, degree)' = transmitted(activation, arc, degree)
  BY <1>1 DEF transmitted
<1>14. ASSUME ~budget_exhausted, NEW n \in DOMAIN states, NEW cue \in DOMAIN states[n].signals
       PROVE  /\ <<n, cue>> \in now \/ n \in ToSet(active')
              /\ <<n, cue>> \in now => Delivered(n, cue, states, candidates)'
  <2>1. n = from => <<n, cue>> \in now
    BY <1>11 DEF Pending
  <2>2. /\ <<n, cue>> \in expanded \/ n \in ToSet(active)
        /\ <<n, cue>> \in expanded => Delivered(n, cue, states, candidates)
    BY <1>14 DEF Complete
  <2>3. <<n, cue>> \in now \/ n \in ToSet(active')
    BY <1>3, <1>8, <2>1, <2>2
  <2>4. CASE <<n, cue>> \in expanded
    <3> HIDE DEF sent, now, from
    <3>1. Delivered(n, cue, states, candidates)'
      BY <1>1, <1>7, <1>8, <1>12, <1>13, <2>2, <2>4 DEF Delivered
    <3> QED
      BY <2>3, <3>1
  <2>5. CASE <<n, cue>> \in now /\ <<n, cue>> \notin expanded
    <3>1. n = from /\ cue \in Pending(from)
      BY <1>11, <2>5
    <3>2. ASSUME NEW j \in 1..Len(adjacency(from)),
                 SentAlong(from, cue, adjacency(from)[j]) >= config.minimum_activation
          PROVE  \/ Covers(states, adjacency(from)[j].to, cue)
                 \/ Covers(sent, adjacency(from)[j].to, cue)
      <4> DEFINE arc == adjacency(from)[j]
      <4>1. CASE <<arc.to, cue>> \in now
        <5>1. PICK m \in DOMAIN states : <<arc.to, cue>> \in {m} \X DOMAIN states[m].signals
          BY <1>9, <4>1 DEF LanesOf
        <5> HIDE DEF arc
        <5> QED
          BY <5>1 DEF Covers, arc
      <4>2. CASE <<arc.to, cue>> \notin now
        <5>1. cue \in DOMAIN Arrivals(from, arc)
          BY <3>1, <3>2, <4>2 DEF Arrivals, Open
        <5> HIDE DEF sent
        <5> QED
          BY <1>7, <5>1
      <4> QED
        BY <4>1, <4>2
    <3>3. spent'[<<n, cue>>] = states[from].signals[cue].activation
      BY <1>10, <3>1
    <3> HIDE DEF sent, now, from
    <3>4. Delivered(n, cue, states, candidates)'
      BY <1>1, <1>12, <1>13, <3>1, <3>2, <3>3 DEF Delivered, SentAlong
    <3> QED
      BY <2>3, <3>4
  <2> QED
    BY <2>3, <2>4, <2>5
<1> HIDE DEF sent, now, from
<1> QED
  BY <1>1, <1>14 DEF Complete

(* A sequence without members is empty. *)
LEMMA NothingTaken ==
    ASSUME NEW S, NEW s \in Seq(S), ToSet(s) = {}
    PROVE  s = <<>>
<1>1. DOMAIN s = 1..Len(s) /\ Len(s) \in Nat
  OBVIOUS
<1>2. \A i \in DOMAIN s : s[i] \in ToSet(s)
  BY <1>1 DEF ToSet
<1>3. DOMAIN s = {}
  BY <1>2
<1>4. Len(s) = 0
  <2>1. Len(s) # 0 => 1 \in 1..Len(s)
    BY <1>1
  <2> QED
    BY <1>1, <1>3, <2>1
<1> QED
  BY <1>4

LEMMA EndCompletes ==
    ASSUME FieldInv, Complete, EndRound
    PROVE  Complete'
<1> DEFINE frontier == NextFrontier
           next == ToSet(frontier.next)
<1>1. /\ ~done /\ active = <<>>
      /\ states' = [n \in DOMAIN states \cup next |-> IF n \in next THEN Merged(n) ELSE states[n]]
      /\ active' = frontier.next
      /\ candidates' = EmptyMap /\ input' = input /\ spent' = spent
      /\ arcs' = arcs /\ config' = config /\ expanded' = expanded
  BY DEF EndRound, arcs, config, expanded
<1>2. ~budget_exhausted' => ~budget_exhausted /\ ~frontier.exhausted /\ (done' => next = {})
  BY DEF EndRound
<1>3. /\ frontier.next \in Seq(DOMAIN candidates)
      /\ ~frontier.exhausted => DOMAIN candidates \subseteq next
  BY FrontierChosen DEF Chosen
<1>4. next \subseteq DOMAIN candidates
  BY <1>3 DEF ToSet
<1>5. PICK rank : Backwards(rank)
  BY DEF FieldInv
<1> HIDE DEF next, frontier
<1>6. ASSUME NEW n \in next
      PROVE  /\ DOMAIN states'[n].signals
                  = DOMAIN candidates[n].signals
                      \cup (IF n \in DOMAIN states THEN DOMAIN states[n].signals ELSE {})
  <2>1. states'[n] = Merged(n)
    BY <1>1
  <2> QED
    BY <2>1 DEF Merged
<1>7. \A n, cue : Covers(states, n, cue) => Covers(states', n, cue)
  BY <1>1, <1>6 DEF Covers
<1>8. ~frontier.exhausted => \A n, cue : Covers(candidates, n, cue) => Covers(states', n, cue)
  BY <1>1, <1>3, <1>6 DEF Covers
<1>9. \A n : adjacency(n)' = adjacency(n)
  BY <1>1 DEF adjacency, InOrder
<1>10. \A activation, arc, degree :
           transmitted(activation, arc, degree)' = transmitted(activation, arc, degree)
  BY <1>1 DEF transmitted
<1>11. ToSet(<<>>) = {}
  BY DEF ToSet
<1>12. \A x \in expanded : Covers(states, x[1], x[2]) /\ x = <<x[1], x[2]>>
  <2> SUFFICES ASSUME NEW x \in expanded
               PROVE  Covers(states, x[1], x[2]) /\ x = <<x[1], x[2]>>
    OBVIOUS
  <2>1. PICK n \in DOMAIN states : x \in {n} \X DOMAIN states[n].signals
    BY DEF FieldInv, LanesOf
  <2> QED
    BY <2>1 DEF Covers
<1>13. ASSUME ~budget_exhausted', NEW n \in DOMAIN states', NEW cue \in DOMAIN states'[n].signals
       PROVE  /\ <<n, cue>> \in expanded \/ n \in next
              /\ <<n, cue>> \in expanded => Delivered(n, cue, states, candidates)'
  <2>1. n \notin next => n \in DOMAIN states /\ cue \in DOMAIN states[n].signals
    BY <1>1, <1>13
  <2>2. <<n, cue>> \in expanded \/ n \in next
    BY <1>1, <1>2, <1>11, <1>13, <2>1 DEF Complete
  <2>3. CASE <<n, cue>> \in expanded
    <3>1. n \in DOMAIN states /\ cue \in DOMAIN states[n].signals
      BY <1>12, <2>3 DEF Covers
    <3>2. Delivered(n, cue, states, candidates)
      BY <1>2, <1>13, <2>3, <3>1 DEF Complete
    <3>3. Delivered(n, cue, states, candidates)'
      BY <1>1, <1>2, <1>7, <1>8, <1>9, <1>10, <1>13, <3>2 DEF Delivered
    <3> QED
      BY <2>2, <3>3
  <2> QED
    BY <2>2, <2>3
<1>14. done' /\ ~budget_exhausted' => active' = <<>> /\ candidates' = EmptyMap
  <2> SUFFICES ASSUME done', ~budget_exhausted' PROVE active' = <<>>
    BY <1>1
  <2>1. next = {}
    BY <1>2
  <2>2. frontier.next \in Seq(DOMAIN candidates) /\ ToSet(frontier.next) = {}
    BY <1>3, <2>1 DEF next
  <2>3. frontier.next = <<>>
    BY <2>2, NothingTaken
  <2> QED
    BY <1>1, <2>3
<1>15. ToSet(active)' = next
  BY <1>1 DEF next, ToSet
<1> QED
  BY <1>1, <1>13, <1>14, <1>15 DEF Complete

(* Exhaustion is reported (law 7): a field without it has every signal     *)
(* that an arc carries, if the first frontier has room for the cues        *)
(* (lib.rs:317, 399-411, 448-450).                                         *)
THEOREM SpecExhaustionObservable ==
    ASSUME CuesFit
    PROVE  SpecP => []ExhaustionObservable
<1>1. Init => Complete
  BY CompleteInitially
<1>2. FieldInv /\ Complete /\ [Next]_vars => Complete'
  <2> SUFFICES ASSUME FieldInv, Complete, [Next]_vars PROVE Complete'
    OBVIOUS
  <2>1. CASE ExpandNode
    BY <2>1, ExpandCompletes
  <2>2. CASE EndRound
    BY <2>2, EndCompletes
  <2>3. CASE UNCHANGED vars
    <3>1. /\ states' = states /\ active' = active /\ spent' = spent /\ candidates' = candidates
          /\ budget_exhausted' = budget_exhausted /\ done' = done
          /\ arcs' = arcs /\ config' = config /\ expanded' = expanded
      BY <2>3 DEF vars, arcs, config, expanded
    <3>2. \A n : adjacency(n)' = adjacency(n)
      BY <3>1 DEF adjacency, InOrder
    <3>3. \A activation, arc, degree :
              transmitted(activation, arc, degree)' = transmitted(activation, arc, degree)
      BY <3>1 DEF transmitted
    <3>4. \A n, cue : Delivered(n, cue, states, candidates)' <=> Delivered(n, cue, states, candidates)
      BY <3>1, <3>2, <3>3 DEF Delivered
    <3> QED
      BY <3>1, <3>4 DEF Complete
  <2> QED
    BY <2>1, <2>2, <2>3 DEF Next
<1>3. FieldInv /\ Complete => ExhaustionObservable
  <2> SUFFICES ASSUME FieldInv, Complete, done, ~budget_exhausted,
                      NEW n \in DOMAIN states, NEW cue \in DOMAIN states[n].signals,
                      NEW j \in 1..Len(adjacency(n)),
                      LET activation == IF <<n, cue>> \in expanded THEN spent[<<n, cue>>]
                                        ELSE states[n].signals[cue].activation
                      IN  transmitted(activation, adjacency(n)[j], Len(adjacency(n)))
                              >= config.minimum_activation
               PROVE  Covers(states, adjacency(n)[j].to, cue)
    BY DEF ExhaustionObservable, Covers
  <2>1. active = <<>> /\ candidates = EmptyMap
    BY DEF Complete
  <2>2. ToSet(<<>>) = {}
    BY DEF ToSet
  <2>3. <<n, cue>> \in expanded /\ Delivered(n, cue, states, candidates)
    BY <2>1, <2>2 DEF Complete
  <2>4. \A m : ~Covers(EmptyMap, m, cue)
    BY EmptyTyped DEF Covers
  <2> QED
    BY <2>1, <2>3, <2>4 DEF Delivered
<1> QED
  BY <1>1, <1>2, <1>3, QueryKeepsField, SpecFieldInv, PTL DEF Spec

-----------------------------------------------------------------------------
(* Bytes of texts *)

(* f[k] is what the first k widths come to. *)
Sums(s, f) ==
    /\ f \in [0..Len(s) -> Nat] /\ f[0] = 0
    /\ \A k \in 1..Len(s) : f[k] = f[k - 1] + s[k]

LEMMA BytesIsSum ==
    ASSUME NEW s \in Seq(Nat)
    PROVE  \E f : Sums(s, f) /\ f[Len(s)] = Bytes(s)
<1> DEFINE N == Len(s)
           pick == LastPlace(N)
           step == [x \in (1..N) \X Nat |-> x[2] + s[x[1]]]
           Is(f) == f = [t \in SUBSET (DOMAIN s) |->
                            IF t = {} THEN 0 ELSE LET x == Max(t) IN f[t \ {x}] + s[x]]
           all == CHOOSE f : Is(f)
           sums == [k \in 0..N |-> all[1..k]]
<1>1. Bytes(s) = all[DOMAIN s]
  BY DEF Bytes, FoldLeft, MapThenFoldSet
<1>2. N \in Nat /\ DOMAIN s = 1..N /\ \A i \in 1..N : s[i] \in Nat
  OBVIOUS
<1>3. IsFiniteSet(1..N) /\ Picks(pick, 1..N)
  BY <1>2, LastPlacePicks
<1> HIDE DEF N
<1>4. step \in [(1..N) \X Nat -> Nat]
  BY <1>2
<1>5. \E f \in [SUBSET (1..N) -> Nat] : Is(f)
  <2> HIDE DEF step, Is, pick
  <2>1. PICK f : IsIteration(f, 1..N, Nat, pick, 0, step)
    BY <1>3, <1>4, IterationExists
  <2>2. \A t \in SUBSET (1..N) : f[t] = IF t = {} THEN 0
                                       ELSE LET x == Max(t) IN f[t \ {x}] + s[x]
    <3> SUFFICES ASSUME NEW t \in SUBSET (1..N), t # {}
                 PROVE  f[t] = f[t \ {Max(t)}] + s[Max(t)]
      BY <2>1 DEF IsIteration
    <3>1. pick[t] = Max(t) /\ Max(t) \in 1..N
      BY <1>3 DEF pick, LastPlace, Picks
    <3>2. f[t] = step[<<Max(t), f[t \ {Max(t)}]>>] /\ <<Max(t), f[t \ {Max(t)}]>> \in (1..N) \X Nat
      BY <2>1, <3>1 DEF IsIteration
    <3> QED
      BY <3>2 DEF step
  <2>3. f = [t \in SUBSET (DOMAIN s) |->
                IF t = {} THEN 0 ELSE LET x == Max(t) IN f[t \ {x}] + s[x]]
    BY <1>2, <2>1, <2>2 DEF IsIteration
  <2> QED
    BY <2>1, <2>3 DEF Is, IsIteration
<1>6. Is(all)
  BY <1>5
<1> HIDE DEF all
<1>7. \A t \in SUBSET (1..N) : all[t] = IF t = {} THEN 0
                                       ELSE LET x == Max(t) IN all[t \ {x}] + s[x]
  BY <1>2, <1>6
<1>8. \A t \in SUBSET (1..N) : all[t] \in Nat
  <2> DEFINE S == 1..N
  <2>1. all[{}] \in Nat
    <3>1. {} \in SUBSET (1..N) /\ all[{}] = 0
      BY <1>7
    <3> QED
      BY <3>1
  <2>2. \A t \in SUBSET S : t # {} /\ all[t \ {pick[t]}] \in Nat => all[t] \in Nat
    <3> SUFFICES ASSUME NEW t \in SUBSET (1..N), t # {}, all[t \ {pick[t]}] \in Nat
                 PROVE  all[t] \in Nat
      OBVIOUS
    <3>1. pick[t] = Max(t) /\ Max(t) \in 1..N
      BY <1>3 DEF LastPlace, Picks
    <3>2. all[t] = all[t \ {Max(t)}] + s[Max(t)]
      BY <1>7
    <3> QED
      BY <1>2, <3>1, <3>2
  <2>3. IsFiniteSet(S) /\ Picks(pick, S)
    BY <1>3
  <2> HIDE DEF S, pick
  <2>4. \A t \in SUBSET S : all[t] \in Nat
    BY <2>1, <2>2, <2>3, IterationTyped
  <2> QED
    BY <2>4 DEF S
<1>9. \A k \in 0..N : 1..k \in SUBSET (1..N)
  BY <1>2
<1>10. sums \in [0..N -> Nat]
  BY <1>8, <1>9
<1>11. sums[0] = 0
  <2>1. 1..0 = {} /\ 0 \in 0..N
    BY <1>2
  <2> QED
    BY <1>7, <1>9, <2>1
<1>12. ASSUME NEW k \in 1..N PROVE sums[k] = sums[k - 1] + s[k]
  <2>1. /\ k \in 0..N /\ k - 1 \in 0..N /\ k \in 1..k
        /\ 1..k \subseteq Int /\ \A x \in 1..k : x <= k
    BY <1>2
  <2>2. Max(1..k) = k
    BY <2>1, MaxOf
  <2>3. (1..k) \ {k} = 1..(k - 1)
    BY <1>2
  <2>4. all[1..k] = all[1..(k - 1)] + s[k]
    BY <1>7, <1>9, <2>1, <2>2, <2>3
  <2> QED
    BY <2>1, <2>4
<1>13. sums[N] = Bytes(s)
  BY <1>1, <1>2
<1> HIDE DEF sums
<1> QED
  BY <1>10, <1>11, <1>12, <1>13 DEF Sums, N

LEMMA AppendIs ==
    ASSUME NEW S, NEW s \in Seq(S), NEW x \in S
    PROVE  Append(s, x) = [i \in 1..(Len(s) + 1) |-> IF i = Len(s) + 1 THEN x ELSE s[i]]
<1> DEFINE t == Append(s, x)
           n == Len(s)
<1>1. n \in Nat /\ IsSeq(s)
  BY DEF IsSeq
<1>2. /\ t = [i \in 1..Len(t) |-> t[i]] /\ Len(t) = n + 1 /\ t[n + 1] = x
      /\ \A i \in 1..n : t[i] = s[i]
  BY <1>1, AppendSeq DEF IsSeq
<1> HIDE DEF t, n
<1>3. \A i \in 1..(n + 1) : t[i] = IF i = n + 1 THEN x ELSE s[i]
  BY <1>1, <1>2
<1>4. t = [i \in 1..(n + 1) |-> IF i = n + 1 THEN x ELSE s[i]]
  BY <1>2, <1>3
<1> QED
  BY <1>4 DEF t, n

LEMMA SumsAgree ==
    ASSUME NEW s \in Seq(Nat), NEW t \in Seq(Nat), NEW f, NEW g, Sums(s, f), Sums(t, g),
           Len(s) <= Len(t), \A i \in 1..Len(s) : s[i] = t[i]
    PROVE  f[Len(s)] = g[Len(s)]
<1> DEFINE N == Len(s)
           T == {k \in 0..N : f[k] = g[k]}
<1>1. N \in Nat /\ Len(t) \in Nat
  OBVIOUS
<1>2. 0 \in T
  BY <1>1 DEF Sums
<1>3. \A k \in 0..N : k \in T /\ k < N => k + 1 \in T
  <2> SUFFICES ASSUME NEW k \in 0..N, f[k] = g[k], k < N
               PROVE  k + 1 \in 0..N /\ f[k + 1] = g[k + 1]
    OBVIOUS
  <2>1. k + 1 \in 1..Len(s) /\ k + 1 \in 1..Len(t) /\ (k + 1) - 1 = k
    BY <1>1
  <2> QED
    BY <2>1 DEF Sums
<1> HIDE DEF T
<1>4. \A k \in 0..N : k \in T
  BY <1>1, <1>2, <1>3, InductionUpTo
<1> QED
  BY <1>1, <1>4 DEF T

LEMMA AppendBytes ==
    ASSUME NEW s \in Seq(Nat), NEW x \in Nat
    PROVE  Bytes(s) \in Nat /\ Bytes(Append(s, x)) = Bytes(s) + x
<1> DEFINE t == Append(s, x)
<1>1. /\ t \in Seq(Nat) /\ Len(t) = Len(s) + 1 /\ Len(s) \in Nat
      /\ t[Len(s) + 1] = x /\ \A i \in 1..Len(s) : s[i] = t[i]
  OBVIOUS
<1> HIDE DEF t
<1>2. PICK f : Sums(s, f) /\ f[Len(s)] = Bytes(s)
  BY BytesIsSum
<1>3. PICK g : Sums(t, g) /\ g[Len(t)] = Bytes(t)
  BY <1>1, BytesIsSum
<1>4. f[Len(s)] = g[Len(s)]
  BY <1>1, <1>2, <1>3, SumsAgree
<1>5. Len(t) \in 1..Len(t) /\ Len(t) - 1 = Len(s)
  BY <1>1
<1>6. g[Len(t)] = g[Len(s)] + t[Len(t)]
  BY <1>3, <1>5 DEF Sums
<1>7. Bytes(s) \in Nat
  BY <1>1, <1>2 DEF Sums
<1> QED
  BY <1>1, <1>2, <1>3, <1>4, <1>6, <1>7 DEF t

LEMMA NoBytes == Bytes(<<>>) = 0
<1>1. <<>> \in Seq(Nat) /\ Len(<<>>) = 0
  OBVIOUS
<1>2. PICK f : Sums(<<>>, f) /\ f[0] = Bytes(<<>>)
  BY <1>1, BytesIsSum
<1> QED
  BY <1>2 DEF Sums

LEMMA LargestNatural ==
    ASSUME NEW S, S \subseteq Nat, S # {}, NEW b \in Nat, \A x \in S : x <= b
    PROVE  Max(S) \in S /\ \A x \in S : x <= Max(S)
<1> DEFINE T == {b - x : x \in S}
<1>1. \A x \in S : x \in Nat /\ b - x \in Nat
  OBVIOUS
<1>2. T \subseteq Nat /\ T # {}
  BY <1>1
<1> HIDE DEF T
<1>3. PICK m \in T : \A n \in T : m <= n
  BY <1>2, LeastNatural
<1>4. PICK x \in S : m = b - x
  BY DEF T
<1>5. \A y \in S : y <= x
  <2> SUFFICES ASSUME NEW y \in S PROVE y <= x
    OBVIOUS
  <2>1. b - y \in T
    BY DEF T
  <2>2. b - x <= b - y
    BY <1>3, <1>4, <2>1
  <2> QED
    BY <1>1, <2>2
<1>6. S \subseteq Int
  OBVIOUS
<1>7. Max(S) = x
  BY <1>5, <1>6, MaxOf
<1> QED
  BY <1>5, <1>7

(* An excerpt fits; what is left when a text was cut is less than one of   *)
(* its characters.                                                         *)
LEMMA ExcerptFits ==
    ASSUME NEW text \in Seq(1..4), NEW budget \in Nat
    PROVE  /\ excerpt(text, budget) \in Nat /\ excerpt(text, budget) <= budget
           /\ excerpt(text, budget) < Bytes(text) => excerpt(text, budget) + 4 > budget
<1> DEFINE first(k) == SubSeq(text, 1, k)
           S == {n \in {Bytes(first(k)) : k \in 0..Len(text)} : n <= budget}
           taken == Max(S)
<1>1. excerpt(text, budget) = taken
  BY DEF excerpt
<1>2. Len(text) \in Nat /\ text \in Seq(Nat) /\ \A i \in 1..Len(text) : text[i] \in 1..4
  OBVIOUS
<1>3. \A k \in 0..Len(text) : first(k) \in Seq(Nat)
  BY <1>2
<1>4. \A k \in 0..Len(text) : Bytes(first(k)) \in Nat
  BY <1>3, AppendBytes
<1>5. first(0) = <<>> /\ 0 \in 0..Len(text)
  BY <1>2
<1>6. 0 \in S
  <2>1. Bytes(first(0)) = 0
    BY <1>5, NoBytes, Zenon
  <2>2. 0 <= budget
    OBVIOUS
  <2> HIDE DEF first
  <2> QED
    BY <1>5, <2>1, <2>2
<1>7. S \subseteq Nat /\ \A n \in S : n <= budget
  BY <1>4
<1>8. ASSUME NEW k \in 0..Len(text), k < Len(text)
      PROVE  /\ k + 1 \in 0..Len(text)
             /\ Bytes(first(k)) < Bytes(first(k + 1))
             /\ Bytes(first(k + 1)) <= Bytes(first(k)) + 4
  <2>1. k + 1 \in 0..Len(text) /\ k + 1 \in 1..Len(text)
    BY <1>2, <1>8
  <2>2. first(k + 1) = Append(first(k), text[k + 1])
    BY <1>2, <2>1
  <2>3. text[k + 1] \in 1..4 /\ text[k + 1] \in Nat
    BY <1>2, <2>1
  <2>4. Bytes(first(k + 1)) = Bytes(first(k)) + text[k + 1]
    BY <1>3, <2>2, <2>3, AppendBytes
  <2> HIDE DEF first
  <2> QED
    BY <1>4, <2>1, <2>3, <2>4
<1>9. first(Len(text)) = text
  BY <1>2
<1>10. \A n : n \in S <=> (\E k \in 0..Len(text) : n = Bytes(first(k))) /\ n <= budget
  OBVIOUS
<1> HIDE DEF first, S
<1>11. taken \in S /\ \A n \in S : n <= taken
  BY <1>6, <1>7, LargestNatural
<1> HIDE DEF taken
<1>12. ASSUME taken < Bytes(text) PROVE taken + 4 > budget
  <2>1. PICK k \in 0..Len(text) : taken = Bytes(first(k))
    BY <1>10, <1>11
  <2>2. taken \in Nat
    BY <1>7, <1>11
  <2>3. k # Len(text)
    BY <1>9, <1>12, <2>1, <2>2
  <2>4. k < Len(text)
    BY <1>2, <2>3
  <2>5. PICK next : next = Bytes(first(k + 1))
    OBVIOUS
  <2>6. next \in Nat /\ taken < next /\ next <= taken + 4
    BY <1>4, <1>8, <2>1, <2>4, <2>5
  <2>7. CASE next <= budget
    <3>1. next \in S
      BY <1>8, <1>10, <2>4, <2>5, <2>7
    <3> QED
      BY <1>11, <2>2, <2>6, <3>1
  <2>8. CASE ~(next <= budget)
    BY <2>2, <2>6, <2>8
  <2> QED
    BY <2>7, <2>8
<1> QED
  BY <1>1, <1>7, <1>11, <1>12

-----------------------------------------------------------------------------
(* The query and the order of its hits *)

LEMMA QueryTyped ==
    ASSUME input \in Inputs
    PROVE  /\ input.retrieval.max_evidence \in Nat \ {0}
           /\ input.retrieval.max_context_bytes \in Nat \ {0}
           /\ input.retrieval.minimum_cue_support \in Nat
           /\ Len(input.known_terms) \in Nat
           /\ \A cue \in 1..Len(cues) :
                 /\ input.known_terms[cue] \in DOMAIN input.index.node_index
                 /\ input.index.node_index[input.known_terms[cue]] = cues[cue].node
           /\ \A i, j \in 1..Len(cues) : input.known_terms[i] = input.known_terms[j] => i = j
           /\ \A passage \in input.index.passage_ids : input.index.texts[passage] \in Seq(1..4)
<1>1. /\ validate_retrieval(input.retrieval)
      /\ Len(input.known_terms) = Len(cues)
      /\ \A cue \in 1..Len(cues) :
                 /\ input.known_terms[cue] \in DOMAIN input.index.node_index
                 /\ input.index.node_index[input.known_terms[cue]] = cues[cue].node
      /\ \A i, j \in 1..Len(cues) : input.known_terms[i] = input.known_terms[j] => i = j
      /\ \A passage \in input.index.passage_ids : input.index.texts[passage] \in Seq(1..4)
  BY QueryAssumption DEF cues
<1>2. Len(cues) \in Nat
  BY InputTyped
<1>3. EVIDENCE_LIMIT \in Nat /\ CONTEXT_LIMIT \in Nat /\ SUPPORT_LIMIT \in Nat
  BY DEF EVIDENCE_LIMIT, CONTEXT_LIMIT, SUPPORT_LIMIT
<1>4. /\ input.retrieval.max_evidence \in Nat \ {0}
      /\ input.retrieval.max_context_bytes \in Nat \ {0}
      /\ input.retrieval.minimum_cue_support \in Nat
  BY <1>1, <1>3 DEF validate_retrieval
<1> QED
  BY <1>1, <1>2, <1>4

LEMMA HitsInOrder ==
    ASSUME FieldInv
    PROVE  /\ Hits \in Seq(DOMAIN states) /\ Len(Hits) = Cardinality(DOMAIN states)
           /\ Len(Hits) \in Nat
           /\ \A n \in DOMAIN states : \E i \in 1..Len(Hits) : Hits[i] = n
           /\ \A i, j \in 1..Len(Hits) :
                 i < j => Cardinality(Lanes(Hits[i])) >= Cardinality(Lanes(Hits[j]))
<1> DEFINE S == DOMAIN states
           lanes == [n \in S |-> Cardinality(Lanes(n))]
           total == [n \in S |-> Total(n)]
           deep == [n \in S |-> states[n].depth]
           before(m, n) ==
               \/ lanes[m] - lanes[n] > 0
               \/ lanes[m] - lanes[n] = 0 /\ total[m] - total[n] > 0
               \/ lanes[m] - lanes[n] = 0 /\ total[m] - total[n] = 0 /\ deep[n] - deep[m] > 0
               \/ /\ lanes[m] - lanes[n] = 0 /\ total[m] - total[n] = 0
                  /\ deep[n] - deep[m] = 0 /\ m < n
           R == {x \in S \X S : before(x[1], x[2])}
           q == Hits
<1>1. lanes \in [S -> Nat] /\ total \in [S -> Nat] /\ deep \in [S -> Nat]
  <2> SUFFICES ASSUME NEW n \in S
               PROVE  Cardinality(Lanes(n)) \in Nat /\ Total(n) \in Nat /\ states[n].depth \in Nat
    OBVIOUS
  <2>1. states[n].signals \in LaneMaps /\ states[n].depth \in Nat
    BY StatesTyped
  <2> QED
    BY <2>1, LanesFinite, TotalTyped DEF Lanes, Total, FieldInv
<1>2. S \subseteq Nat /\ IsFiniteSet(S)
  BY StatesTyped DEF FieldInv
<1>3. Orders(R, S)
  <2> HIDE DEF lanes, total, deep, S
  <2>1. \A x, y \in S : <<x, y>> \in R <=> before(x, y)
    OBVIOUS
  <2> HIDE DEF R
  <2>2. \A x \in S : ~before(x, x)
    BY <1>1, <1>2
  <2>3. \A x, y \in S : x # y => before(x, y) \/ before(y, x)
    BY <1>1, <1>2
  <2>4. \A x, y, z \in S : before(x, y) /\ before(y, z) => before(x, z)
    BY <1>1, <1>2
  <2> HIDE DEF before
  <2> QED
    BY <2>1, <2>2, <2>3, <2>4 DEF Orders
<1>4. q = [k \in 1..Cardinality(S) |->
             CHOOSE x \in S : Cardinality({y \in S : HitBefore(y, x)}) = k - 1]
  BY DEF Hits, InOrder
<1>5. \A x, y \in S : <<x, y>> \in R <=> HitBefore(x, y)
  BY DEF HitBefore
<1>6. \A x \in S : Place(R, S, x) = Cardinality({y \in S : HitBefore(y, x)})
  <2> SUFFICES ASSUME NEW x \in S
               PROVE  {y \in S : <<y, x>> \in R} = {y \in S : HitBefore(y, x)}
    BY DEF Place
  <2> HIDE DEF R, S
  <2> QED
    BY <1>5
<1>7. ASSUME NEW k \in 1..Cardinality(S), NEW x \in S, Place(R, S, x) = k - 1
      PROVE  q[k] \in S /\ Place(R, S, q[k]) = k - 1
  <2> HIDE DEF R, lanes, total, deep, q
  <2> QED
    BY <1>4, <1>6, <1>7
<1>8. q = [k \in 1..Cardinality(S) |-> q[k]]
  <2> DEFINE at(k) == CHOOSE x \in S : Cardinality({y \in S : HitBefore(y, x)}) = k - 1
  <2>1. q = [k \in 1..Cardinality(S) |-> at(k)]
    BY <1>4
  <2> HIDE DEF at, q, S
  <2> QED
    BY <2>1
<1>9. \A x, y \in S : <<x, y>> \in R => Cardinality(Lanes(x)) >= Cardinality(Lanes(y))
  <2> SUFFICES ASSUME NEW x \in S, NEW y \in S, before(x, y) PROVE lanes[x] >= lanes[y]
    OBVIOUS
  <2>1. lanes[x] \in Nat /\ lanes[y] \in Nat
    BY <1>1
  <2> HIDE DEF lanes, total, deep
  <2> QED
    BY <2>1
<1> HIDE DEF R, q, S
<1>10. InOrderOf(q, S, R)
  BY <1>2, <1>3, <1>7, <1>8, PlacesGiveOrder
<1>11. Cardinality(S) \in Nat
  BY <1>2, FS_CardinalityType
<1>12. \A i, j \in 1..Len(q) : i < j => Cardinality(Lanes(q[i])) >= Cardinality(Lanes(q[j]))
  <2>1. \A i \in 1..Len(q) : q[i] \in S
    BY <1>10 DEF InOrderOf
  <2> QED
    BY <1>9, <1>10, <2>1 DEF InOrderOf
<1> QED
  BY <1>10, <1>11, <1>12 DEF InOrderOf, q, S

-----------------------------------------------------------------------------
(* What is true of a packet in the making.  Nothing is taken before the    *)
(* field is done; its states are then what they are, and the evidence      *)
(* names the lanes of its nodes.                                           *)

Taken(item) ==
    /\ item.passage \in DOMAIN states /\ item.passage \in input.index.passage_ids
    /\ item.bytes \in Nat
    /\ item.supporting_cues = {TermOf(cue) : cue \in Lanes(item.passage)}

PacketInv ==
    /\ hit \in Nat /\ hit <= Len(Hits)
    /\ IsSeq(evidence) /\ context_bytes \in Nat
    /\ ~done => hit = 0 /\ evidence = <<>> /\ context_bytes = 0 /\ ~answered
    /\ \A i \in 1..Len(evidence) : Taken(evidence[i])

Untouched == hit = 0 /\ evidence = <<>> /\ context_bytes = 0 /\ ~answered

LEMMA UntouchedPacket ==
    ASSUME FieldInv, Untouched
    PROVE  PacketInv
<1>1. Len(Hits) \in Nat
  BY HitsInOrder
<1>2. IsSeq(<<>>) /\ Len(<<>>) = 0
  BY DEF IsSeq
<1> QED
  BY <1>1, <1>2 DEF Untouched, PacketInv

(* The field is not done in any of its own steps. *)
LEMMA FieldSteps ==
    ASSUME PacketInv, Next, UNCHANGED packetVars
    PROVE  Untouched' /\ input' = input
<1>1. ~done /\ input' = input
  BY DEF Next, ExpandNode, EndRound
<1> QED
  BY <1>1 DEF PacketInv, Untouched, packetVars

LEMMA FieldStands ==
    ASSUME UNCHANGED vars
    PROVE  /\ input' = input /\ states' = states /\ done' = done /\ Hits' = Hits
           /\ \A item : Taken(item)' <=> Taken(item)
<1>1. input' = input /\ states' = states /\ done' = done
  BY DEF vars
<1>2. Hits' = Hits
  BY <1>1 DEF Hits, InOrder, HitBefore, Lanes, Total
<1>3. \A item : Taken(item)' <=> Taken(item)
  BY <1>1 DEF Taken, TermOf, Lanes
<1> QED
  BY <1>1, <1>2, <1>3

(* The packet's own steps look at a hit or end. *)
LEMMA PacketSteps ==
    ASSUME PacketInv, FieldInv, UNCHANGED vars, SkipHit \/ TakeEvidence \/ Answer
    PROVE  PacketInv'
<1>1. /\ done' = done /\ Hits' = Hits /\ done /\ IsSeq(evidence)
      /\ \A item : Taken(item)' <=> Taken(item)
  BY FieldStands DEF SkipHit, TakeEvidence, Answer, LookAtHit, PacketInv
<1>2. Len(Hits) \in Nat /\ hit \in Nat /\ context_bytes \in Nat
  BY HitsInOrder DEF PacketInv
<1>3. CASE SkipHit
  <2>1. /\ hit' = hit + 1 /\ hit < Len(Hits)
        /\ evidence' = evidence /\ context_bytes' = context_bytes
    BY <1>3 DEF SkipHit, LookAtHit
  <2> QED
    BY <1>1, <1>2, <2>1 DEF PacketInv
<1>4. CASE TakeEvidence
  <2> DEFINE node == Hits[hit + 1]
             text == input.index.texts[node]
             taken == excerpt(text, Remaining(context_bytes))
             item == [passage |-> node, bytes |-> taken, truncated |-> taken < Bytes(text),
                      supporting_cues |-> {TermOf(cue) : cue \in Lanes(node)}]
  <2>1. /\ hit' = hit + 1 /\ hit < Len(Hits)
        /\ evidence' = Append(evidence, item) /\ context_bytes' = context_bytes + taken
    BY <1>4 DEF TakeEvidence, LookAtHit
  <2>2. node \in DOMAIN states /\ node \in input.index.passage_ids
    <3>1. hit + 1 \in 1..Len(Hits)
      BY <1>2, <2>1
    <3> QED
      BY <1>4, <3>1, HitsInOrder DEF TakeEvidence, IsEvidence
  <2>3. taken \in Nat
    <3>1. text \in Seq(1..4) /\ input.retrieval.max_context_bytes \in Nat
      BY <2>2, QueryTyped DEF FieldInv
    <3>2. Remaining(context_bytes) \in Nat
      BY <1>2, <3>1 DEF Remaining
    <3> HIDE DEF text
    <3> QED
      BY <3>1, <3>2, ExcerptFits
  <2>4. Taken(item)
    BY <2>2, <2>3 DEF Taken
  <2> HIDE DEF item
  <2>5. /\ IsSeq(evidence') /\ Len(evidence') = Len(evidence) + 1 /\ Len(evidence) \in Nat
        /\ evidence'[Len(evidence) + 1] = item
        /\ \A i \in 1..Len(evidence) : evidence'[i] = evidence[i]
    BY <1>1, <2>1, AppendSeq DEF IsSeq
  <2>6. \A i \in 1..Len(evidence') : i \in 1..Len(evidence) \/ i = Len(evidence) + 1
    BY <2>5
  <2> HIDE DEF taken
  <2>7. context_bytes' \in Nat /\ hit' \in Nat /\ hit' <= Len(Hits)
    BY <1>2, <2>1, <2>3
  <2> QED
    BY <1>1, <2>4, <2>5, <2>6, <2>7 DEF PacketInv
<1>5. CASE Answer
  <2>1. hit' = hit /\ evidence' = evidence /\ context_bytes' = context_bytes
    BY <1>5 DEF Answer
  <2> QED
    BY <1>1, <1>2, <2>1 DEF PacketInv
<1> QED
  BY <1>3, <1>4, <1>5

LEMMA HitsCounted ==
    ASSUME FieldInv'
    PROVE  Len(Hits') \in Nat
<1> DEFINE N == Cardinality(DOMAIN states')
           at(k) == CHOOSE x \in DOMAIN states' :
                       Cardinality({y \in DOMAIN states' : HitBefore(y, x)'}) = k - 1
<1>1. Hits' = [k \in 1..N |-> at(k)]
  BY DEF Hits, InOrder
<1>2. IsFiniteSet(DOMAIN states')
  BY DEF FieldInv
<1>3. N \in Nat
  BY <1>2, FS_CardinalityType
<1> HIDE DEF N, at
<1>4. Len([k \in 1..N |-> at(k)]) = N
  BY <1>3
<1> QED
  BY <1>1, <1>3, <1>4, Zenon

LEMMA PacketInductive == PacketInv /\ FieldInv /\ FieldInv' /\ [NextP]_varsP => PacketInv'
<1> SUFFICES ASSUME PacketInv, FieldInv, FieldInv', [NextP]_varsP PROVE PacketInv'
  OBVIOUS
<1>1. CASE Next /\ UNCHANGED packetVars
  <2>1. hit' = 0 /\ evidence' = <<>> /\ context_bytes' = 0 /\ ~answered'
    BY <1>1, FieldSteps DEF Untouched
  <2>2. Len(Hits') \in Nat
    BY HitsCounted
  <2>3. IsSeq(<<>>) /\ Len(<<>>) = 0
    BY DEF IsSeq
  <2> QED
    BY <2>1, <2>2, <2>3 DEF PacketInv
<1>2. CASE SkipHit \/ TakeEvidence \/ Answer
  BY <1>2, PacketSteps DEF SkipHit, TakeEvidence, Answer, LookAtHit
<1>3. CASE UNCHANGED varsP
  <2>1. /\ UNCHANGED vars /\ hit' = hit /\ evidence' = evidence
        /\ context_bytes' = context_bytes /\ answered' = answered
    BY <1>3 DEF varsP, packetVars
  <2> QED
    BY <2>1, FieldStands DEF PacketInv
<1> QED
  BY <1>1, <1>2, <1>3 DEF NextP, Returned

-----------------------------------------------------------------------------
(* The context: what was taken adds up, and what was cut left less than a  *)
(* character of the budget.                                                *)

Widths == [i \in 1..Len(evidence) |-> evidence[i].bytes]

LEMMA ContextStarts ==
    ASSUME input \in Inputs, Untouched
    PROVE  ContextBounded
<1>1. Len(<<>>) = 0 /\ Widths = <<>>
  BY DEF Untouched, Widths
<1>2. Bytes(Widths) = 0
  BY <1>1, NoBytes
<1> QED
  BY <1>1, <1>2, QueryTyped DEF ContextBounded, Untouched, Widths

LEMMA TakeKeepsContext ==
    ASSUME PacketInv, FieldInv, ContextBounded, TakeEvidence
    PROVE  ContextBounded'
<1> DEFINE node == Hits[hit + 1]
           text == input.index.texts[node]
           most == input.retrieval.max_context_bytes
           taken == excerpt(text, Remaining(context_bytes))
           item == [passage |-> node, bytes |-> taken, truncated |-> taken < Bytes(text),
                    supporting_cues |-> {TermOf(cue) : cue \in Lanes(node)}]
<1>1. /\ evidence' = Append(evidence, item) /\ context_bytes' = context_bytes + taken
      /\ input' = input /\ Remaining(context_bytes) # 0
      /\ Len(evidence) < input.retrieval.max_evidence /\ node \in input.index.passage_ids
  BY DEF TakeEvidence, LookAtHit, IsEvidence, vars
<1>2. /\ Bytes(Widths) = context_bytes /\ context_bytes <= most
      /\ Len(evidence) <= input.retrieval.max_evidence
      /\ \A i \in 1..Len(evidence) : evidence[i].truncated => context_bytes + 4 > most
  BY DEF ContextBounded, Widths
<1>3. /\ context_bytes \in Nat /\ most \in Nat /\ input.retrieval.max_evidence \in Nat
      /\ text \in Seq(1..4)
  BY <1>1, QueryTyped DEF FieldInv, PacketInv
<1>4. item.bytes = taken /\ item.truncated = (taken < Bytes(text))
  OBVIOUS
<1>5. Remaining(context_bytes) \in Nat /\ Remaining(context_bytes) = most - context_bytes
  BY <1>1, <1>2, <1>3 DEF Remaining
<1> HIDE DEF text, item
<1>6. taken \in Nat /\ taken <= most - context_bytes
      /\ (taken < Bytes(text) => taken + 4 > most - context_bytes)
  BY <1>3, <1>5, ExcerptFits
<1> HIDE DEF taken, most
<1>7. /\ IsSeq(evidence) /\ Len(evidence) \in Nat /\ Len(evidence') = Len(evidence) + 1
      /\ evidence'[Len(evidence) + 1] = item
      /\ \A i \in 1..Len(evidence) : evidence'[i] = evidence[i]
  BY <1>1, AppendSeq DEF PacketInv, IsSeq
<1>8. Widths \in Seq(Nat)
  <2>1. \A i \in 1..Len(evidence) : evidence[i].bytes \in Nat
    BY DEF PacketInv, Taken
  <2>2. Widths \in [1..Len(evidence) -> Nat]
    BY <2>1 DEF Widths
  <2> QED
    BY <1>7, <2>2, FunctionIsSeq
<1>9. Widths' = Append(Widths, taken)
  <2> DEFINE n == Len(evidence)
  <2>1. /\ Len(Widths) = n /\ DOMAIN Widths = 1..n /\ \A i \in 1..n : Widths[i] = evidence[i].bytes
    BY <1>7 DEF Widths
  <2>2. Widths' = [i \in 1..(n + 1) |-> evidence'[i].bytes]
    BY <1>7 DEF Widths
  <2>3. \A i \in 1..(n + 1) : i \in 1..n \/ i = n + 1
    BY <1>7
  <2>4. \A i \in 1..(n + 1) : evidence'[i].bytes = IF i = n + 1 THEN taken ELSE Widths[i]
    BY <1>4, <1>7, <2>1, <2>3
  <2> HIDE DEF n
  <2>5. Append(Widths, taken) = [i \in 1..(n + 1) |-> IF i = n + 1 THEN taken ELSE Widths[i]]
    BY <1>6, <1>8, <2>1, AppendIs
  <2> QED
    BY <2>2, <2>4, <2>5
<1>10. Bytes(Widths') = context_bytes'
  BY <1>1, <1>2, <1>6, <1>8, <1>9, AppendBytes
<1>11. /\ context_bytes' <= most /\ Len(evidence') <= input.retrieval.max_evidence
  BY <1>1, <1>2, <1>3, <1>6, <1>7
<1>12. ASSUME NEW i \in 1..Len(evidence'), evidence'[i].truncated
       PROVE  context_bytes' + 4 > most
  <2>1. CASE i \in 1..Len(evidence)
    <3>1. context_bytes + 4 > most
      BY <1>2, <1>7, <1>12, <2>1
    <3> QED
      BY <1>1, <1>3, <1>6, <3>1
  <2>2. CASE i = Len(evidence) + 1
    <3>1. taken < Bytes(text)
      BY <1>4, <1>7, <1>12, <2>2
    <3> QED
      BY <1>1, <1>3, <1>6, <3>1
  <2> QED
    BY <1>7, <2>1, <2>2
<1> QED
  BY <1>1, <1>10, <1>11, <1>12 DEF ContextBounded, Widths, most

LEMMA ContextInductive ==
    PacketInv /\ FieldInv /\ FieldInv' /\ ContextBounded /\ [NextP]_varsP => ContextBounded'
<1> SUFFICES ASSUME PacketInv, FieldInv, FieldInv', ContextBounded, [NextP]_varsP
             PROVE  ContextBounded'
  OBVIOUS
<1>1. CASE Next /\ UNCHANGED packetVars
  <2>1. evidence' = evidence /\ context_bytes' = context_bytes /\ input' = input
    BY <1>1, FieldSteps DEF packetVars
  <2> QED
    BY <2>1 DEF ContextBounded
<1>2. CASE TakeEvidence
  BY <1>2, TakeKeepsContext
<1>3. CASE SkipHit \/ Answer \/ UNCHANGED varsP
  <2>1. evidence' = evidence /\ context_bytes' = context_bytes /\ input' = input
    BY <1>3 DEF SkipHit, Answer, LookAtHit, varsP, packetVars, vars
  <2> QED
    BY <2>1 DEF ContextBounded
<1> QED
  BY <1>1, <1>2, <1>3 DEF NextP, Returned

-----------------------------------------------------------------------------
(* The first evidence is the first of the hits that is a passage, and      *)
(* there is none only if no hit is.                                        *)

IsPassage(k) == Hits[k] \in input.index.passage_ids

FirstFound ==
    /\ evidence = <<>> =>
          /\ context_bytes = 0
          /\ \A k \in 1..hit : ~IsPassage(k)
          /\ answered => hit = Len(Hits)
    /\ evidence # <<>> =>
          \E k \in 1..Len(Hits) : /\ Hits[k] = evidence[1].passage /\ IsPassage(k)
                                  /\ \A j \in 1..(k - 1) : ~IsPassage(j)

LEMMA FirstStarts ==
    ASSUME Untouched
    PROVE  FirstFound
<1>1. 1..0 = {}
  OBVIOUS
<1> QED
  BY <1>1 DEF Untouched, FirstFound

LEMMA FirstStays ==
    ASSUME PacketInv, FieldInv, FirstFound, UNCHANGED vars, SkipHit \/ TakeEvidence \/ Answer
    PROVE  FirstFound'
<1>1. /\ Hits' = Hits /\ input' = input /\ \A k : IsPassage(k)' <=> IsPassage(k)
  BY FieldStands DEF IsPassage
<1>2. /\ Len(Hits) \in Nat /\ hit \in Nat /\ hit <= Len(Hits) /\ IsSeq(evidence)
      /\ input.retrieval.max_evidence \in Nat \ {0}
      /\ input.retrieval.max_context_bytes \in Nat \ {0}
  BY HitsInOrder, QueryTyped DEF PacketInv, FieldInv
<1>3. \A k \in 1..(hit + 1) : k \in 1..hit \/ k = hit + 1
  BY <1>2
<1>4. evidence = <<>> => Len(evidence) < input.retrieval.max_evidence
  <2>1. Len(<<>>) = 0
    OBVIOUS
  <2> QED
    BY <1>2, <2>1
<1>5. CASE SkipHit
  <2>1. /\ hit' = hit + 1 /\ hit < Len(Hits) /\ ~answered
        /\ evidence' = evidence /\ context_bytes' = context_bytes /\ answered' = answered
        /\ ~IsEvidence(Hits[hit + 1])
    BY <1>5 DEF SkipHit, LookAtHit
  <2>2. evidence = <<>> => ~IsPassage(hit + 1)
    BY <1>4, <2>1 DEF IsEvidence, IsPassage
  <2> QED
    BY <1>1, <1>3, <2>1, <2>2 DEF FirstFound
<1>6. CASE TakeEvidence
  <2>1. hit < Len(Hits) /\ IsEvidence(Hits[hit + 1])
    BY <1>6 DEF TakeEvidence, LookAtHit
  <2>2. PICK item : evidence' = Append(evidence, item) /\ item.passage = Hits[hit + 1]
    BY <1>6 DEF TakeEvidence
  <2>3. IsPassage(hit + 1) /\ hit + 1 \in 1..Len(Hits) /\ (hit + 1) - 1 = hit
    BY <1>2, <2>1 DEF IsEvidence, IsPassage
  <2>4. /\ IsSeq(evidence') /\ Len(evidence') = Len(evidence) + 1 /\ Len(evidence) \in Nat
        /\ evidence'[Len(evidence) + 1] = item
        /\ \A i \in 1..Len(evidence) : evidence'[i] = evidence[i]
    BY <1>2, <2>2, AppendSeq DEF IsSeq
  <2>5. evidence' # <<>>
    <3>1. Len(<<>>) = 0
      OBVIOUS
    <3>2. Len(evidence') # 0
      BY <2>4
    <3> QED
      BY <3>1, <3>2
  <2>6. CASE evidence = <<>>
    <3>1. evidence'[1] = item
      <4>1. Len(evidence) = 0
        BY <2>6
      <4> QED
        BY <2>4, <4>1
    <3>2. \A j \in 1..hit : ~IsPassage(j)
      BY <2>6 DEF FirstFound
    <3> QED
      BY <1>1, <2>2, <2>3, <2>5, <3>1, <3>2 DEF FirstFound
  <2>7. CASE evidence # <<>>
    <3>1. evidence'[1] = evidence[1]
      <4>1. Len(evidence) # 0
        BY <1>2, <2>7 DEF IsSeq
      <4>2. 1 \in 1..Len(evidence)
        BY <2>4, <4>1
      <4> QED
        BY <2>4, <4>2
    <3> QED
      BY <1>1, <2>5, <2>7, <3>1 DEF FirstFound
  <2> QED
    BY <2>6, <2>7
<1>7. CASE Answer
  <2>1. /\ hit' = hit /\ evidence' = evidence /\ context_bytes' = context_bytes
        /\ hit < Len(Hits) => Remaining(context_bytes) = 0
    BY <1>7 DEF Answer
  <2>2. evidence = <<>> => hit = Len(Hits)
    <3>1. evidence = <<>> => Remaining(context_bytes) # 0
      BY <1>2 DEF FirstFound, Remaining
    <3> QED
      BY <1>2, <2>1, <3>1
  <2> QED
    BY <1>1, <2>1, <2>2 DEF FirstFound
<1> QED
  BY <1>5, <1>6, <1>7

LEMMA FirstInductive ==
    PacketInv /\ FieldInv /\ FirstFound /\ [NextP]_varsP => FirstFound'
<1> SUFFICES ASSUME PacketInv, FieldInv, FirstFound, [NextP]_varsP PROVE FirstFound'
  OBVIOUS
<1>1. CASE Next /\ UNCHANGED packetVars
  <2>1. hit' = 0 /\ evidence' = <<>> /\ context_bytes' = 0 /\ ~answered'
    BY <1>1, FieldSteps DEF Untouched
  <2>2. 1..0 = {}
    OBVIOUS
  <2> QED
    BY <2>1, <2>2 DEF FirstFound
<1>2. CASE SkipHit \/ TakeEvidence \/ Answer
  BY <1>2, FirstStays DEF SkipHit, TakeEvidence, Answer, LookAtHit
<1>3. CASE UNCHANGED varsP
  <2>1. /\ UNCHANGED vars /\ hit' = hit /\ evidence' = evidence
        /\ context_bytes' = context_bytes /\ answered' = answered
    BY <1>3 DEF varsP, packetVars
  <2>2. Hits' = Hits /\ input' = input /\ \A k : IsPassage(k)' <=> IsPassage(k)
    BY <2>1, FieldStands DEF IsPassage
  <2> QED
    BY <2>1, <2>2 DEF FirstFound
<1> QED
  BY <1>1, <1>2, <1>3 DEF NextP, Returned

-----------------------------------------------------------------------------
(* The theorems *)

QueryInv == FieldInv /\ PacketInv /\ ContextBounded /\ FirstFound

LEMMA SpecQueryInv == SpecP => []QueryInv
<1>1. InitP => Untouched /\ Init
  BY DEF InitP, Untouched
<1>2. FieldInv /\ Untouched => PacketInv /\ ContextBounded /\ FirstFound
  BY UntouchedPacket, ContextStarts, FirstStarts DEF FieldInv
<1>3. QueryInv /\ FieldInv' /\ [NextP]_varsP => QueryInv'
  BY PacketInductive, ContextInductive, FirstInductive DEF QueryInv
<1>4. InitP /\ FieldInv => QueryInv
  BY <1>1, <1>2 DEF QueryInv
<1> QED
  BY <1>3, <1>4, QueryKeepsField, SpecFieldInv, PTL DEF SpecP

(* The bytes of the evidence are counted, stay within the budget, and a    *)
(* text is cut only where the next character would not fit                 *)
(* (retrieval.rs:352-409).                                                 *)
THEOREM SpecContextBounded == SpecP => []ContextBounded
<1>1. QueryInv => ContextBounded
  BY DEF QueryInv
<1> QED
  BY <1>1, SpecQueryInv, PTL

-----------------------------------------------------------------------------
(* A packet without evidence saw no passage among the hits; otherwise its  *)
(* first evidence is the passage with the most cues.                       *)

LEMMA RequiredTyped ==
    ASSUME input \in Inputs
    PROVE  Required \in Nat
<1> DEFINE a == input.retrieval.minimum_cue_support
           b == Len(input.known_terms)
           least == Min({a, b})
<1>1. a \in Nat /\ b \in Nat
  BY QueryTyped
<1> HIDE DEF a, b
<1>2. \E x \in {a, b} : \A y \in {a, b} : x <= y
  BY <1>1
<1>3. least \in {a, b}
  BY <1>2 DEF Min
<1>4. least \in Nat
  BY <1>1, <1>3
<1>5. Required = Max({1, least})
  BY DEF Required, a, b
<1> HIDE DEF least
<1>6. \E x \in {1, least} : \A y \in {1, least} : x >= y
  BY <1>4
<1>7. Max({1, least}) \in {1, least}
  BY <1>6 DEF Max
<1> QED
  BY <1>4, <1>5, <1>7

(* The terms that an evidence names are as many as its lanes. *)
LEMMA TermsOfLanes ==
    ASSUME FieldInv, NEW node \in DOMAIN states
    PROVE  Cardinality({TermOf(cue) : cue \in Lanes(node)}) = Cardinality(Lanes(node))
<1> DEFINE L == Lanes(node)
           T == {TermOf(cue) : cue \in L}
           f == [cue \in L |-> TermOf(cue)]
<1>1. L \subseteq 1..Len(cues) /\ IsFiniteSet(L)
  <2>1. states[node].signals \in LaneMaps /\ DOMAIN states[node].signals \subseteq 1..Len(cues)
    BY StatesTyped
  <2> QED
    BY <2>1, LanesFinite DEF Lanes, FieldInv
<1>2. \A i, j \in 1..Len(cues) : TermOf(i) = TermOf(j) => i = j
  BY QueryTyped DEF FieldInv, TermOf
<1> HIDE DEF L
<1>3. f \in Injection(L, T)
  <2>1. f \in [L -> T]
    OBVIOUS
  <2>2. \A i, j \in L : f[i] = f[j] => i = j
    BY <1>1, <1>2
  <2> HIDE DEF f, T
  <2> QED
    BY <2>1, <2>2 DEF Injection, IsInjective
<1>4. f \in Surjection(L, T)
  <2>1. f \in [L -> T] /\ \A t \in T : \E cue \in L : f[cue] = t
    OBVIOUS
  <2> HIDE DEF f, T
  <2> QED
    BY <2>1 DEF Surjection
<1> HIDE DEF f, T
<1>5. Cardinality(T) = Cardinality(L)
  BY <1>1, <1>3, <1>4, FS_Surjection
<1> QED
  BY <1>5 DEF T, L

(* A packet is answerable exactly when some passage of the field has       *)
(* enough cues, though only its first evidence is looked at                *)
(* (retrieval.rs:352-417, lib.rs:447-480).                                 *)
THEOREM SpecAnswerableIfSupported == SpecP => []AnswerableIfSupported
<1>1. QueryInv => AnswerableIfSupported
  <2> SUFFICES ASSUME QueryInv, answered
               PROVE  answerable <=> \E node \in DOMAIN states \cap input.index.passage_ids :
                                         Cardinality(Lanes(node)) >= Required
    BY DEF AnswerableIfSupported
  <2>1. FieldInv /\ PacketInv /\ FirstFound /\ input \in Inputs
    BY DEF QueryInv, FieldInv
  <2>2. Required \in Nat
    BY <2>1, RequiredTyped
  <2>3. /\ Len(Hits) \in Nat /\ \A i \in 1..Len(Hits) : Hits[i] \in DOMAIN states
        /\ \A n \in DOMAIN states : \E i \in 1..Len(Hits) : Hits[i] = n
        /\ \A i, j \in 1..Len(Hits) :
              i < j => Cardinality(Lanes(Hits[i])) >= Cardinality(Lanes(Hits[j]))
    BY <2>1, HitsInOrder
  <2>4. \A n \in DOMAIN states : Cardinality(Lanes(n)) \in Nat
    BY <2>1, StatesTyped, LanesFinite DEF Lanes
  <2>5. CASE evidence = <<>>
    <3>1. \A k \in 1..Len(Hits) : ~IsPassage(k)
      BY <2>1, <2>5 DEF FirstFound
    <3>2. \A n \in DOMAIN states : n \notin input.index.passage_ids
      BY <2>3, <3>1 DEF IsPassage
    <3> QED
      BY <2>5, <3>2 DEF answerable
  <2>6. CASE evidence # <<>>
    <3>1. PICK k \in 1..Len(Hits) : /\ Hits[k] = evidence[1].passage /\ IsPassage(k)
                                    /\ \A j \in 1..(k - 1) : ~IsPassage(j)
      BY <2>1, <2>6 DEF FirstFound
    <3> DEFINE first == Hits[k]
    <3>2. first \in DOMAIN states \cap input.index.passage_ids
      BY <2>3, <3>1 DEF IsPassage
    <3>3. 1 \in 1..Len(evidence)
      <4>1. IsSeq(evidence) /\ Len(evidence) \in Nat
        BY <2>1 DEF PacketInv, IsSeq
      <4>2. Len(evidence) # 0
        BY <2>6, <4>1 DEF IsSeq
      <4> QED
        BY <4>1, <4>2
    <3>4. Cardinality(evidence[1].supporting_cues) = Cardinality(Lanes(first))
      <4>1. evidence[1].supporting_cues = {TermOf(cue) : cue \in Lanes(first)}
        BY <2>1, <3>1, <3>3 DEF PacketInv, Taken
      <4> QED
        BY <2>1, <3>2, <4>1, TermsOfLanes
    <3>5. ASSUME NEW node \in DOMAIN states \cap input.index.passage_ids
          PROVE  Cardinality(Lanes(first)) >= Cardinality(Lanes(node))
      <4>1. PICK i \in 1..Len(Hits) : Hits[i] = node
        BY <2>3
      <4>2. i \notin 1..(k - 1)
        BY <3>1, <4>1 DEF IsPassage
      <4>3. i = k \/ k < i
        BY <2>3, <4>2
      <4>4. CASE i = k
        BY <2>4, <3>2, <4>1, <4>4
      <4>5. CASE k < i
        BY <2>3, <4>1, <4>5
      <4> QED
        BY <4>3, <4>4, <4>5
    <3>6. answerable <=> Cardinality(Lanes(first)) >= Required
      BY <2>6, <3>4 DEF answerable
    <3> HIDE DEF first
    <3>7. ASSUME NEW node \in DOMAIN states \cap input.index.passage_ids,
                 Cardinality(Lanes(node)) >= Required
          PROVE  Cardinality(Lanes(first)) >= Required
      <4>1. Cardinality(Lanes(first)) >= Cardinality(Lanes(node))
        BY <3>5
      <4>2. Cardinality(Lanes(first)) \in Nat /\ Cardinality(Lanes(node)) \in Nat
        BY <2>4, <3>2
      <4> QED
        BY <2>2, <3>7, <4>1, <4>2
    <3> QED
      BY <3>2, <3>6, <3>7
  <2> QED
    BY <2>5, <2>6
<1> QED
  BY <1>1, SpecQueryInv, PTL

-----------------------------------------------------------------------------
(* A lane's way back, gone forward, is a path of arcs from its cue. *)

LEMMA LaneIsJoined ==
    ASSUME MinimumAssumed, FieldInv, NEW node \in DOMAIN states, NEW cue \in Lanes(node)
    PROVE  node \in Joined(cues[cue].node)
<1> DEFINE N == Cardinality(DOMAIN states)
           home == cues[cue].node
           beyond(nodes) ==
               nodes \cup {arcs[i].to : i \in {j \in 1..Len(arcs) : arcs[j].from \in nodes}}
           Is(f) == f = [n \in 0..N |-> IF n = 0 THEN {home} ELSE beyond(f[n - 1])]
           within == CHOOSE f : Is(f)
           V == SUBSET Nat
           step == [nodes \in V |-> beyond(nodes)]
<1>1. Joined(home) = within[N]
  BY DEF Joined
<1>2. PICK way : IsWayBack(way, node, cue)
  BY WayBackEnds DEF Lanes
<1>3. N \in Nat /\ 0 \in 0..N
  BY FS_CardinalityType DEF FieldInv
<1>4. home \in Nat /\ \A i \in 1..Len(arcs) : arcs[i].to \in Nat
  <2>1. cue \in 1..Len(cues)
    BY StatesTyped DEF Lanes
  <2> QED
    BY <2>1, InputTyped DEF FieldInv
<1>5. step \in [V -> V] /\ {home} \in V
  BY <1>4
<1> HIDE DEF N, home, V
<1>6. \E f : Is(f)
  <2> HIDE DEF step, Is, beyond
  <2>1. PICK f : IsWalk(f, N, V, {home}, step)
    BY <1>3, <1>5, WalkExists
  <2>2. \A n \in 0..N : f[n] = IF n = 0 THEN {home} ELSE beyond(f[n - 1])
    <3> SUFFICES ASSUME NEW n \in 0..N, n # 0 PROVE f[n] = beyond(f[n - 1])
      BY <2>1 DEF IsWalk
    <3>1. n \in 1..N /\ n - 1 \in 0..N
      BY <1>3
    <3>2. f[n - 1] \in V /\ f[n] = step[f[n - 1]]
      BY <2>1, <3>1 DEF IsWalk
    <3> QED
      BY <3>2 DEF step
  <2>3. f = [n \in 0..N |-> IF n = 0 THEN {home} ELSE beyond(f[n - 1])]
    BY <2>1, <2>2 DEF IsWalk
  <2> QED
    BY <2>3 DEF Is
<1>7. Is(within)
  BY <1>6
<1> HIDE DEF within
<1> DEFINE T == {k \in 0..N : way[N - k] \in within[k]}
<1>8. 0 \in T
  <2>1. within[0] = {home} /\ N - 0 = N
    BY <1>3, <1>7
  <2>2. way[N] = home
    BY <1>2 DEF IsWayBack, N, home
  <2> QED
    BY <1>3, <2>1, <2>2
<1>9. \A k \in 0..N : k \in T /\ k < N => k + 1 \in T
  <2> SUFFICES ASSUME NEW k \in 0..N, way[N - k] \in within[k], k < N
               PROVE  k + 1 \in 0..N /\ way[N - (k + 1)] \in within[k + 1]
    OBVIOUS
  <2> DEFINE n == N - (k + 1)
             m == way[n]
  <2>1. k + 1 \in 0..N /\ k + 1 # 0 /\ (k + 1) - 1 = k /\ n \in 0..N /\ n < N /\ n + 1 = N - k
    BY <1>3
  <2>2. within[k + 1] = beyond(within[k])
    <3> HIDE DEF beyond
    <3>1. \A j \in 0..N : j # 0 => within[j] = beyond(within[j - 1])
      BY <1>7
    <3> QED
      BY <2>1, <3>1
  <2> HIDE DEF n
  <2>3. way[N - k] = OneBack(m, cue) /\ m \in InLane(cue)
    BY <1>2, <2>1 DEF IsWayBack, N
  <2> HIDE DEF m
  <2>4. CASE m = home
    BY <2>1, <2>2, <2>3, <2>4 DEF OneBack, home, m, n
  <2>5. CASE m # home
    <3>1. PICK rank : Backwards(rank)
      BY DEF FieldInv
    <3>2. m \in DOMAIN states /\ cue \in DOMAIN states[m].signals
      BY <2>3 DEF InLane
    <3>3. Comes(states[m].signals[cue].predecessor, m, cue, expanded, rank)
      BY <2>5, <3>1, <3>2 DEF Backwards, Stands, home
    <3>4. PICK i \in 1..Len(arcs) :
              /\ arcs[i].from = states[m].signals[cue].predecessor[1] /\ arcs[i].to = m
      BY <3>3 DEF Comes
    <3>5. OneBack(m, cue) = states[m].signals[cue].predecessor[1]
      BY <2>5 DEF OneBack, home
    <3>6. m \in beyond(within[k])
      BY <2>3, <3>4, <3>5
    <3> QED
      BY <2>1, <2>2, <3>6 DEF m, n
  <2> QED
    BY <2>4, <2>5
<1> HIDE DEF T
<1>10. N \in T
  <2>1. \A k \in 0..N : k \in T
    BY <1>3, <1>8, <1>9, InductionUpTo
  <2> QED
    BY <1>3, <2>1
<1>11. way[N - N] \in within[N] /\ N - N = 0
  BY <1>3, <1>10 DEF T
<1>12. way[0] = node
  BY <1>2 DEF IsWayBack
<1> QED
  BY <1>1, <1>11, <1>12 DEF home

(* The cues named for an evidence are terms of the index, and bonds lead   *)
(* from them to it, if a signal of nothing is not sent on                  *)
(* (retrieval.rs:299-330, 375-379).                                        *)
THEOREM SpecEvidenceGrounded ==
    ASSUME MinimumAssumed
    PROVE  SpecP => []EvidenceGrounded
<1>1. QueryInv => EvidenceGrounded
  <2> SUFFICES ASSUME QueryInv, NEW i \in 1..Len(evidence), NEW term \in evidence[i].supporting_cues
               PROVE  /\ term \in DOMAIN input.index.node_index
                      /\ evidence[i].passage \in Joined(input.index.node_index[term])
    BY DEF EvidenceGrounded
  <2>1. FieldInv /\ input \in Inputs /\ Taken(evidence[i])
    BY DEF QueryInv, FieldInv, PacketInv
  <2>2. PICK cue \in Lanes(evidence[i].passage) : term = input.known_terms[cue]
    BY <2>1 DEF Taken, TermOf
  <2>3. evidence[i].passage \in DOMAIN states
    BY <2>1 DEF Taken
  <2>4. cue \in 1..Len(cues)
    BY <2>1, <2>2, <2>3, StatesTyped DEF Lanes
  <2>5. term \in DOMAIN input.index.node_index /\ input.index.node_index[term] = cues[cue].node
    BY <2>1, <2>2, <2>4, QueryTyped
  <2>6. evidence[i].passage \in Joined(cues[cue].node)
    BY <2>1, <2>2, <2>3, LaneIsJoined
  <2> QED
    BY <2>5, <2>6
<1> QED
  BY <1>1, SpecQueryInv, PTL
=============================================================================
