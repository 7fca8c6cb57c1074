---------------------------- MODULE RecallProofs ----------------------------
(***************************************************************************)
(* Proofs about CognitiveMemory and Recall, for any engines: what a lane   *)
(* or a trace remembers was observed, success strengthens, relays do not   *)
(* amplify, threads run backwards in the order of turns, context fields    *)
(* fit and keep their contexts, fan-out dissipates, and what a recall      *)
(* learns is what CognitiveMemory promises.                                *)
(***************************************************************************)
EXTENDS Recall, DataLemmas

(* The memory of a lane that has been observed at most limit times. *)
LaneInv(lane, limit) ==
    \A bond \in DOMAIN lane :
        lane[bond].attempts \in 1..limit /\ lane[bond].successes \in 0..lane[bond].attempts

TraceInv(trace) == trace.observations \in Nat \ {0} /\ LaneInv(trace.bond_memory, trace.observations)

MemoryInv ==
    /\ observations \in Nat
    /\ \A key \in DOMAIN memories : LaneInv(memories[key], observations)
    /\ \A i \in DOMAIN context_traces : TraceInv(context_traces[i])

-----------------------------------------------------------------------------
(* Lanes *)

LEMMA EmptyLane == \A n : LaneInv(EmptyMap, n)
BY DEF LaneInv, EmptyMap

LEMMA LaneObserved ==
    ASSUME NEW lane, NEW n \in Nat, LaneInv(lane, n), NEW crossed, NEW successful
    PROVE  LaneInv(update_memory_lane(lane, crossed, successful), n + 1)
<1> DEFINE after == update_memory_lane(lane, crossed, successful)
<1> SUFFICES ASSUME NEW bond \in DOMAIN lane \cup crossed
             PROVE  /\ after[bond].attempts \in 1..(n + 1)
                    /\ after[bond].successes \in 0..after[bond].attempts
  BY DEF LaneInv, update_memory_lane
<1> DEFINE memory == Get(lane, bond, NoMemory)
<1>1. /\ memory.attempts \in 0..n /\ memory.successes \in 0..memory.attempts
      /\ bond \notin crossed => memory.attempts \in 1..n
  BY DEF LaneInv, Get, NoMemory
<1>2. after[bond] = IF bond \notin crossed THEN memory
                    ELSE [attempts |-> memory.attempts + 1,
                          successes |-> memory.successes + (IF bond \in successful THEN 1 ELSE 0)]
  BY DEF update_memory_lane
<1> HIDE DEF after, memory
<1>3. CASE bond \notin crossed
  BY <1>1, <1>2, <1>3
<1>4. CASE bond \in crossed
  BY <1>1, <1>2, <1>4
<1> QED
  BY <1>3, <1>4

LEMMA LaneHalved ==
    ASSUME NEW lane, NEW n \in Nat, LaneInv(lane, n)
    PROVE  /\ LaneInv(HalveLane(lane), n \div 2)
           /\ HalveLane(lane) # EmptyMap => n \div 2 \in Nat \ {0}
<1> DEFINE halved == [bond \in DOMAIN lane |-> Halve(lane[bond])]
           kept == {bond \in DOMAIN lane : halved[bond] # NoMemory}
<1>1. HalveLane(lane) = [bond \in kept |-> halved[bond]]
  BY DEF HalveLane, Without
<1>2. ASSUME NEW bond \in kept
      PROVE  /\ halved[bond].attempts \in 1..(n \div 2)
             /\ halved[bond].successes \in 0..halved[bond].attempts
  <2>1. lane[bond].attempts \in 1..n /\ lane[bond].successes \in 0..lane[bond].attempts
    BY DEF LaneInv
  <2>2. halved[bond] = [attempts |-> lane[bond].attempts \div 2,
                        successes |-> lane[bond].successes \div 2]
    BY DEF Halve
  <2>3. halved[bond] # NoMemory
    OBVIOUS
  <2> HIDE DEF halved
  <2>4. lane[bond].attempts \div 2 \in 0..(n \div 2)
    BY <2>1
  <2>5. lane[bond].successes \div 2 \in 0..(lane[bond].attempts \div 2)
    BY <2>1
  <2>6. lane[bond].attempts \div 2 # 0
    BY <2>2, <2>3, <2>4, <2>5 DEF NoMemory
  <2> QED
    BY <2>2, <2>4, <2>5, <2>6
<1>3. LaneInv(HalveLane(lane), n \div 2)
  BY <1>1, <1>2 DEF LaneInv
<1>4. ASSUME HalveLane(lane) # EmptyMap PROVE n \div 2 \in Nat \ {0}
  <2>1. PICK bond : bond \in kept
    BY <1>1, <1>4 DEF EmptyMap
  <2> HIDE DEF kept, halved
  <2>2. halved[bond].attempts \in 1..(n \div 2)
    BY <2>1, <1>2
  <2> QED
    BY <2>2
<1> QED
  BY <1>3, <1>4

LEMMA LaneGrows ==
    ASSUME NEW lane, NEW m \in Nat, NEW n \in Nat, m <= n, LaneInv(lane, m)
    PROVE  LaneInv(lane, n)
BY DEF LaneInv

-----------------------------------------------------------------------------
(* Traces *)

LEMMA TraceObserved ==
    ASSUME NEW shape, NEW crossed, NEW successful
    PROVE  /\ \A trace : TraceInv(trace) => TraceInv(Observed(trace, shape, crossed, successful))
           /\ TraceInv(Observed(NoTrace(shape), shape, crossed, successful))
<1>1. ASSUME NEW trace, trace.observations \in Nat, LaneInv(trace.bond_memory, trace.observations)
      PROVE  TraceInv(Observed(trace, shape, crossed, successful))
  BY <1>1, LaneObserved DEF TraceInv, Observed
<1>2. NoTrace(shape).observations \in Nat
        /\ LaneInv(NoTrace(shape).bond_memory, NoTrace(shape).observations)
  BY EmptyLane DEF NoTrace
<1> QED
  BY <1>1, <1>2 DEF TraceInv

LEMMA TracesUpdated ==
    ASSUME MemoryInv, NEW shape, NEW crossed, NEW successful
    PROVE  \A i \in DOMAIN update_guarded_trace(shape, crossed, successful) :
                TraceInv(update_guarded_trace(shape, crossed, successful)[i])
<1> DEFINE closest == Closest(shape)
           stored == IF closest # 0 THEN context_traces ELSE Evict(context_traces)
           index == IF closest # 0 THEN closest ELSE Fresh(stored)
           trace == Get(stored, index, NoTrace(shape))
           updated == [i \in DOMAIN stored \cup {index} |->
                IF i = index THEN Observed(trace, shape, crossed, successful) ELSE stored[i]]
<1>1. update_guarded_trace(shape, crossed, successful) = updated
  BY DEF update_guarded_trace
<1>2. \A i \in DOMAIN stored : TraceInv(stored[i])
  BY DEF MemoryInv, Evict, Restricted
<1>3. TraceInv(Observed(trace, shape, crossed, successful))
  <2> HIDE DEF stored, index
  <2>1. trace = NoTrace(shape) \/ TraceInv(trace)
    BY <1>2 DEF Get
  <2> QED
    BY <2>1, TraceObserved
<1> HIDE DEF stored, index, trace
<1>4. ASSUME NEW i \in DOMAIN updated PROVE TraceInv(updated[i])
  BY <1>2, <1>3
<1> HIDE DEF updated
<1> QED
  BY <1>1, <1>4

LEMMA TracesHalved ==
    ASSUME NEW stored, \A i \in DOMAIN stored : TraceInv(stored[i])
    PROVE  \A i \in DOMAIN HalvedTraces(stored) : TraceInv(HalvedTraces(stored)[i])
<1> DEFINE halved == [i \in DOMAIN stored |-> HalveTrace(stored[i])]
           kept == {i \in DOMAIN stored : halved[i].bond_memory # EmptyMap}
<1>1. HalvedTraces(stored) = [i \in kept |-> halved[i]]
  BY DEF HalvedTraces, Without
<1>2. ASSUME NEW i \in kept PROVE TraceInv(halved[i])
  <2>1. TraceInv(stored[i])
    OBVIOUS
  <2>2. /\ halved[i].bond_memory = HalveLane(stored[i].bond_memory)
        /\ halved[i].observations = stored[i].observations \div 2
    BY DEF HalveTrace
  <2>3. HalveLane(stored[i].bond_memory) # EmptyMap
    BY <2>2
  <2> QED
    BY <2>1, <2>2, <2>3, LaneHalved DEF TraceInv
<1> QED
  BY <1>1, <1>2

LEMMA LanesHalved ==
    ASSUME NEW lanes, NEW n \in Nat, \A key \in DOMAIN lanes : LaneInv(lanes[key], n)
    PROVE  \A key \in DOMAIN HalvedLanes(lanes) : LaneInv(HalvedLanes(lanes)[key], n)
<1> DEFINE halved == [key \in DOMAIN lanes |-> HalveLane(lanes[key])]
           kept == {key \in DOMAIN lanes : halved[key] # EmptyMap}
<1>1. HalvedLanes(lanes) = [key \in kept |-> halved[key]]
  BY DEF HalvedLanes, Without
<1>2. ASSUME NEW key \in kept PROVE LaneInv(halved[key], n)
  <2>1. LaneInv(HalveLane(lanes[key]), n \div 2)
    BY LaneHalved
  <2>2. n \div 2 \in Nat /\ n \div 2 <= n
    OBVIOUS
  <2> QED
    BY <2>1, <2>2, LaneGrows
<1> QED
  BY <1>1, <1>2

-----------------------------------------------------------------------------
(* The invariant *)

(* What a supervised recall does, halving apart. *)
ObservedLanes(contexts, crossed, successful) ==
    LET key == learning_key(contexts)
        lane == update_memory_lane(Get(memories, key, EmptyMap), crossed, successful)
    IN  IF Guarded(contexts) THEN memories
        ELSE [k \in DOMAIN memories \cup {key} |-> IF k = key THEN lane ELSE memories[k]]

LEMMA LanesObserved ==
    ASSUME MemoryInv, NEW contexts, NEW crossed, NEW successful
    PROVE  \A k \in DOMAIN ObservedLanes(contexts, crossed, successful) :
                LaneInv(ObservedLanes(contexts, crossed, successful)[k], observations + 1)
<1> DEFINE key == learning_key(contexts)
           before == Get(memories, key, EmptyMap)
           lane == update_memory_lane(before, crossed, successful)
<1>1. observations \in Nat /\ observations + 1 \in Nat /\ observations <= observations + 1
  BY DEF MemoryInv
<1>2. \A k \in DOMAIN memories : LaneInv(memories[k], observations + 1)
  BY <1>1, LaneGrows DEF MemoryInv
<1>3. LaneInv(before, observations)
  BY EmptyLane DEF Get, MemoryInv
<1>4. LaneInv(lane, observations + 1)
  BY <1>1, <1>3, LaneObserved
<1> HIDE DEF lane, key
<1> QED
  BY <1>2, <1>4 DEF ObservedLanes, lane, key

LEMMA FeedbackKeeps ==
    ASSUME MemoryInv, NEW contexts, NEW shape, NEW crossed, NEW successful,
           observe_feedback(contexts, shape, crossed, successful)
    PROVE  MemoryInv'
<1> DEFINE lanes == ObservedLanes(contexts, crossed, successful)
           stored == IF Guarded(contexts) THEN update_guarded_trace(shape, crossed, successful)
                     ELSE context_traces
<1>1. /\ observations' = observations + 1
      /\ memories' = lanes \/ memories' = HalvedLanes(lanes)
      /\ context_traces' = stored \/ context_traces' = HalvedTraces(stored)
  BY DEF observe_feedback, ObservedLanes
<1>2. observations \in Nat /\ observations' \in Nat
  BY <1>1 DEF MemoryInv
<1>3. \A key \in DOMAIN lanes : LaneInv(lanes[key], observations')
  BY <1>1, LanesObserved
<1>4. \A i \in DOMAIN stored : TraceInv(stored[i])
  BY TracesUpdated DEF MemoryInv
<1> HIDE DEF lanes, stored
<1>5. \A key \in DOMAIN memories' : LaneInv(memories'[key], observations')
  BY <1>1, <1>2, <1>3, LanesHalved
<1>6. \A i \in DOMAIN context_traces' : TraceInv(context_traces'[i])
  BY <1>1, <1>4, TracesHalved
<1> QED
  BY <1>2, <1>5, <1>6 DEF MemoryInv

LEMMA MemoryInitially == InitMemory => MemoryInv
BY DEF InitMemory, MemoryInv, EmptyMap

LEMMA MemoryInductive == MemoryInv /\ [Learn]_memoryVars => MemoryInv'
<1> SUFFICES ASSUME MemoryInv, [Learn]_memoryVars PROVE MemoryInv'
  OBVIOUS
<1>1. CASE Learn
  BY <1>1, FeedbackKeeps DEF Learn
<1>2. CASE UNCHANGED memoryVars
  BY <1>2 DEF memoryVars, MemoryInv
<1> QED
  BY <1>1, <1>2

LEMMA MemoryInvImplies == MemoryInv => MemoryIsEarned
BY DEF MemoryInv, TraceInv, MemoryIsEarned, LaneInv, LaneSound

(* Half-life, merges and evictions keep successes within attempts, these   *)
(* within the observations of their trace or engine, and every trace that  *)
(* remembers a bond observed (cognitive.rs:486-500, 503-544).              *)
THEOREM LearningIsEarned == SpecMemory => []MemoryIsEarned
<1>1. InitMemory => MemoryInv
  BY MemoryInitially
<1>2. MemoryInv /\ [Learn]_memoryVars => MemoryInv'
  BY MemoryInductive
<1>3. MemoryInv => MemoryIsEarned
  BY MemoryInvImplies
<1> QED
  BY <1>1, <1>2, <1>3, PTL DEF SpecMemory

-----------------------------------------------------------------------------
(* Success strengthens                                                     *)

(* A quotient by its remainder. *)
LEMMA QuotientBound ==
    ASSUME NEW n \in Nat, NEW d \in Nat \ {0}
    PROVE  n \div d \in Nat /\ (n \div d) * d <= n
OBVIOUS

LEMMA QuotientLeast ==
    ASSUME NEW n \in Nat, NEW d \in Nat \ {0}, NEW q \in Nat, q * d <= n
    PROVE  q <= n \div d
OBVIOUS

LEMMA QualityGrows ==
    ASSUME NEW a \in Nat, NEW s \in 0..a
    PROVE  ((s + 1) * 1000) \div (a + 2) <= ((s + 2) * 1000) \div (a + 3)
<1> DEFINE n == (s + 1) * 1000
           q == n \div (a + 2)
<1>1. n \in Nat /\ a + 2 \in Nat \ {0} /\ n <= (a + 2) * 1000
  OBVIOUS
<1>2. q \in Nat /\ q * (a + 2) <= n
  <2> HIDE DEF n
  <2> QED
    BY <1>1, QuotientBound
<1>3. q <= 1000
  <2> HIDE DEF q, n
  <2> QED
    BY <1>1, <1>2
<1>4. q * (a + 3) = q * (a + 2) + q /\ q * (a + 3) \in Nat
  <2> HIDE DEF q
  <2> QED
    BY <1>2
<1>5. q * (a + 3) <= (s + 2) * 1000
  <2>1. (s + 2) * 1000 = n + 1000
    OBVIOUS
  <2> HIDE DEF q, n
  <2> QED
    BY <1>1, <1>2, <1>3, <1>4, <2>1
<1>6. (s + 2) * 1000 \in Nat /\ a + 3 \in Nat \ {0}
  OBVIOUS
<1> HIDE DEF q
<1>7. q <= ((s + 2) * 1000) \div (a + 3)
  BY <1>2, <1>5, <1>6, QuotientLeast
<1> QED
  BY <1>7 DEF q

(* One more attempt that succeeds raises the quality and never lowers what *)
(* experience adds.                                                        *)
LEMMA ConductanceGrows ==
    ASSUME NEW before, NEW after,
           before.attempts \in Nat, before.successes \in 0..before.attempts,
           after.attempts = before.attempts + 1, after.successes = before.successes + 1
    PROVE  memory_conductance(before) <= memory_conductance(after)
<1> DEFINE a == before.attempts
           s == before.successes
           quality == ((s + 1) * 1000) \div (a + 2)
           better == ((s + 2) * 1000) \div (a + 3)
           experience == (IF a < 100 THEN a ELSE 100) * 4
           more == (IF a + 1 < 100 THEN a + 1 ELSE 100) * 4
<1>1. quality <= better
  BY QualityGrows
<1>2. quality \in Int /\ better \in Int
  <2>1. (s + 1) * 1000 \in Nat /\ (s + 2) * 1000 \in Nat /\ a + 2 \in Nat \ {0} /\ a + 3 \in Nat \ {0}
    OBVIOUS
  <2> HIDE DEF a, s
  <2> QED
    BY <2>1, QuotientBound
<1>3. experience \in Int /\ more \in Int /\ experience <= more
  OBVIOUS
<1>4. memory_conductance(before) = Clamp(500 + quality + experience, 250, 2000)
  BY DEF memory_conductance
<1>5. /\ after.successes + 1 = s + 2 /\ after.attempts + 2 = a + 3
      /\ (IF after.attempts < 100 THEN after.attempts ELSE 100) * 4 = more
  OBVIOUS
<1>6. memory_conductance(after) = Clamp(500 + better + more, 250, 2000)
  BY <1>5 DEF memory_conductance
<1> HIDE DEF quality, better, experience, more
<1> QED
  BY <1>1, <1>2, <1>3, <1>4, <1>6 DEF Clamp

LEMMA FeedbackStrengthens ==
    ASSUME MemoryInv, NEW contexts, NEW shape, NEW crossed, NEW successful,
           observe_feedback(contexts, shape, crossed, successful)
    PROVE  Strengthens
<1> DEFINE lanes == ObservedLanes(contexts, crossed, successful)
           own == learning_key(contexts)
           lane == Get(memories, own, EmptyMap)
<1> SUFFICES ASSUME unhalved' = memories',
                    NEW key \in DOMAIN memories', NEW bond \in DOMAIN memories'[key],
                    memories'[key][bond].successes
                        = Get(Get(memories, key, EmptyMap), bond, NoMemory).successes + 1
             PROVE  memory_conductance(Get(Get(memories, key, EmptyMap), bond, NoMemory))
                        <= memory_conductance(memories'[key][bond])
  BY DEF Strengthens
<1> DEFINE before == Get(Get(memories, key, EmptyMap), bond, NoMemory)
           after == memories'[key][bond]
<1>1. memories' = lanes
  BY DEF observe_feedback, ObservedLanes
<1>2. /\ before.attempts \in Nat /\ before.successes \in 0..before.attempts
  BY DEF MemoryInv, LaneInv, Get, NoMemory, EmptyMap
<1>3. CASE key \in DOMAIN memories /\ memories'[key] = memories[key]
  BY <1>2, <1>3 DEF Get
<1>4. CASE key = own /\ memories'[key] = update_memory_lane(lane, crossed, successful)
  <2>1. bond \in DOMAIN lane \cup crossed
    BY <1>4 DEF update_memory_lane
  <2>2. after = IF bond \notin crossed THEN before
                ELSE [attempts |-> before.attempts + 1,
                      successes |-> before.successes + (IF bond \in successful THEN 1 ELSE 0)]
    BY <1>4, <2>1 DEF update_memory_lane
  <2>3. after.attempts = before.attempts + 1
    BY <2>2, <1>2
  <2> QED
    BY <2>3, <1>2, ConductanceGrows
<1>5. \/ key \in DOMAIN memories /\ memories'[key] = memories[key]
      \/ key = own /\ memories'[key] = update_memory_lane(lane, crossed, successful)
  BY <1>1 DEF ObservedLanes
<1> QED
  BY <1>3, <1>4, <1>5

LEMMA LearnStrengthens == MemoryInv /\ [Learn]_memoryVars => [Strengthens]_memoryVars
<1> SUFFICES ASSUME MemoryInv, Learn PROVE Strengthens
  OBVIOUS
<1> QED
  BY FeedbackStrengthens DEF Learn

(* COGNITIVE-EXPERIMENT gate 4, for every history: the bond of a           *)
(* successful thread never conducts less afterwards, unless a half-life    *)
(* sets in (cognitive.rs:564-582).                                         *)
THEOREM SuccessNeverWeakens == SpecMemory => SuccessStrengthens
<1>1. InitMemory => MemoryInv
  BY MemoryInitially
<1>2. MemoryInv /\ [Learn]_memoryVars => MemoryInv'
  BY MemoryInductive
<1>3. MemoryInv /\ [Learn]_memoryVars => [Strengthens]_memoryVars
  BY LearnStrengthens
<1> QED
  BY <1>1, <1>2, <1>3, PTL DEF SpecMemory, SuccessStrengthens
-----------------------------------------------------------------------------
(* Recall *)

(* The atoms of a recall are those of the bonds, and only atoms with a     *)
(* trace have a turn.                                                      *)
AtomsInv ==
    /\ DOMAIN traces \subseteq Atoms(engine.bonds)
    /\ DOMAIN candidates \subseteq Atoms(engine.bonds)
    /\ DOMAIN active \subseteq DOMAIN traces
    /\ waiting \subseteq DOMAIN active
    /\ expanded \in Seq(Atoms(engine.bonds))

(* The arcs that are followed are those of an atom that has its turn.      *)
TurnInv ==
    arcs # {} =>
        /\ turn \in DOMAIN traces
        /\ turn \in Range(expanded)
        /\ arcs \subseteq Arcs(engine.bonds, turn)

CandidatesLead ==
    \A x \in DOMAIN candidates : \A p \in candidates[x].predecessor : Leads(p, x)

(* What observe_feedback is called with. *)
RequestInv ==
    /\ explored \subseteq DOMAIN engine.bonds
    /\ stage # "idle" => request \in engine.calls /\ field = FieldOf(request.contexts)

(* Between recalls the locals are gone. *)
IdleInv == stage = "idle" => DOMAIN candidates = {} /\ arcs = {}

SpreadInv ==
    /\ IdleInv
    /\ AtomsInv
    /\ TurnInv
    /\ PredecessorsTurnFirst
    /\ CandidatesLead
    /\ RequestInv

-----------------------------------------------------------------------------
(* The order of turns *)

(* Arcs lead to atoms of the bonds. *)
LEMMA ArcsInGraph ==
    ASSUME NEW bonds, NEW from, NEW arc \in Arcs(bonds, from)
    PROVE  /\ arc.to \in Atoms(bonds)
           /\ arc.bond \in DOMAIN bonds
           /\ arc = [bond |-> arc.bond, to |-> arc.to]
<1>1. PICK b \in DOMAIN bonds, j \in 1..3 : arc = [bond |-> b, to |-> bonds[b][j]]
  BY DEF Arcs
<1> QED
  BY <1>1 DEF Atoms

(* A turn keeps the order of earlier ones. *)
LEMMA TurnKeepsOrder ==
    ASSUME NEW S, expanded \in Seq(S), NEW y \in S, expanded' = Inserted(expanded, y),
           NEW f, NEW x, Earlier(f, x)
    PROVE  Earlier(f, x)'
<1>1. CASE y \in Range(expanded)
  BY <1>1 DEF Inserted, Earlier
<1>2. CASE y \notin Range(expanded)
  <2>1. /\ expanded' = Append(expanded, y)
        /\ Len(expanded') = Len(expanded) + 1
        /\ Len(expanded) \in Nat
        /\ \A k \in 1..Len(expanded) : expanded'[k] = expanded[k]
        /\ expanded'[Len(expanded) + 1] = y
    BY <1>2 DEF Inserted
  <2>2. PICK i \in 1..Len(expanded) :
            expanded[i] = f /\ \A j \in 1..Len(expanded) : expanded[j] = x => i < j
    BY DEF Earlier
  <2>3. i \in 1..Len(expanded') /\ expanded'[i] = f
    BY <2>1, <2>2
  <2>4. ASSUME NEW j \in 1..Len(expanded'), expanded'[j] = x PROVE i < j
    <3>1. CASE j \in 1..Len(expanded)
      BY <2>1, <2>2, <2>4, <3>1
    <3>2. CASE j = Len(expanded) + 1
      BY <2>1, <2>2, <3>2
    <3> QED
      BY <2>1, <3>1, <3>2
  <2> QED
    BY <2>3, <2>4 DEF Earlier
<1> QED
  BY <1>1, <1>2

(* Who has just had a turn is in the order, and nobody who was is lost. *)
LEMMA TurnInserts ==
    ASSUME NEW S, NEW s \in Seq(S), NEW y \in S
    PROVE  /\ Inserted(s, y) \in Seq(S)
           /\ y \in Range(Inserted(s, y))
<1>1. CASE y \in Range(s)
  BY <1>1 DEF Inserted
<1>2. CASE y \notin Range(s)
  <2>1. /\ Append(s, y) \in Seq(S)
        /\ Len(Append(s, y)) = Len(s) + 1 /\ Len(s) \in Nat
        /\ DOMAIN Append(s, y) = 1..Len(Append(s, y))
        /\ Append(s, y)[Len(s) + 1] = y
    OBVIOUS
  <2>2. Len(s) + 1 \in DOMAIN Append(s, y)
    BY <2>1
  <2> QED
    BY <1>2, <2>1, <2>2 DEF Inserted, Range
<1> QED
  BY <1>1, <1>2

(* An atom that has had a turn comes before all that have had none. *)
LEMMA TurnedBeforeOthers ==
    ASSUME NEW S, expanded \in Seq(S), NEW f \in Range(expanded), NEW x, x \notin Range(expanded)
    PROVE  Earlier(f, x)
<1>1. DOMAIN expanded = 1..Len(expanded)
  OBVIOUS
<1>2. PICK i \in 1..Len(expanded) : expanded[i] = f
  BY <1>1 DEF Range
<1>3. \A j \in 1..Len(expanded) : expanded[j] # x
  BY <1>1 DEF Range
<1> QED
  BY <1>2, <1>3 DEF Earlier

-----------------------------------------------------------------------------
(* The actions, one lemma each.  engine changes in none of them.           *)

LEMMA InitSpread == InitRecall => SpreadInv
<1> SUFFICES ASSUME InitRecall PROVE SpreadInv
  OBVIOUS
<1>1. /\ DOMAIN traces = {} /\ DOMAIN candidates = {} /\ DOMAIN active = {}
      /\ waiting = {} /\ arcs = {} /\ explored = {} /\ expanded = <<>> /\ stage = "idle"
  BY DEF InitRecall, EmptyMap
<1>2. expanded \in Seq(Atoms(engine.bonds))
  BY <1>1
<1> QED
  BY <1>1, <1>2 DEF SpreadInv, IdleInv, AtomsInv, TurnInv, PredecessorsTurnFirst, CandidatesLead, RequestInv

(* A new recall: nothing has a predecessor. *)
LEMMA RecallSpread ==
    ASSUME SpreadInv, NEW r \in engine.calls, recall(r)
    PROVE  SpreadInv'
<1> USE DEF recall
<1>1. /\ engine' = engine /\ explored' = explored /\ expanded' = expanded
      /\ candidates' = candidates /\ arcs' = arcs /\ turn' = turn
      /\ DOMAIN candidates = {} /\ arcs = {} /\ stage' = "spread"
  BY DEF memoryVars, SpreadInv, IdleInv
<1>2. DOMAIN traces' = {r.cue} \cup r.contexts
  OBVIOUS
<1>3. \A x \in DOMAIN traces' : traces'[x].predecessor = {}
  BY <1>2 DEF Seed
<1>4. DOMAIN traces' \subseteq Atoms(engine.bonds)
  BY <1>2 DEF Known
<1>5. DOMAIN active' \subseteq DOMAIN traces'
  <2> DEFINE seeds == [x \in {r.cue} \cup r.contexts |-> Seed(r, x)]
  <2>1. active' = Frontier(Activations(seeds))
    OBVIOUS
  <2>2. DOMAIN active' \subseteq DOMAIN Activations(seeds)
    BY <2>1 DEF Frontier, Restricted, Strongest
  <2> QED
    BY <2>2, <1>2 DEF Activations
<1>6. waiting' \subseteq DOMAIN active'
  OBVIOUS
<1>7. request' = r /\ field' = FieldOf(r.contexts) /\ FieldOf(r.contexts)' = FieldOf(r.contexts)
  BY <1>1 DEF FieldOf, config
<1>8. AtomsInv'
  BY <1>1, <1>4, <1>5, <1>6 DEF AtomsInv, SpreadInv
<1>9. IdleInv' /\ TurnInv' /\ CandidatesLead' /\ PredecessorsTurnFirst'
  BY <1>1, <1>3 DEF IdleInv, TurnInv, CandidatesLead, PredecessorsTurnFirst
<1>10. RequestInv'
  BY <1>1, <1>7 DEF RequestInv, SpreadInv
<1> QED
  BY <1>8, <1>9, <1>10 DEF SpreadInv

LEMMA TakeTurnSpread ==
    ASSUME SpreadInv, NEW x \in waiting, TakeTurn(x)
    PROVE  SpreadInv'
<1> DEFINE S == Atoms(engine.bonds)
<1>1. /\ engine' = engine /\ traces' = traces /\ candidates' = candidates /\ explored' = explored
      /\ active' = active /\ stage' = stage /\ request' = request /\ field' = field
      /\ waiting' = waiting \ {x} /\ turn' = x /\ arcs' = Arcs(engine.bonds, x)
      /\ expanded' = Inserted(expanded, x)
  BY DEF TakeTurn, memoryVars
<1>2. x \in DOMAIN traces /\ x \in S /\ expanded \in Seq(S)
  BY DEF SpreadInv, AtomsInv
<1>3. expanded' \in Seq(S) /\ x \in Range(expanded')
  BY <1>1, <1>2, TurnInserts
<1>4. ASSUME NEW p, NEW y, Leads(p, y) PROVE Leads(p, y)'
  <2>1. Earlier(p.from, y)'
    BY <1>1, <1>2, <1>4, TurnKeepsOrder DEF Leads
  <2> QED
    BY <1>1, <1>4, <2>1 DEF Leads
<1>5. AtomsInv' /\ TurnInv'
  BY <1>1, <1>2, <1>3 DEF SpreadInv, AtomsInv, TurnInv
<1>6. PredecessorsTurnFirst' /\ CandidatesLead'
  BY <1>1, <1>4 DEF SpreadInv, PredecessorsTurnFirst, CandidatesLead
<1>7. RequestInv' /\ IdleInv'
  BY <1>1 DEF SpreadInv, RequestInv, FieldOf, config, IdleInv, TakeTurn
<1> QED
  BY <1>5, <1>6, <1>7 DEF SpreadInv

(* A signal goes to an atom that has had no turn, from one that has. *)
LEMMA FollowArcSpread ==
    ASSUME SpreadInv, NEW arc \in arcs, FollowArc(arc)
    PROVE  SpreadInv'
<1> DEFINE S == Atoms(engine.bonds)
           candidate == Get(candidates, arc.to, NoCandidate)
<1>1. /\ engine' = engine /\ traces' = traces /\ expanded' = expanded /\ active' = active
      /\ stage' = stage /\ request' = request /\ field' = field
      /\ waiting' = waiting /\ turn' = turn /\ arcs' = arcs \ {arc}
      /\ explored' = explored \cup {arc.bond} /\ stage = "spread"
  BY DEF FollowArc, memoryVars
<1>2. /\ turn \in DOMAIN traces /\ turn \in Range(expanded) /\ expanded \in Seq(S)
      /\ arc \in Arcs(engine.bonds, turn)
  BY DEF SpreadInv, AtomsInv, TurnInv
<1>3. arc.to \in S /\ arc.bond \in DOMAIN engine.bonds /\ arc = [bond |-> arc.bond, to |-> arc.to]
  BY <1>2, ArcsInGraph
<1>4. ASSUME NEW p, NEW y, Leads(p, y) PROVE Leads(p, y)'
  BY <1>1, <1>4 DEF Leads, Earlier
<1>5. ASSUME Open(arc.to), NEW p, p = [from |-> turn, bond |-> arc.bond] PROVE Leads(p, arc.to)'
  <2>1. Earlier(turn, arc.to)
    BY <1>2, <1>5, TurnedBeforeOthers DEF Open
  <2> QED
    BY <1>1, <1>2, <1>3, <1>5, <2>1 DEF Leads, Earlier
<1>6. CASE candidates' = candidates
  <2>1. CandidatesLead'
    BY <1>1, <1>4, <1>6 DEF SpreadInv, CandidatesLead
  <2>2. AtomsInv'
    BY <1>1, <1>6 DEF SpreadInv, AtomsInv
  <2> QED
    BY <2>1, <2>2, <1>1, <1>3, <1>4
       DEF SpreadInv, IdleInv, TurnInv, PredecessorsTurnFirst, RequestInv, FieldOf, config
<1>7. CASE /\ Open(arc.to)
           /\ candidates' = [x \in DOMAIN candidates \cup {arc.to} |->
                  IF x = arc.to THEN Signalled(candidate, transmitted(arc.bond), arc.bond)
                  ELSE candidates[x]]
  <2>1. \A p \in candidates'[arc.to].predecessor :
            p = [from |-> turn, bond |-> arc.bond] \/ p \in candidate.predecessor
    BY <1>7 DEF Signalled
  <2>2. \A p \in candidate.predecessor : Leads(p, arc.to)
    BY DEF Get, NoCandidate, SpreadInv, CandidatesLead
  <2>3. \A p \in candidates'[arc.to].predecessor : Leads(p, arc.to)'
    BY <2>1, <2>2, <1>4, <1>5, <1>7
  <2>4. ASSUME NEW x \in DOMAIN candidates', x # arc.to
        PROVE  x \in DOMAIN candidates /\ candidates'[x] = candidates[x]
    BY <1>7, <2>4
  <2>5. CandidatesLead'
    BY <2>3, <2>4, <1>4 DEF SpreadInv, CandidatesLead
  <2>6. DOMAIN candidates' \subseteq S
    BY <1>7, <1>3 DEF SpreadInv, AtomsInv
  <2>7. AtomsInv'
    BY <1>1, <2>6 DEF SpreadInv, AtomsInv
  <2> QED
    BY <2>5, <2>7, <1>1, <1>3, <1>4
       DEF SpreadInv, IdleInv, TurnInv, PredecessorsTurnFirst, RequestInv, FieldOf, config
<1> QED
  BY <1>6, <1>7 DEF FollowArc

(* A candidate brings its predecessor into the traces. *)
LEMMA EndRoundSpread ==
    ASSUME SpreadInv, EndRound
    PROVE  SpreadInv'
<1> DEFINE next == Strongest(Activations(candidates), config.working_memory_capacity)
<1>1. /\ engine' = engine /\ expanded' = expanded /\ request' = request /\ field' = field
      /\ turn' = turn /\ arcs' = arcs /\ explored' = explored /\ candidates' = EmptyMap
      /\ waiting' = next /\ stage = "spread"
  BY DEF EndRound, memoryVars, ExploredSoFar
<1>2. next \subseteq DOMAIN candidates
  BY DEF Strongest, Activations
<1>3. traces' = [x \in DOMAIN traces \cup next |->
                   IF x \in next /\ Stronger(x) THEN Trace(candidates[x]) ELSE traces[x]]
  BY DEF EndRound
<1>4. DOMAIN active' = next
  BY DEF EndRound, Restricted
<1>5. DOMAIN traces' = DOMAIN traces \cup next
  BY <1>3
<1>6. ASSUME NEW p, NEW y, Leads(p, y) PROVE Leads(p, y)'
  BY <1>1, <1>5, <1>6 DEF Leads, Earlier
<1>7. ASSUME NEW x \in DOMAIN traces', NEW p \in traces'[x].predecessor PROVE Leads(p, x)'
  <2>1. CASE x \in next /\ Stronger(x)
    <3>1. traces'[x].predecessor = candidates[x].predecessor
      BY <2>1, <1>3, <1>5 DEF Trace
    <3> QED
      BY <3>1, <2>1, <1>2, <1>6, <1>7 DEF SpreadInv, CandidatesLead
  <2>2. CASE ~(x \in next /\ Stronger(x))
    <3>1. x \in DOMAIN traces
      BY <2>2, <1>5 DEF Stronger
    <3>2. traces'[x] = traces[x]
      BY <2>2, <1>3, <1>5
    <3> QED
      BY <3>1, <3>2, <1>6, <1>7 DEF SpreadInv, PredecessorsTurnFirst
  <2> QED
    BY <2>1, <2>2
<1>8. AtomsInv'
  BY <1>1, <1>2, <1>4, <1>5 DEF SpreadInv, AtomsInv, EmptyMap
<1>9. TurnInv' /\ RequestInv' /\ IdleInv'
  BY <1>1, <1>5 DEF EndRound, SpreadInv, IdleInv, TurnInv, RequestInv, FieldOf, config
<1>10. PredecessorsTurnFirst' /\ CandidatesLead'
  BY <1>1, <1>7 DEF PredecessorsTurnFirst, CandidatesLead, EmptyMap
<1> QED
  BY <1>8, <1>9, <1>10 DEF SpreadInv

LEMMA ReportSpread ==
    ASSUME SpreadInv, Report
    PROVE  SpreadInv'
<1>1. /\ DOMAIN traces' = {} /\ DOMAIN candidates' = {} /\ DOMAIN active' = {}
      /\ waiting' = {} /\ arcs' = {} /\ explored' = {} /\ expanded' = <<>> /\ stage' = "idle"
  BY DEF Report, EmptyMap
<1>2. expanded' \in Seq(Atoms(engine.bonds)')
  BY <1>1
<1> QED
  BY <1>1, <1>2 DEF SpreadInv, IdleInv, AtomsInv, TurnInv, PredecessorsTurnFirst, CandidatesLead, RequestInv

LEMMA SpreadInductive == SpreadInv /\ [Next]_vars => SpreadInv'
<1> SUFFICES ASSUME SpreadInv, [Next]_vars PROVE SpreadInv'
  OBVIOUS
<1>1. CASE UNCHANGED vars
  BY <1>1 DEF vars, memoryVars, spreadVars, SpreadInv, IdleInv, AtomsInv, TurnInv,
       PredecessorsTurnFirst, CandidatesLead, RequestInv, Leads, Earlier, FieldOf, config
<1>2. CASE \E r \in engine.calls : recall(r)
  BY <1>2, RecallSpread
<1>3. CASE \E x \in waiting : TakeTurn(x)
  BY <1>3, TakeTurnSpread
<1>4. CASE \E arc \in arcs : FollowArc(arc)
  BY <1>4, FollowArcSpread
<1>5. CASE EndRound
  BY <1>5, EndRoundSpread
<1>6. CASE Report
  BY <1>6, ReportSpread
<1>7. CASE RecallRefused
  BY <1>1, <1>7 DEF RecallRefused
<1> QED
  BY <1>1, <1>2, <1>3, <1>4, <1>5, <1>6, <1>7 DEF Next

(* In every reachable state a predecessor had its turn before the atom it  *)
(* leads to: threads cannot close (cognitive.rs:387-402, 718-733).         *)
THEOREM SpecPredecessorsTurnFirst == Spec => []PredecessorsTurnFirst
<1>1. InitRecall => SpreadInv
  BY InitSpread
<1>2. SpreadInv /\ [Next]_vars => SpreadInv'
  BY SpreadInductive
<1>3. SpreadInv => PredecessorsTurnFirst
  BY DEF SpreadInv
<1> QED
  BY <1>1, <1>2, <1>3, PTL DEF Spec

-----------------------------------------------------------------------------
(* What is learnt                                                          *)

(* Only what was explored can be rewarded. *)
LEMMA RewardsAreExplored ==
    ASSUME NEW lane, NEW bonds, NEW successful
    PROVE  update_memory_lane(lane, bonds, successful)
             = update_memory_lane(lane, bonds, successful \cap bonds)
BY DEF update_memory_lane

LEMMA FeedbackOfExplored ==
    ASSUME NEW contexts, NEW f, NEW bonds, NEW successful,
           observe_feedback(contexts, f, bonds, successful)
    PROVE  observe_feedback(contexts, f, bonds, successful \cap bonds)
<1>1. \A lane : update_memory_lane(lane, bonds, successful)
                  = update_memory_lane(lane, bonds, successful \cap bonds)
  BY RewardsAreExplored
<1>2. update_guarded_trace(f, bonds, successful)
        = update_guarded_trace(f, bonds, successful \cap bonds)
  BY <1>1 DEF update_guarded_trace, Observed
<1>3. update_memory_lane(Get(memories, learning_key(contexts), EmptyMap), bonds, successful)
        = update_memory_lane(Get(memories, learning_key(contexts), EmptyMap), bonds, successful \cap bonds)
  BY <1>1
<1> QED
  BY <1>2, <1>3 DEF observe_feedback

LEMMA StepLearns == SpreadInv /\ [Next]_vars => [Learn]_memoryVars
<1> SUFFICES ASSUME SpreadInv, [Next]_vars PROVE Learn \/ UNCHANGED memoryVars
  OBVIOUS
<1>1. CASE Report
  <2>1. CASE Supervised
    <3> DEFINE rewarded == reconstruct_thread \cap explored
    <3>1. observe_feedback(request.contexts, field, explored, reconstruct_thread)
      BY <1>1, <2>1 DEF Report
    <3>2. observe_feedback(request.contexts, field, explored, rewarded)
      BY <3>1, FeedbackOfExplored
    <3>3. /\ explored \in SUBSET DOMAIN engine.bonds
          /\ request \in engine.calls /\ field = FieldOf(request.contexts)
      BY <1>1 DEF SpreadInv, RequestInv, Report
    <3>4. request.contexts \in SupervisedContexts
      BY <2>1, <3>3 DEF SupervisedContexts, Supervised
    <3>5. rewarded \in SUBSET explored
      OBVIOUS
    <3>6. observations' = observations + 1
      BY <3>1 DEF observe_feedback
    <3> HIDE DEF rewarded
    <3> QED
      BY <3>2, <3>3, <3>4, <3>5, <3>6 DEF Learn
  <2>2. CASE ~Supervised
    BY <1>1, <2>2 DEF Report
  <2> QED
    BY <2>1, <2>2
<1>2. CASE ~Report
  BY <1>2 DEF Next, vars, RecallRefused, recall, TakeTurn, FollowArc, EndRound
<1> QED
  BY <1>1, <1>2

(* Recall implements the abstract learner: a recall without a target       *)
(* learns nothing, one with a target makes one observation of what it      *)
(* explored in its own context field (cognitive.rs:409-411).               *)
THEOREM SpecImplementsLearning == Spec => ImplementsLearning
<1>1. InitRecall => InitMemory
  BY DEF InitRecall
<1>2. InitRecall => SpreadInv
  BY InitSpread
<1>3. SpreadInv /\ [Next]_vars => SpreadInv'
  BY SpreadInductive
<1>4. SpreadInv /\ [Next]_vars => [Learn]_memoryVars
  BY StepLearns
<1> QED
  BY <1>1, <1>2, <1>3, <1>4, PTL DEF Spec, ImplementsLearning, SpecMemory

(* So what is proved of the learner holds of recalls. *)
THEOREM SpecMemoryIsEarned == Spec => []MemoryIsEarned
BY SpecImplementsLearning, LearningIsEarned, PTL DEF ImplementsLearning

THEOREM SpecSuccessStrengthens == Spec => SuccessStrengthens
BY SpecImplementsLearning, SuccessNeverWeakens, PTL DEF ImplementsLearning

-----------------------------------------------------------------------------
(* Threads                                                                 *)

(* Whatever was not put in was reached from somewhere.                     *)
SeedsInv ==
    /\ \A x \in DOMAIN candidates : candidates[x].predecessor # {}
    /\ \A x \in DOMAIN traces :
          traces[x].predecessor = {} => x \in {request.cue} \cup request.contexts

ThreadInv == engine \in Engines /\ SpreadInv /\ SeedsInv

LEMMA SeedsStep == SpreadInv /\ SeedsInv /\ [Next]_vars => SeedsInv'
<1> SUFFICES ASSUME SpreadInv, SeedsInv, [Next]_vars PROVE SeedsInv'
  OBVIOUS
<1>1. CASE UNCHANGED vars
  BY <1>1 DEF vars, spreadVars, SeedsInv
<1>2. ASSUME NEW r \in engine.calls, recall(r) PROVE SeedsInv'
  <2>1. candidates' = candidates /\ request' = r /\ DOMAIN traces' = {r.cue} \cup r.contexts
    BY <1>2 DEF recall
  <2> QED
    BY <2>1 DEF SeedsInv
<1>3. ASSUME NEW x \in waiting, TakeTurn(x) PROVE SeedsInv'
  BY <1>3 DEF TakeTurn, SeedsInv
<1>4. ASSUME NEW arc \in arcs, FollowArc(arc) PROVE SeedsInv'
  <2> DEFINE signal == transmitted(arc.bond)
             candidate == Get(candidates, arc.to, NoCandidate)
  <2>1. traces' = traces /\ request' = request
    BY <1>4 DEF FollowArc
  <2>2. CASE candidates' = candidates
    BY <2>1, <2>2 DEF SeedsInv
  <2>3. CASE /\ signal > 0
             /\ candidates' = [x \in DOMAIN candidates \cup {arc.to} |->
                    IF x = arc.to THEN Signalled(candidate, signal, arc.bond) ELSE candidates[x]]
    <3>1. Signalled(candidate, signal, arc.bond).predecessor # {}
      <4> HIDE DEF signal
      <4>1. CASE arc.to \in DOMAIN candidates
        <5>1. candidate.predecessor # {}
          BY <4>1 DEF Get, SeedsInv
        <5> HIDE DEF candidate
        <5> QED
          BY <5>1 DEF Signalled
      <4>2. CASE arc.to \notin DOMAIN candidates
        <5>1. candidate.strongest = 0
          BY <4>2 DEF Get, NoCandidate
        <5> HIDE DEF candidate
        <5> QED
          BY <5>1, <2>3 DEF Signalled
      <4> QED
        BY <4>1, <4>2
    <3> HIDE DEF signal, candidate
    <3>2. ASSUME NEW x \in DOMAIN candidates' PROVE candidates'[x].predecessor # {}
      BY <2>3, <3>1 DEF SeedsInv
    <3> QED
      BY <2>1, <3>2 DEF SeedsInv
  <2> QED
    BY <1>4, <2>2, <2>3 DEF FollowArc
<1>5. ASSUME EndRound PROVE SeedsInv'
  <2> DEFINE next == Strongest(Activations(candidates), config.working_memory_capacity)
  <2>1. next \subseteq DOMAIN candidates
    BY DEF Strongest, Activations
  <2>2. /\ traces' = [x \in DOMAIN traces \cup next |->
                   IF x \in next /\ Stronger(x) THEN Trace(candidates[x]) ELSE traces[x]]
        /\ request' = request /\ candidates' = EmptyMap
    BY <1>5 DEF EndRound
  <2> HIDE DEF next
  <2>3. ASSUME NEW x \in DOMAIN traces', traces'[x].predecessor = {}
        PROVE  x \in {request.cue} \cup request.contexts
    <3>1. CASE x \in next /\ Stronger(x)
      BY <2>1, <2>2, <2>3, <3>1 DEF Trace, SeedsInv
    <3>2. CASE ~(x \in next /\ Stronger(x))
      BY <2>2, <2>3, <3>2 DEF Stronger, SeedsInv
    <3> QED
      BY <3>1, <3>2
  <2> QED
    BY <2>2, <2>3 DEF SeedsInv, EmptyMap
<1>6. ASSUME Report PROVE SeedsInv'
  BY <1>6 DEF Report, SeedsInv, EmptyMap
<1> QED
  BY <1>1, <1>2, <1>3, <1>4, <1>5, <1>6 DEF Next, RecallRefused

LEMMA ThreadInductive == ThreadInv /\ [Next]_vars => ThreadInv'
<1>1. [Next]_vars => engine' = engine
  BY DEF Next, vars, memoryVars, recall, RecallRefused, TakeTurn, FollowArc, EndRound, Report,
         observe_feedback
<1> QED
  BY <1>1, SpreadInductive, SeedsStep DEF ThreadInv

LEMMA ThreadInitially == InitRecall => ThreadInv
<1> SUFFICES ASSUME InitRecall PROVE ThreadInv
  OBVIOUS
<1>1. engine \in Engines /\ DOMAIN traces = {} /\ DOMAIN candidates = {}
  BY DEF InitRecall, InitMemory, EmptyMap
<1> QED
  BY <1>1, InitSpread DEF ThreadInv, SeedsInv

(* Of three atoms, if the first had its turn before the second, and that   *)
(* one before the third, the first had it before the third; and no atom    *)
(* had it before itself.                                                   *)
LEMMA EarlierIsOrder ==
    ASSUME NEW S, expanded \in Seq(S)
    PROVE  /\ \A f, x, y : Earlier(f, x) /\ Earlier(x, y) => Earlier(f, y)
           /\ \A x : ~Earlier(x, x)
<1>1. Len(expanded) \in Nat
  OBVIOUS
<1>2. ASSUME NEW f, NEW x, NEW y, Earlier(f, x), Earlier(x, y) PROVE Earlier(f, y)
  <2>1. PICK i \in 1..Len(expanded) :
            expanded[i] = f /\ \A j \in 1..Len(expanded) : expanded[j] = x => i < j
    BY <1>2 DEF Earlier
  <2>2. PICK k \in 1..Len(expanded) :
            expanded[k] = x /\ \A j \in 1..Len(expanded) : expanded[j] = y => k < j
    BY <1>2 DEF Earlier
  <2>3. i < k
    BY <2>1, <2>2
  <2>4. \A j \in 1..Len(expanded) : expanded[j] = y => i < j
    BY <1>1, <2>2, <2>3
  <2> QED
    BY <2>1, <2>4 DEF Earlier
<1>3. ASSUME NEW x, Earlier(x, x) PROVE FALSE
  <2>1. PICK i \in 1..Len(expanded) :
            expanded[i] = x /\ \A j \in 1..Len(expanded) : expanded[j] = x => i < j
    BY <1>3 DEF Earlier
  <2> QED
    BY <1>1, <2>1
<1> QED
  BY <1>2, <1>3

(* A walk back from a target: each atom had its turn before those it was   *)
(* reached from.                                                           *)
Threads(target) ==
    {thread \in [atoms : Seq(DOMAIN traces), bonds : Seq(explored)] :
        /\ Len(thread.atoms) = Len(thread.bonds) + 1
        /\ thread.atoms[1] = target
        /\ \A i, j \in 1..Len(thread.atoms) :
              i < j => Earlier(thread.atoms[j], thread.atoms[i])}

Ends(thread) == traces[Last(thread.atoms)].predecessor = {}

(* One step of ThreadBack. *)
Further(thread) ==
    LET at == Last(thread.atoms)
    IN  IF at \notin DOMAIN traces \/ traces[at].predecessor = {} THEN thread
        ELSE LET p == CHOOSE p \in traces[at].predecessor : TRUE
             IN  [atoms |-> Append(thread.atoms, p.from), bonds |-> Append(thread.bonds, p.bond)]

LEMMA FurtherBack ==
    ASSUME ThreadInv, NEW target, NEW thread \in Threads(target)
    PROVE  /\ Further(thread) \in Threads(target)
           /\ Ends(thread) => Further(thread) = thread
           /\ ~Ends(thread) => Len(Further(thread).atoms) = Len(thread.atoms) + 1
<1> DEFINE S == DOMAIN traces
           n == Len(thread.atoms)
           at == Last(thread.atoms)
<1>1. /\ thread \in [atoms : Seq(S), bonds : Seq(explored)]
      /\ thread.atoms \in Seq(S) /\ thread.bonds \in Seq(explored)
      /\ n = Len(thread.bonds) + 1 /\ thread.atoms[1] = target
      /\ \A i, j \in 1..n : i < j => Earlier(thread.atoms[j], thread.atoms[i])
  BY DEF Threads
<1>2. n \in Nat \ {0} /\ Len(thread.bonds) \in Nat /\ at = thread.atoms[n] /\ at \in S
  BY <1>1 DEF Last
<1>3. CASE Ends(thread)
  BY <1>2, <1>3 DEF Ends, Further
<1>4. CASE ~Ends(thread)
  <2> DEFINE p == CHOOSE p \in traces[at].predecessor : TRUE
             more == [atoms |-> Append(thread.atoms, p.from), bonds |-> Append(thread.bonds, p.bond)]
  <2>1. Further(thread) = more /\ p \in traces[at].predecessor
    BY <1>2, <1>4 DEF Ends, Further
  <2>2. p.from \in S /\ Earlier(p.from, at) /\ p.bond \in explored
    BY <1>2, <2>1 DEF ThreadInv, SpreadInv, PredecessorsTurnFirst, Leads
  <2> HIDE DEF p
  <2>3. /\ more.atoms \in Seq(S) /\ more.bonds \in Seq(explored)
        /\ Len(more.atoms) = n + 1 /\ Len(more.bonds) = n
        /\ more.atoms[n + 1] = p.from
        /\ \A i \in 1..n : more.atoms[i] = thread.atoms[i]
    BY <1>1, <1>2, <2>2
  <2>4. ASSUME NEW i \in 1..(n + 1), NEW j \in 1..(n + 1), i < j
        PROVE  Earlier(more.atoms[j], more.atoms[i])
    <3>1. i \in 1..n
      BY <1>2, <2>4
    <3>2. CASE j \in 1..n
      BY <1>1, <2>3, <2>4, <3>1, <3>2
    <3>3. CASE j = n + 1
      <4>1. Earlier(p.from, thread.atoms[i])
        <5>1. CASE i = n
          BY <1>2, <2>2, <5>1
        <5>2. CASE i < n
          <6>1. Earlier(at, thread.atoms[i])
            BY <1>1, <1>2, <3>1, <5>2
          <6>2. expanded \in Seq(Atoms(engine.bonds))
            BY DEF ThreadInv, SpreadInv, AtomsInv
          <6> QED
            BY <2>2, <6>1, <6>2, EarlierIsOrder
        <5> QED
          BY <1>2, <3>1, <5>1, <5>2
      <4> QED
        BY <2>3, <3>1, <3>3, <4>1
    <3> QED
      BY <1>2, <3>2, <3>3
  <2>5. more \in [atoms : Seq(S), bonds : Seq(explored)]
    BY <2>3
  <2>6. more.atoms[1] = target
    BY <1>1, <1>2, <2>3
  <2> HIDE DEF more
  <2>7. more \in Threads(target)
    BY <2>3, <2>4, <2>5, <2>6 DEF Threads
  <2> QED
    BY <1>4, <2>1, <2>3, <2>7
<1> QED
  BY <1>3, <1>4

(* A walk meets no atom twice, so it is no longer than there are traces.   *)
LEMMA ThreadIsShort ==
    ASSUME ThreadInv, NEW target, NEW thread \in Threads(target)
    PROVE  /\ IsInjective(thread.atoms)
           /\ IsFiniteSet(DOMAIN traces)
           /\ Len(thread.atoms) <= Cardinality(DOMAIN traces)
<1> DEFINE S == DOMAIN traces
           n == Len(thread.atoms)
<1>1. /\ thread.atoms \in Seq(S) /\ n \in Nat /\ DOMAIN thread.atoms = 1..n
      /\ \A i, j \in 1..n : i < j => Earlier(thread.atoms[j], thread.atoms[i])
  BY DEF Threads
<1>2. expanded \in Seq(Atoms(engine.bonds))
  BY DEF ThreadInv, SpreadInv, AtomsInv
<1>3. \A x : ~Earlier(x, x)
  BY <1>2, EarlierIsOrder
<1>4. ASSUME NEW i \in 1..n, NEW j \in 1..n, thread.atoms[i] = thread.atoms[j] PROVE i = j
  <2>1. ~(i < j) /\ ~(j < i)
    BY <1>1, <1>3, <1>4
  <2> QED
    BY <1>1, <2>1
<1>5. IsFiniteSet(S)
  <2> DEFINE B == DOMAIN engine.bonds
             f == [x \in B \X (1..3) |-> engine.bonds[x[1]][x[2]]]
  <2>1. IsFiniteSet(B) /\ IsFiniteSet(1..3)
    <3>1. IsFiniteSet(1..3)
      <4>1. 1 \in Int /\ 3 \in Int
        OBVIOUS
      <4> QED
        BY <4>1, FS_Interval, Zenon
    <3> QED
      BY <3>1, GraphAssumption DEF ThreadInv
  <2>2. IsFiniteSet(B \X (1..3))
    BY <2>1, FS_Product
  <2>3. IsFiniteSet({f[x] : x \in B \X (1..3)})
    <3>1. DOMAIN f = B \X (1..3)
      OBVIOUS
    <3> HIDE DEF f, B
    <3> QED
      BY <2>2, <3>1, FiniteImage
  <2>4. Atoms(engine.bonds) \subseteq {f[x] : x \in B \X (1..3)}
    <3> SUFFICES ASSUME NEW a \in Atoms(engine.bonds) PROVE a \in {f[x] : x \in B \X (1..3)}
      OBVIOUS
    <3>1. PICK b \in B, i \in 1..3 : a = engine.bonds[b][i]
      BY DEF Atoms
    <3>2. <<b, i>> \in B \X (1..3) /\ f[<<b, i>>] = engine.bonds[b][i]
      OBVIOUS
    <3> HIDE DEF f, B
    <3> QED
      BY <3>1, <3>2
  <2>5. S \subseteq Atoms(engine.bonds)
    BY DEF ThreadInv, SpreadInv, AtomsInv
  <2> HIDE DEF f, B
  <2> QED
    BY <2>3, <2>4, <2>5, FS_Subset
<1>6. Cardinality(1..n) = n /\ IsFiniteSet(1..n)
  BY <1>1, FS_Interval
<1>7. thread.atoms \in Injection(1..n, S)
  BY <1>1, <1>4 DEF Injection, IsInjective
<1>8. Cardinality(1..n) <= Cardinality(S)
  BY <1>5, <1>7, FS_Injection
<1> QED
  BY <1>1, <1>4, <1>5, <1>6, <1>8 DEF IsInjective

(* The walk back from an atom with a trace is a thread from a seed.        *)
LEMMA ThreadFound ==
    ASSUME ThreadInv, NEW target \in DOMAIN traces
    PROVE  ThreadBack(target) \in Threads(target) /\ Ends(ThreadBack(target))
<1> DEFINE N == Cardinality(DOMAIN traces)
           base == [atoms |-> <<target>>, bonds |-> <<>>]
           S == Threads(target)
           Walk(f) == f = [n \in 0..N |-> IF n = 0 THEN base ELSE Further(f[n - 1])]
           walk == CHOOSE f : Walk(f)
<1>1. base \in S
  <2>1. base \in [atoms : Seq(DOMAIN traces), bonds : Seq(explored)]
    OBVIOUS
  <2>2. Len(base.atoms) = 1 /\ Len(base.atoms) = Len(base.bonds) + 1 /\ base.atoms[1] = target
    OBVIOUS
  <2>3. \A i, j \in 1..Len(base.atoms) : ~(i < j)
    BY <2>2
  <2> HIDE DEF base
  <2> QED
    BY <2>1, <2>2, <2>3 DEF Threads
<1>2. N \in Nat
  BY <1>1, ThreadIsShort, FS_CardinalityType
<1>3. ThreadBack(target) = walk[N]
  BY DEF ThreadBack, Further
<1>4. \E f : Walk(f)
  <2> DEFINE step == [thread \in S |-> Further(thread)]
  <2>1. step \in [S -> S]
    BY FurtherBack
  <2> HIDE DEF S, base, N, step, Walk
  <2>2. PICK f : IsWalk(f, N, S, base, step)
    BY <1>1, <1>2, <2>1, WalkExists
  <2>3. \A n \in 0..N : f[n] = IF n = 0 THEN base ELSE Further(f[n - 1])
    <3> SUFFICES ASSUME NEW n \in 0..N PROVE f[n] = IF n = 0 THEN base ELSE Further(f[n - 1])
      OBVIOUS
    <3>1. CASE n # 0
      <4>1. n \in 1..N /\ n - 1 \in 0..N
        BY <1>2, <3>1
      <4>2. f[n - 1] \in S /\ f[n] = step[f[n - 1]]
        BY <2>2, <4>1 DEF IsWalk
      <4> QED
        BY <3>1, <4>2 DEF step
    <3> QED
      BY <2>2, <3>1 DEF IsWalk
  <2>4. f = [n \in 0..N |-> IF n = 0 THEN base ELSE Further(f[n - 1])]
    BY <2>2, <2>3 DEF IsWalk
  <2> QED
    BY <2>4 DEF Walk
<1>5. Walk(walk)
  BY <1>4
<1> HIDE DEF walk
<1> DEFINE T == {n \in 0..N : walk[n] \in S /\ (Ends(walk[n]) \/ Len(walk[n].atoms) = n + 1)}
<1>6. 0 \in T
  <2>1. 0 \in 0..N /\ walk[0] = base /\ Len(base.atoms) = 0 + 1
    BY <1>2, <1>5
  <2> QED
    BY <1>1, <2>1
<1>7. ASSUME NEW n \in 0..N, n \in T, n < N PROVE n + 1 \in T
  <2>1. n + 1 \in 0..N /\ n + 1 # 0 /\ (n + 1) - 1 = n
    BY <1>2, <1>7
  <2>2. walk[n + 1] = Further(walk[n])
    BY <1>5, <2>1
  <2>3. walk[n] \in S /\ (Ends(walk[n]) \/ Len(walk[n].atoms) = n + 1)
    BY <1>7
  <2> HIDE DEF N, Walk, base
  <2>4. /\ Further(walk[n]) \in S
        /\ Ends(walk[n]) => Further(walk[n]) = walk[n]
        /\ ~Ends(walk[n]) => Len(Further(walk[n]).atoms) = Len(walk[n].atoms) + 1
    BY <2>3, FurtherBack
  <2> HIDE DEF S
  <2> QED
    BY <2>1, <2>2, <2>3, <2>4
<1>8. N \in T
  <2> HIDE DEF T
  <2>1. \A n \in 0..N : n \in T
    BY <1>2, <1>6, <1>7, InductionUpTo
  <2> QED
    BY <1>2, <2>1
<1>9. walk[N] \in S /\ (Ends(walk[N]) \/ Len(walk[N].atoms) = N + 1)
  BY <1>8
<1>10. Len(walk[N].atoms) <= N
  BY <1>9, ThreadIsShort
<1>11. Len(walk[N].atoms) # N + 1
  <2> HIDE DEF N
  <2> QED
    BY <1>2, <1>10
<1> QED
  BY <1>3, <1>9, <1>11

(* However often a stronger signal replaced a trace that others were       *)
(* reached through, a target that was found has a thread, whole, from what *)
(* was put in (cognitive.rs:387-402, 707-734).                             *)
THEOREM SpecFoundHasThread == Spec => []FoundHasThread
<1>1. ThreadInv => FoundHasThread
  <2> SUFFICES ASSUME ThreadInv, Found, NEW target \in request.target
               PROVE  LET thread == ThreadBack(target)
                          seeds == {request.cue} \cup request.contexts
                      IN  /\ Whole(thread)
                          /\ Last(thread.atoms) \in seeds
                          /\ target \notin seeds => thread.bonds # <<>>
    BY DEF FoundHasThread
  <2> DEFINE thread == ThreadBack(target)
             n == Len(thread.atoms)
  <2>1. target \in DOMAIN traces
    BY DEF Found
  <2>2. thread \in Threads(target) /\ Ends(thread)
    BY <2>1, ThreadFound
  <2> HIDE DEF thread
  <2>3. IsInjective(thread.atoms)
    BY <2>2, ThreadIsShort
  <2>4. /\ thread.atoms \in Seq(DOMAIN traces) /\ thread.bonds \in Seq(explored)
        /\ n = Len(thread.bonds) + 1 /\ thread.atoms[1] = target
    BY <2>2 DEF Threads
  <2>5. Last(thread.atoms) \in DOMAIN traces
    BY <2>4 DEF Last
  <2>6. Last(thread.atoms) \in {request.cue} \cup request.contexts
    BY <2>2, <2>5 DEF Ends, ThreadInv, SeedsInv
  <2>7. thread.bonds = <<>> => Last(thread.atoms) = target
    BY <2>4 DEF Last
  <2> QED
    BY <2>2, <2>3, <2>5, <2>6, <2>7 DEF Whole, Ends, thread
<1> QED
  BY <1>1, ThreadInitially, ThreadInductive, PTL DEF Spec

(* What is rewarded is the thread of the target, if it has one. *)
LEMMA RewardsTheThread ==
    ASSUME ThreadInv, stage # "idle"
    PROVE  /\ reconstruct_thread = UNION {Range(ThreadBack(t).bonds) : t \in request.target \cap DOMAIN traces}
           /\ reconstruct_thread \subseteq explored
<1>1. \A t, u \in request.target : t = u
  BY GraphAssumption DEF ThreadInv, SpreadInv, RequestInv
<1>2. CASE request.target = {} \/ ~Found
  <2>1. request.target \cap DOMAIN traces = {}
    BY <1>1, <1>2 DEF Found
  <2> QED
    BY <1>2, <2>1 DEF reconstruct_thread
<1>3. CASE request.target # {} /\ Found
  <2> DEFINE t == CHOOSE t \in request.target : TRUE
             thread == ThreadBack(t)
  <2>1. t \in request.target /\ request.target \cap DOMAIN traces = {t}
    BY <1>1, <1>3 DEF Found
  <2> HIDE DEF t
  <2>2. thread \in Threads(t) /\ Ends(thread)
    BY <2>1, ThreadFound
  <2> HIDE DEF thread
  <2>3. thread.atoms \in Seq(DOMAIN traces) /\ Len(thread.atoms) = Len(thread.bonds) + 1
        /\ thread.bonds \in Seq(explored)
    BY <2>2 DEF Threads
  <2>4. Last(thread.atoms) \in DOMAIN traces
    BY <2>3 DEF Last
  <2>5. Whole(thread)
    BY <2>2, <2>4, ThreadIsShort DEF Whole, Ends
  <2>6. reconstruct_thread = Range(thread.bonds)
    BY <1>3, <2>5 DEF reconstruct_thread, t, thread
  <2>7. UNION {Range(ThreadBack(u).bonds) : u \in {t}} = Range(thread.bonds)
    BY DEF thread
  <2>8. Range(thread.bonds) \subseteq explored
    BY <2>3 DEF Range
  <2> QED
    BY <2>1, <2>6, <2>7, <2>8
<1> QED
  BY <1>2, <1>3

(* A success more for each bond of the thread, and for no other bond. *)
LEMMA LaneRewarded ==
    ASSUME NEW lane, NEW n, LaneInv(lane, n), NEW bonds, NEW successful, successful \subseteq bonds, NEW bond
    PROVE  Get(update_memory_lane(lane, bonds, successful), bond, NoMemory).successes
             = Get(lane, bond, NoMemory).successes + (IF bond \in successful THEN 1 ELSE 0)
<1> DEFINE after == update_memory_lane(lane, bonds, successful)
           before == Get(lane, bond, NoMemory)
<1>1. before.successes \in Nat
  BY DEF Get, LaneInv, NoMemory
<1>2. CASE bond \in bonds
  <2>1. Get(after, bond, NoMemory) = after[bond]
    BY <1>2 DEF Get, update_memory_lane
  <2>2. after[bond] = [attempts |-> before.attempts + 1,
                       successes |-> before.successes + (IF bond \in successful THEN 1 ELSE 0)]
    BY <1>2 DEF update_memory_lane
  <2> QED
    BY <2>1, <2>2
<1>3. CASE bond \notin bonds
  <2>1. Get(after, bond, NoMemory) = before
    BY <1>3 DEF Get, update_memory_lane
  <2> HIDE DEF after, before
  <2>2. before.successes = before.successes + 0
    BY <1>1
  <2> QED
    BY <1>3, <2>1, <2>2 DEF after, before
<1> QED
  BY <1>2, <1>3

LEMMA StepRewards == ThreadInv /\ MemoryInv /\ [Next]_vars => [Rewards]_vars
<1> SUFFICES ASSUME ThreadInv, MemoryInv, Next, vars' # vars,
                    stage = "over", request.target # {}, ~Guarded(request.contexts),
                    NEW bond \in DOMAIN engine.bonds
             PROVE  LET key == learning_key(request.contexts)
                        rewarded == UNION {Range(ThreadBack(t).bonds) : t \in request.target \cap DOMAIN traces}
                        successes(lanes, b) == Get(Get(lanes, key, EmptyMap), b, NoMemory).successes
                    IN  successes(unhalved', bond) =
                            successes(memories, bond) + (IF bond \in rewarded THEN 1 ELSE 0)
  BY DEF Rewards
<1> DEFINE key == learning_key(request.contexts)
           lane == Get(memories, key, EmptyMap)
<1>1. Report
  BY DEF Next, recall, TakeTurn, FollowArc, EndRound, RecallRefused
<1>2. observe_feedback(request.contexts, field, explored, reconstruct_thread)
  BY <1>1 DEF Report, Supervised
<1>3. unhalved' = [k \in DOMAIN memories \cup {key} |->
                     IF k = key THEN update_memory_lane(lane, explored, reconstruct_thread)
                     ELSE memories[k]]
  BY <1>2 DEF observe_feedback
<1>4. Get(unhalved', key, EmptyMap) = update_memory_lane(lane, explored, reconstruct_thread)
  BY <1>3 DEF Get
<1>5. LaneInv(lane, observations)
  BY EmptyLane DEF MemoryInv, Get
<1>6. /\ reconstruct_thread = UNION {Range(ThreadBack(t).bonds) : t \in request.target \cap DOMAIN traces}
      /\ reconstruct_thread \subseteq explored
  BY RewardsTheThread
<1> HIDE DEF lane, key
<1>7. Get(update_memory_lane(lane, explored, reconstruct_thread), bond, NoMemory).successes
         = Get(lane, bond, NoMemory).successes + (IF bond \in reconstruct_thread THEN 1 ELSE 0)
  BY <1>5, <1>6, LaneRewarded
<1> QED
  BY <1>4, <1>6, <1>7 DEF lane, key

(* A supervised recall rewards the bonds of the thread to its target, each *)
(* once, and no other bond (cognitive.rs:409-411, 466-483).                *)
THEOREM SpecThreadRewarded == Spec => ThreadRewarded
<1>1. InitRecall => ThreadInv /\ MemoryInv
  BY ThreadInitially, MemoryInitially DEF InitRecall
<1>2. ThreadInv /\ MemoryInv /\ [Next]_vars => (ThreadInv /\ MemoryInv)'
  BY ThreadInductive, StepLearns, MemoryInductive DEF ThreadInv
<1>3. ThreadInv /\ MemoryInv /\ [Next]_vars => [Rewards]_vars
  BY StepRewards
<1> QED
  BY <1>1, <1>2, <1>3, PTL DEF Spec, ThreadRewarded

-----------------------------------------------------------------------------
(* The graph and its strongest atoms *)

LEMMA TotalIs == ASSUME NEW g PROVE Total(g) = SumOf(g, DOMAIN g)
BY DEF Total, SumOf, IsSum, MapThenSumSet, MapThenFoldSet

LEMMA TabulatedIs == ASSUME NEW map PROVE Tabulated(map) = map
BY DEF Tabulated

LEMMA ProductBound ==
    ASSUME NEW m \in Nat, NEW n \in Nat, NEW a \in 0..m, NEW b \in 0..n
    PROVE  a * b \in 0..(m * n)
<1>1. a * b <= m * b /\ m * b <= m * n /\ a * b >= 0
  OBVIOUS
<1> QED
  BY <1>1

LEMMA QuotientUpTo ==
    ASSUME NEW d \in Nat \ {0}, NEW q \in Nat, NEW n \in 0..(q * d)
    PROVE  n \div d \in 0..q /\ (n # q * d => n \div d # q)
OBVIOUS

(* The p-th of a thousand parts of w, for w up to a thousand. *)
Part(w, p) == (w * p) \div 1000

LEMMA Scaled ==
    ASSUME NEW q \in Nat, NEW w \in Nat, NEW p \in Nat, w <= 1000, p <= q
    PROVE  Part(w, p) \in Nat /\ Part(w, p) <= q
<1> DEFINE M == 1000
           n == w * p
<1>1. n \in Nat
  OBVIOUS
<1>2. n <= q * M
  <2> HIDE DEF M
  <2>1. M \in Nat /\ w <= M
    BY DEF M
  <2>2. w * p <= M * p /\ M * p <= M * q /\ M * q = q * M
    BY <2>1
  <2>3. M * p \in Nat /\ M * q \in Nat
    BY <2>1
  <2> QED
    BY <1>1, <2>2, <2>3
<1>3. M \in Nat \ {0}
  OBVIOUS
<1> HIDE DEF n, M
<1>4. n \in 0..(q * M) => n \div M \in 0..q
  BY <1>3, QuotientUpTo
<1>5. n \div M \in 0..q
  BY <1>1, <1>2, <1>3, <1>4
<1> QED
  BY <1>5 DEF n, M, Part

(* The arcs of an atom are finite in number, and two where no bond names   *)
(* an atom twice.                                                          *)
Distinct(bonds) ==
    \A b \in DOMAIN bonds :
        bonds[b][1] # bonds[b][2] /\ bonds[b][2] # bonds[b][3] /\ bonds[b][1] # bonds[b][3]

LEMMA GraphFinite ==
    ASSUME NEW bonds, IsFiniteSet(DOMAIN bonds)
    PROVE  /\ IsFiniteSet(Atoms(bonds))
           /\ \A a : IsFiniteSet(Arcs(bonds, a)) /\ Degree(bonds, a) \in Nat \ {0}
           /\ \A a : Arcs(bonds, a) # {} => Degree(bonds, a) = Cardinality(Arcs(bonds, a))
<1> DEFINE P == (DOMAIN bonds) \X (1..3)
           f == [p \in P |-> bonds[p[1]][p[2]]]
           g == [p \in P |-> [bond |-> p[1], to |-> bonds[p[1]][p[2]]]]
<1>1. IsFiniteSet(P)
  <2>1. IsFiniteSet(1..3)
    <3>1. 1 \in Int /\ 3 \in Int
      OBVIOUS
    <3> QED
      BY <3>1, FS_Interval, Zenon
  <2> QED
    BY <2>1, FS_Product
<1>2. IsFiniteSet({f[p] : p \in P}) /\ IsFiniteSet({g[p] : p \in P})
  <2>1. DOMAIN f = P /\ DOMAIN g = P
    OBVIOUS
  <2> HIDE DEF f, g, P
  <2> QED
    BY <1>1, <2>1, FiniteImage
<1>3. Atoms(bonds) \subseteq {f[p] : p \in P}
  <2>1. ASSUME NEW x \in Atoms(bonds) PROVE \E p \in P : x = f[p]
    <3>1. PICK b \in DOMAIN bonds, i \in 1..3 : x = bonds[b][i]
      BY DEF Atoms
    <3>2. <<b, i>> \in P /\ x = f[<<b, i>>]
      BY <3>1
    <3> QED
      BY <3>2
  <2> QED
    BY <2>1
<1>4. ASSUME NEW a PROVE IsFiniteSet(Arcs(bonds, a))
  <2>1. ASSUME NEW arc \in Arcs(bonds, a) PROVE \E p \in P : arc = g[p]
    <3>1. PICK b \in DOMAIN bonds, j \in 1..3 : arc = [bond |-> b, to |-> bonds[b][j]]
      BY DEF Arcs
    <3>2. <<b, j>> \in P /\ arc = g[<<b, j>>]
      BY <3>1
    <3> QED
      BY <3>2
  <2>2. Arcs(bonds, a) \subseteq {g[p] : p \in P}
    BY <2>1
  <2> QED
    BY <1>2, <2>2, FS_Subset
<1>5. ASSUME NEW a, Arcs(bonds, a) # {} PROVE Cardinality(Arcs(bonds, a)) \in Nat \ {0}
  BY <1>4, <1>5, FS_CardinalityType, FS_EmptySet
<1>6. IsFiniteSet(Atoms(bonds))
  BY <1>2, <1>3, FS_Subset
<1> QED
  BY <1>4, <1>5, <1>6 DEF Degree

LEMMA DegreeOfDistinct ==
    ASSUME NEW bonds, IsFiniteSet(DOMAIN bonds), Distinct(bonds), NEW from, Arcs(bonds, from) # {}
    PROVE  Degree(bonds, from) >= 2
<1>1. PICK b \in DOMAIN bonds, j \in 1..3, i \in 1..3 : i # j /\ bonds[b][i] = from
  BY DEF Arcs
<1>2. PICK k \in 1..3 : k # i /\ k # j
  BY <1>1
<1>3. bonds[b][j] # bonds[b][k]
  BY <1>2 DEF Distinct
<1> DEFINE one == [bond |-> b, to |-> bonds[b][j]]
           two == [bond |-> b, to |-> bonds[b][k]]
<1>4. one \in Arcs(bonds, from) /\ two \in Arcs(bonds, from)
  BY <1>1, <1>2 DEF Arcs
<1>5. one # two
  BY <1>3
<1> HIDE DEF one, two
<1>6. Cardinality({one, two}) = 2 /\ {one, two} \subseteq Arcs(bonds, from)
  <2>1. Cardinality({one}) = 1 /\ IsFiniteSet({one})
    BY FS_Singleton
  <2>2. {one, two} = {one} \cup {two}
    OBVIOUS
  <2>3. Cardinality({one} \cup {two}) = 2
    BY <1>5, <2>1, FS_AddElement
  <2> QED
    BY <1>4, <2>2, <2>3
<1>7. 2 <= Cardinality(Arcs(bonds, from))
  <2>1. IsFiniteSet(Arcs(bonds, from))
    BY GraphFinite
  <2> QED
    BY <1>6, <2>1, FS_Subset
<1> QED
  BY <1>7, GraphFinite

(* The strongest are as many as asked for, and include those that are      *)
(* stronger than the rest, if these are no more.                           *)
Weights(map) ==
    /\ IsFiniteSet(DOMAIN map) /\ DOMAIN map \subseteq Int
    /\ \A x \in DOMAIN map : map[x] \in Int

LEMMA StrongestFew ==
    ASSUME NEW map, Weights(map), NEW k \in Nat
    PROVE  IsFiniteSet(Strongest(map, k)) /\ Cardinality(Strongest(map, k)) <= k
<1> DEFINE D == DOMAIN map
           R == {p \in D \X D : Ahead(map, p[1], p[2])}
<1>1. Orders(R, D)
  <2>1. \A x, y \in D : <<x, y>> \in R <=> Ahead(map, x, y)
    OBVIOUS
  <2>2. \A x \in D : x \in Int /\ map[x] \in Int
    BY DEF Weights
  <2> HIDE DEF R, D
  <2> QED
    BY <2>1, <2>2 DEF Orders, Ahead
<1>2. \A x \in D : Place(R, D, x) = Cardinality({y \in DOMAIN map : Ahead(map, y, x)})
  <2> SUFFICES ASSUME NEW x \in D
               PROVE  {y \in D : <<y, x>> \in R} = {y \in DOMAIN map : Ahead(map, y, x)}
    BY DEF Place
  <2> QED
    OBVIOUS
<1>3. Strongest(map, k) = {x \in D : Place(R, D, x) < k}
  <2> HIDE DEF R
  <2> QED
    BY <1>2 DEF Strongest
<1>4. IsFiniteSet(D)
  BY DEF Weights
<1> HIDE DEF R, D
<1> QED
  BY <1>1, <1>3, <1>4, FirstFew

LEMMA StrongestStay ==
    ASSUME NEW map, Weights(map), NEW k \in Nat, NEW S \in SUBSET DOMAIN map, Cardinality(S) <= k,
           \A x \in S : \A y \in (DOMAIN map) \ S : map[y] < map[x]
    PROVE  S \subseteq Strongest(map, k)
<1> SUFFICES ASSUME NEW x \in S PROVE x \in Strongest(map, k)
  OBVIOUS
<1> DEFINE B == {y \in DOMAIN map : Ahead(map, y, x)}
<1>1. B \subseteq S \ {x}
  <2> SUFFICES ASSUME NEW y \in DOMAIN map, Ahead(map, y, x) PROVE y \in S /\ y # x
    OBVIOUS
  <2>1. map[x] \in Int /\ map[y] \in Int /\ x \in Int /\ y \in Int
    BY DEF Weights
  <2>2. CASE y \notin S
    <3>1. map[y] < map[x]
      BY <2>2
    <3> QED
      BY <2>1, <3>1 DEF Ahead
  <2>3. y # x
    BY <2>1 DEF Ahead
  <2> QED
    BY <2>2, <2>3
<1>2. IsFiniteSet(S) /\ Cardinality(S \ {x}) = Cardinality(S) - 1 /\ IsFiniteSet(S \ {x})
  BY FS_Subset, FS_RemoveElement DEF Weights
<1>3. Cardinality(B) <= Cardinality(S \ {x}) /\ Cardinality(B) \in Nat /\ Cardinality(S) \in Nat
  BY <1>1, <1>2, FS_Subset, FS_CardinalityType
<1>4. Cardinality(B) < k
  <2> HIDE DEF B
  <2> QED
    BY <1>2, <1>3
<1> QED
  BY <1>4 DEF Strongest

-----------------------------------------------------------------------------
(* Context fields *)

(* A hop weakens what it carries, unless all of it is carried and a bond   *)
(* names an atom twice.                                                    *)
Fades(c, bonds) == c.context_field_propagation_per_mille < 1000 \/ Distinct(bonds)

LEMMA SignalWeakens ==
    ASSUME NEW c, NEW bonds, NEW w, NEW from, NEW to,
           validate(c), IsFiniteSet(DOMAIN bonds), w \in 1..1000, Arcs(bonds, from) # {}
    PROVE  /\ FieldSignal(c, bonds, w, from, to) \in 0..1000
           /\ Fades(c, bonds) => FieldSignal(c, bonds, w, from, to) < 1000
<1> DEFINE p == c.context_field_propagation_per_mille
           penalty == (Degree(bonds, to) + 1) \div 2
           d == Degree(bonds, from)
           x == Part(w, p)
<1>1. p \in 1..1000
  BY DEF validate
<1>2. d \in Nat \ {0} /\ penalty \in Nat \ {0}
  <2>1. d \in Nat \ {0} /\ Degree(bonds, to) \in Nat \ {0}
    BY GraphFinite
  <2> HIDE DEF d
  <2> QED
    BY <2>1
<1>3. Distinct(bonds) => d >= 2
  BY DegreeOfDistinct
<1>4. FieldSignal(c, bonds, w, from, to) = x \div (d * penalty)
  BY DEF FieldSignal, PER_MILLE, Part
<1> HIDE DEF p, d, penalty
<1>0. /\ p \in Nat /\ p <= 1000 /\ (p < 1000 => p <= 999)
      /\ w \in Nat /\ w <= 1000 /\ 1000 \in Nat /\ 999 \in Nat
  BY <1>1
<1>5. x \in 0..1000
  <2>1. x \in Nat /\ x <= 1000
    BY <1>0, Scaled
  <2> QED
    BY <2>1
<1>6. p < 1000 => x \in 0..999
  <2>1. p < 1000 => x \in Nat /\ x <= 999
    BY <1>0, Scaled
  <2> HIDE DEF x
  <2> QED
    BY <2>1
<1>7. d * penalty \in Nat \ {0} /\ d * penalty >= d
  BY <1>2
<1> DEFINE k == d * penalty
<1>8. k \in Nat \ {0} /\ (Distinct(bonds) => k >= 2)
  BY <1>2, <1>3, <1>7
<1> HIDE DEF k, x
<1>9. x \div k \in 0..x
  <2>1. x <= x * k
    BY <1>5, <1>8
  <2>2. x \in 0..(x * k) /\ x \in Nat
    BY <1>5, <1>8, <2>1
  <2> QED
    BY <1>8, <2>2, QuotientUpTo
<1>10. Distinct(bonds) => x \div k <= 500
  <2> SUFFICES ASSUME Distinct(bonds) PROVE x \div k <= 500
    OBVIOUS
  <2>1. 500 * k \in Nat /\ 1000 <= 500 * k
    BY <1>8
  <2>2. x \in 0..(500 * k)
    BY <1>5, <2>1
  <2> QED
    BY <1>8, <2>2, QuotientUpTo
<1> DEFINE y == x \div k
<1>11. FieldSignal(c, bonds, w, from, to) = y
  BY <1>4 DEF k
<1>12. y \in Nat /\ y <= x /\ (Distinct(bonds) => y <= 500)
  BY <1>5, <1>9, <1>10
<1> HIDE DEF y
<1>13. x \in Nat /\ x <= 1000 /\ (p < 1000 => x <= 999)
  BY <1>5, <1>6
<1>14. y \in Nat /\ y <= 1000 /\ (p < 1000 \/ Distinct(bonds) => y < 1000)
  BY <1>12, <1>13
<1>15. y \in 0..1000 /\ (p < 1000 \/ Distinct(bonds) => y < 1000)
  BY <1>14
<1> QED
  BY <1>11, <1>15 DEF Fades, p

FieldMaps(A) == UNION {[D -> 1..1000] : D \in SUBSET A}
HopStates(A) == [field : FieldMaps(A), active : FieldMaps(A)]

LEMMA MapIn ==
    ASSUME NEW A, NEW D \in SUBSET A, NEW m, m = [x \in D |-> m[x]], \A x \in D : m[x] \in 1..1000
    PROVE  m \in FieldMaps(A)
BY DEF FieldMaps

LEMMA MapsAre ==
    ASSUME NEW A, NEW m \in FieldMaps(A)
    PROVE  /\ DOMAIN m \subseteq A /\ m = [x \in DOMAIN m |-> m[x]]
           /\ \A x \in DOMAIN m : m[x] \in 1..1000
<1>1. PICK D \in SUBSET A : m \in [D -> 1..1000]
  BY DEF FieldMaps
<1> QED
  BY <1>1

(* A hop raises weights and, where they fade, none to the full one. *)
LEMMA HopRaises ==
    ASSUME NEW c, validate(c), NEW bonds, IsFiniteSet(DOMAIN bonds),
           NEW A, Atoms(bonds) \subseteq A, NEW s \in HopStates(A)
    PROVE  LET t == FieldHop(c, bonds, s)
           IN  /\ t \in HopStates(A)
               /\ DOMAIN s.field \subseteq DOMAIN t.field
               /\ \A x \in DOMAIN s.field : s.field[x] <= t.field[x]
               /\ Fades(c, bonds) => \A x \in DOMAIN t.field :
                      t.field[x] = 1000 => x \in DOMAIN s.field /\ s.field[x] = 1000
<1> DEFINE signals == UNION {{[to |-> arc.to, weight |-> FieldSignal(c, bonds, s.active[from], from, arc.to)] :
                              arc \in Arcs(bonds, from)} : from \in DOMAIN s.active}
           reached == {signal.to : signal \in {m \in signals : m.weight > 0}}
           most(x) == Max({m.weight : m \in {n \in signals : n.to = x}})
           reaching == [x \in reached |-> most(x)]
           grown == {x \in Strongest(reaching, c.context_field_capacity) :
                        reaching[x] > Get(s.field, x, 0)}
           raised == [x \in grown |-> reaching[x]]
           after == [x \in grown \cup DOMAIN s.field |-> IF x \in grown THEN reaching[x] ELSE s.field[x]]
<1>1. s.field \in FieldMaps(A) /\ s.active \in FieldMaps(A)
  BY DEF HopStates
<1>2. FieldHop(c, bonds, s) = [field |-> after, active |-> raised]
  <2> DEFINE C == Tabulated(reaching)
             G == {x \in Strongest(C, c.context_field_capacity) : C[x] > Get(s.field, x, 0)}
             R == Tabulated(Restricted(C, G))
             F == Tabulated([x \in G \cup DOMAIN s.field |-> Get(R, x, s.field[x])])
  <2>1. FieldHop(c, bonds, s) = [field |-> F, active |-> R]
    BY Zenon DEF FieldHop
  <2>2. C = reaching
    BY TabulatedIs, Zenon
  <2> HIDE DEF C, reaching
  <2>3. G = grown
    BY <2>2
  <2> HIDE DEF G, grown
  <2>4. R = raised
    BY <2>2, <2>3, TabulatedIs, Zenon DEF Restricted
  <2> HIDE DEF R
  <2>5. F = [x \in grown \cup DOMAIN s.field |-> Get(raised, x, s.field[x])]
    BY <2>3, <2>4, TabulatedIs, Zenon
  <2>6. F = after
    BY <2>5 DEF Get
  <2> HIDE DEF F, after
  <2> QED
    BY <2>1, <2>4, <2>6, Zenon
<1>3. ASSUME NEW m \in signals
      PROVE  /\ m.to \in Atoms(bonds) /\ m.weight \in 0..1000
             /\ Fades(c, bonds) => m.weight < 1000
  <2>1. PICK from \in DOMAIN s.active : \E arc \in Arcs(bonds, from) :
            m = [to |-> arc.to, weight |-> FieldSignal(c, bonds, s.active[from], from, arc.to)]
    OBVIOUS
  <2>0. PICK arc \in Arcs(bonds, from) :
            m = [to |-> arc.to, weight |-> FieldSignal(c, bonds, s.active[from], from, arc.to)]
    BY <2>1
  <2>2. s.active[from] \in 1..1000
    BY <1>1, MapsAre
  <2>3. arc.to \in Atoms(bonds)
    BY ArcsInGraph
  <2>4. m.to = arc.to /\ m.weight = FieldSignal(c, bonds, s.active[from], from, arc.to)
    BY <2>0
  <2>5. Arcs(bonds, from) # {}
    OBVIOUS
  <2> DEFINE w == s.active[from]
  <2> HIDE DEF signals, w
  <2>6. w \in 1..1000
    BY <2>2 DEF w
  <2>7. /\ FieldSignal(c, bonds, w, from, arc.to) \in 0..1000
        /\ Fades(c, bonds) => FieldSignal(c, bonds, w, from, arc.to) < 1000
    BY <2>5, <2>6, SignalWeakens
  <2>8. m.weight = FieldSignal(c, bonds, w, from, arc.to)
    BY <2>4 DEF w
  <2> HIDE DEF w
  <2> QED
    BY <2>3, <2>4, <2>7, <2>8
<1>4. ASSUME NEW x \in reached
      PROVE  /\ x \in A /\ reaching[x] \in 1..1000
             /\ Fades(c, bonds) => reaching[x] < 1000
  <2> DEFINE W == {m.weight : m \in {n \in signals : n.to = x}}
  <2>1. PICK n \in signals : n.to = x /\ n.weight > 0
    OBVIOUS
  <2>2. reaching[x] = Max(W)
    OBVIOUS
  <2>3. n.weight \in W
    BY <2>1
  <2>4. \A w \in W : w \in 0..1000 /\ (Fades(c, bonds) => w < 1000)
    <3> HIDE DEF signals
    <3> QED
      BY <1>3
  <2>5. x \in A
    BY <1>3, <2>1
  <2> HIDE DEF W, reaching
  <2>6. W \subseteq Int /\ W # {} /\ (\A w \in W : w <= 1000) /\ 1000 \in Int
    <3>1. \A w \in W : w \in Int /\ w <= 1000
      BY <2>4
    <3> QED
      BY <2>3, <3>1
  <2>7. Max(W) \in W /\ \A w \in W : w <= Max(W)
    <3> DEFINE full == 1000
    <3>1. full \in Int /\ \A w \in W : w <= full
      BY <2>6
    <3> HIDE DEF full
    <3>2. W \subseteq Int /\ W # {}
      BY <2>6
    <3> QED
      BY <3>1, <3>2, MaxIn
  <2> DEFINE top == Max(W)
  <2>8. top \in 0..1000 /\ n.weight <= top /\ n.weight \in 0..1000 /\ (Fades(c, bonds) => top < 1000)
    <3> HIDE DEF top
    <3>1. top \in W /\ n.weight <= top
      BY <2>3, <2>7 DEF top
    <3> QED
      BY <2>3, <2>4, <3>1
  <2> HIDE DEF top
  <2>9. top \in 1..1000
    BY <2>1, <2>8
  <2> QED
    BY <2>2, <2>5, <2>8, <2>9 DEF top
<1> HIDE DEF signals, reached
<1>5. DOMAIN reaching = reached
  OBVIOUS
<1> HIDE DEF reaching
<1>6. grown \subseteq reached /\ \A x \in grown : reaching[x] > Get(s.field, x, 0)
  BY <1>5 DEF Strongest
<1> HIDE DEF grown
<1>7. raised \in FieldMaps(A)
  <2>1. grown \in SUBSET A /\ \A x \in grown : raised[x] \in 1..1000
    BY <1>4, <1>6
  <2>2. raised = [x \in grown |-> raised[x]]
    OBVIOUS
  <2> HIDE DEF raised
  <2> QED
    BY <2>1, <2>2, MapIn
<1>8. after \in FieldMaps(A)
  <2> DEFINE D == grown \cup DOMAIN s.field
  <2>1. D \in SUBSET A /\ \A x \in D : after[x] \in 1..1000
    <3>1. \A x \in DOMAIN s.field : x \in A /\ s.field[x] \in 1..1000
      BY <1>1, MapsAre
    <3>2. \A x \in grown : x \in A /\ reaching[x] \in 1..1000
      BY <1>4, <1>6
    <3> QED
      BY <3>1, <3>2
  <2>2. after = [x \in D |-> after[x]]
    OBVIOUS
  <2> HIDE DEF after, D
  <2> QED
    BY <2>1, <2>2, MapIn
<1>9. ASSUME NEW x \in DOMAIN s.field PROVE x \in DOMAIN after /\ s.field[x] <= after[x]
  <2>1. s.field[x] \in 1..1000
    BY <1>1, MapsAre
  <2>2. CASE x \in grown
    <3>1. reaching[x] > s.field[x] /\ reaching[x] \in 1..1000
      BY <1>4, <1>6, <2>2 DEF Get
    <3>2. after[x] = reaching[x] /\ x \in DOMAIN after
      BY <2>2
    <3> DEFINE v == s.field[x]
               u == reaching[x]
    <3> HIDE DEF reaching, after
    <3>5. u > v /\ u \in 1..1000 /\ v \in 1..1000
      BY <2>1, <3>1, Zenon
    <3> HIDE DEF u, v
    <3>3. u > v /\ u \in Int /\ v \in Int
      BY <3>5
    <3>4. v <= u
      BY <3>3
    <3> HIDE DEF after
    <3> QED
      BY <3>2, <3>4 DEF u, v
  <2>3. CASE x \notin grown
    BY <2>1, <2>3
  <2> QED
    BY <2>2, <2>3
<1>10. ASSUME Fades(c, bonds), NEW x \in DOMAIN after, after[x] = 1000
       PROVE  x \in DOMAIN s.field /\ s.field[x] = 1000
  <2>1. x \notin grown
    BY <1>4, <1>6, <1>10
  <2> QED
    BY <1>10, <2>1
<1> HIDE DEF after, raised
<1>11. FieldHop(c, bonds, s) \in HopStates(A)
  BY <1>2, <1>7, <1>8 DEF HopStates
<1> QED
  BY <1>2, <1>9, <1>10, <1>11

(* The hops of a context field: what they leave is cut to the capacity. *)
LEMMA FieldIs ==
    ASSUME NEW c, NEW bonds, NEW S, validate(c), IsFiniteSet(DOMAIN bonds)
    PROVE  \E m \in FieldMaps(S \cup Atoms(bonds)) :
              /\ build_context_field(c, bonds, S) = FieldBounded(c, m)
              /\ S \subseteq DOMAIN m /\ \A x \in S : m[x] = 1000
              /\ Fades(c, bonds) => \A x \in (DOMAIN m) \ S : m[x] < 1000
<1> DEFINE N == c.context_field_depth
           A == S \cup Atoms(bonds)
           start == [x \in S |-> PER_MILLE]
           base == [field |-> start, active |-> start]
           step == [s \in HopStates(A) |-> FieldHop(c, bonds, s)]
           Is(h) == h = [n \in 0..N |-> IF n = 0 THEN base ELSE FieldHop(c, bonds, h[n - 1])]
           hops == CHOOSE h : Is(h)
<1>1. N \in Nat
  <2>1. N \in 1..8
    BY DEF validate
  <2> QED
    BY <2>1
<1>2. build_context_field(c, bonds, S) = FieldBounded(c, hops[N].field)
  BY DEF build_context_field
<1>3. base \in HopStates(A)
  <2>1. S \in SUBSET A /\ start = [x \in S |-> start[x]] /\ \A x \in S : start[x] \in 1..1000
    BY DEF PER_MILLE
  <2> HIDE DEF start, A
  <2>2. start \in FieldMaps(A)
    BY <2>1, MapIn
  <2> QED
    BY <2>2 DEF HopStates
<1>4. ASSUME NEW s \in HopStates(A)
      PROVE  LET t == FieldHop(c, bonds, s)
             IN  /\ t \in HopStates(A)
                 /\ DOMAIN s.field \subseteq DOMAIN t.field
                 /\ \A x \in DOMAIN s.field : s.field[x] <= t.field[x]
                 /\ Fades(c, bonds) => \A x \in DOMAIN t.field :
                        t.field[x] = 1000 => x \in DOMAIN s.field /\ s.field[x] = 1000
  <2>1. Atoms(bonds) \subseteq A
    OBVIOUS
  <2> HIDE DEF A
  <2> QED
    BY <2>1, HopRaises
<1>5. step \in [HopStates(A) -> HopStates(A)]
  <2> HIDE DEF A
  <2> QED
    BY <1>4
<1>6. \E h : Is(h)
  <2> HIDE DEF A, N, base
  <2>1. PICK h : IsWalk(h, N, HopStates(A), base, step)
    <3> HIDE DEF step
    <3> QED
      BY <1>1, <1>3, <1>5, WalkExists
  <2>2. ASSUME NEW n \in 0..N
        PROVE  h[n] = IF n = 0 THEN base ELSE FieldHop(c, bonds, h[n - 1])
    <3>1. CASE n = 0
      BY <2>1, <3>1 DEF IsWalk
    <3>2. CASE n # 0
      <4>1. n \in 1..N /\ n - 1 \in 0..N
        BY <1>1, <3>2
      <4>2. h[n] = step[h[n - 1]] /\ h[n - 1] \in HopStates(A)
        BY <2>1, <4>1 DEF IsWalk
      <4> QED
        BY <3>2, <4>2
    <3> QED
      BY <3>1, <3>2
  <2>3. h = [n \in 0..N |-> h[n]]
    <3> HIDE DEF step
    <3> QED
      BY <2>1 DEF IsWalk
  <2> QED
    BY <2>2, <2>3
<1>7. Is(hops)
  BY <1>6
<1> HIDE DEF hops
<1>8. hops[0] = base /\ \A n \in 1..N : hops[n] = FieldHop(c, bonds, hops[n - 1])
  <2> HIDE DEF base, N
  <2> QED
    BY <1>1, <1>7
<1> DEFINE Good(n) ==
              /\ hops[n] \in HopStates(A)
              /\ S \subseteq DOMAIN hops[n].field /\ \A x \in S : hops[n].field[x] = 1000
              /\ Fades(c, bonds) => \A x \in (DOMAIN hops[n].field) \ S : hops[n].field[x] < 1000
           T == {n \in 0..N : Good(n)}
<1>9. 0 \in T
  <2>1. hops[0].field = start /\ DOMAIN start = S /\ \A x \in S : start[x] = 1000
    BY <1>8 DEF PER_MILLE
  <2> HIDE DEF start, A, N
  <2> QED
    BY <1>1, <1>3, <1>8, <2>1
<1>10. ASSUME NEW n \in 0..N, n \in T, n < N PROVE n + 1 \in T
  <2> HIDE DEF A, N
  <2>1. n + 1 \in 1..N /\ (n + 1) - 1 = n /\ n + 1 \in 0..N
    BY <1>1, <1>10
  <2>2. hops[n + 1] = FieldHop(c, bonds, hops[n]) /\ Good(n)
    BY <1>8, <1>10, <2>1
  <2> DEFINE s == hops[n]
             t == hops[n + 1]
  <2>3. s \in HopStates(A) /\ t = FieldHop(c, bonds, s)
    BY <2>2
  <2> HIDE DEF s, t
  <2>4. /\ t \in HopStates(A)
        /\ DOMAIN s.field \subseteq DOMAIN t.field
        /\ \A x \in DOMAIN s.field : s.field[x] <= t.field[x]
        /\ Fades(c, bonds) => \A x \in DOMAIN t.field :
               t.field[x] = 1000 => x \in DOMAIN s.field /\ s.field[x] = 1000
    BY <1>4, <2>3
  <2>5. \A x \in DOMAIN t.field : t.field[x] \in 1..1000
    BY <2>4, MapsAre DEF HopStates
  <2>6. /\ S \subseteq DOMAIN s.field /\ \A x \in S : s.field[x] = 1000
        /\ Fades(c, bonds) => \A x \in (DOMAIN s.field) \ S : s.field[x] < 1000
    BY <2>2 DEF s
  <2>7. S \subseteq DOMAIN t.field /\ \A x \in S : t.field[x] = 1000
    <3> SUFFICES ASSUME NEW x \in S PROVE x \in DOMAIN t.field /\ t.field[x] = 1000
      OBVIOUS
    <3>1. x \in DOMAIN t.field /\ s.field[x] = 1000 /\ s.field[x] <= t.field[x]
      BY <2>4, <2>6
    <3> DEFINE v == t.field[x]
    <3>2. v \in 1..1000 /\ 1000 <= v
      BY <2>5, <3>1
    <3> HIDE DEF v
    <3>3. v = 1000
      BY <3>2
    <3> QED
      BY <3>1, <3>3 DEF v
  <2>8. ASSUME Fades(c, bonds), NEW x \in (DOMAIN t.field) \ S PROVE t.field[x] < 1000
    <3> DEFINE v == t.field[x]
    <3>1. v # 1000
      BY <2>4, <2>6, <2>8
    <3>2. v \in 1..1000
      BY <2>5
    <3> HIDE DEF v
    <3>3. v < 1000
      BY <3>1, <3>2
    <3> QED
      BY <3>3 DEF v
  <2>9. Good(n + 1)
    BY <2>4, <2>7, <2>8 DEF t
  <2> HIDE DEF Good
  <2> QED
    BY <2>1, <2>9
<1>11. N \in T
  <2> HIDE DEF T, N
  <2>1. \A n \in 0..N : n \in T
    BY <1>1, <1>9, <1>10, InductionUpTo
  <2> QED
    BY <1>1, <2>1
<1>12. Good(N)
  BY <1>11
<1> HIDE DEF N, A
<1>13. hops[N].field \in FieldMaps(A)
  BY <1>12 DEF HopStates
<1> QED
  BY <1>2, <1>12, <1>13 DEF A

(* A context field is finite, of weights. *)
IsField(f) == IsFiniteSet(DOMAIN f) /\ \A x \in DOMAIN f : f[x] \in 1..1000

LEMMA FieldTyped ==
    ASSUME NEW c, NEW bonds, NEW S, validate(c), IsFiniteSet(DOMAIN bonds), IsFiniteSet(S)
    PROVE  IsField(build_context_field(c, bonds, S))
<1>1. PICK m \in FieldMaps(S \cup Atoms(bonds)) :
           build_context_field(c, bonds, S) = FieldBounded(c, m)
  BY FieldIs
<1> DEFINE f == FieldBounded(c, m)
           kept == Strongest(m, c.context_field_capacity)
<1>2. f = [x \in kept |-> m[x]]
  BY TabulatedIs DEF FieldBounded, Restricted
<1>3. kept \subseteq DOMAIN m
  BY DEF Strongest
<1>4. IsFiniteSet(S \cup Atoms(bonds))
  BY GraphFinite, FS_Union
<1>5. DOMAIN m \subseteq S \cup Atoms(bonds) /\ \A x \in DOMAIN m : m[x] \in 1..1000
  BY MapsAre
<1>6. IsFiniteSet(kept)
  BY <1>3, <1>4, <1>5, FS_Subset
<1> HIDE DEF f, kept
<1>7. IsField(f)
  BY <1>2, <1>3, <1>5, <1>6 DEF IsField
<1> QED
  BY <1>1, <1>7 DEF f

LEMMA ContextsStay ==
    ASSUME NEW c, NEW bonds, NEW S, validate(c), IsFiniteSet(DOMAIN bonds),
           Atoms(bonds) \subseteq Nat, S \subseteq Atoms(bonds)
    PROVE  LET f == build_context_field(c, bonds, S)
           IN  /\ Cardinality(DOMAIN f) <= c.context_field_capacity
               /\ Fades(c, bonds) /\ Cardinality(S) <= c.context_field_capacity =>
                    \A x \in S : x \in DOMAIN f /\ f[x] = 1000
<1>1. PICK m \in FieldMaps(S \cup Atoms(bonds)) :
              /\ build_context_field(c, bonds, S) = FieldBounded(c, m)
              /\ S \subseteq DOMAIN m /\ \A x \in S : m[x] = 1000
              /\ Fades(c, bonds) => \A x \in (DOMAIN m) \ S : m[x] < 1000
  BY FieldIs
<1> DEFINE f == FieldBounded(c, m)
           k == c.context_field_capacity
           kept == Strongest(m, k)
<1>2. f = [x \in kept |-> m[x]]
  BY TabulatedIs DEF FieldBounded, Restricted
<1>3. DOMAIN m \subseteq Atoms(bonds) /\ \A x \in DOMAIN m : m[x] \in 1..1000
  BY MapsAre
<1>4. k \in Nat
  <2>1. k \in 1..CAPACITY_LIMIT
    BY DEF validate
  <2>2. CAPACITY_LIMIT \in Int
    BY DEF CAPACITY_LIMIT
  <2> HIDE DEF k
  <2> QED
    BY <2>1, <2>2
<1>5. Weights(m)
  <2>1. IsFiniteSet(DOMAIN m)
    BY <1>3, GraphFinite, FS_Subset
  <2> QED
    BY <1>3, <2>1 DEF Weights
<1>6. Cardinality(kept) <= k
  <2> HIDE DEF k
  <2> QED
    BY <1>4, <1>5, StrongestFew
<1>7. Fades(c, bonds) /\ Cardinality(S) <= k => S \subseteq kept
  <2> HIDE DEF k
  <2> SUFFICES ASSUME Fades(c, bonds), Cardinality(S) <= k PROVE S \subseteq Strongest(m, k)
    OBVIOUS
  <2>1. \A x \in S : \A y \in (DOMAIN m) \ S : m[y] < m[x]
    BY <1>1
  <2> QED
    BY <1>1, <1>4, <1>5, <2>1, StrongestStay
<1> HIDE DEF kept, k, f
<1>8. DOMAIN f = kept /\ \A x \in kept : f[x] = m[x]
  BY <1>2
<1> QED
  BY <1>1, <1>6, <1>7, <1>8 DEF f, k

-----------------------------------------------------------------------------
(* Relays *)

(* A rounded quotient of what lies between two multiples of the divisor.   *)
LEMMA QuotientBetween ==
    ASSUME NEW n \in Int, NEW d \in Nat \ {0}, NEW low \in Int, NEW high \in Int,
           low <= 0, high >= 0, low * d <= n, n <= high * d
    PROVE  Quotient(n, d) \in low..high
<1>1. CASE n >= 0
  <2>1. n \in 0..(high * d) /\ high \in Nat
    BY <1>1
  <2>2. n \div d \in 0..high
    BY <2>1, QuotientUpTo
  <2> QED
    BY <1>1, <2>2 DEF Quotient
<1>2. CASE n < 0
  <2> DEFINE m == -n
             k == -low
  <2>1. m \in Nat /\ k \in Nat /\ m <= k * d
    BY <1>2
  <2> HIDE DEF m, k
  <2>2. k * d \in Nat
    BY <2>1
  <2>3. m \in 0..(k * d)
    BY <2>1, <2>2
  <2>4. m \div d \in 0..k
    BY <2>1, <2>3, QuotientUpTo
  <2>5. Quotient(n, d) = -(m \div d)
    BY <1>2 DEF Quotient, m
  <2> QED
    BY <2>1, <2>4, <2>5 DEF k
<1> QED
  BY <1>1, <1>2

IsConductance(value) == value \in 250..2000

LEMMA ConductanceBounded ==
    ASSUME NEW memory, memory.attempts \in Nat, memory.successes \in Nat
    PROVE  IsConductance(memory_conductance(memory))
<1> DEFINE n == (memory.successes + 1) * 1000
           d == memory.attempts + 2
           quality == n \div d
           experience == (IF memory.attempts < 100 THEN memory.attempts ELSE 100) * 4
<1>1. n \in Nat /\ d \in Nat \ {0} /\ experience \in Int
  OBVIOUS
<1>2. quality \in Int
  <2> HIDE DEF n, d
  <2> QED
    BY <1>1, QuotientBound
<1>3. memory_conductance(memory) = Clamp(500 + quality + experience, 250, 2000)
  BY DEF memory_conductance
<1> HIDE DEF quality, experience
<1> QED
  BY <1>1, <1>2, <1>3 DEF Clamp, IsConductance

(* Fields of traces are means of context fields: finite, of numbers. *)
IsAmounts(map) == IsFiniteSet(DOMAIN map) /\ \A x \in DOMAIN map : map[x] \in Nat

LEMMA CompatibilityTyped ==
    ASSUME NEW left, NEW right, IsAmounts(left), IsAmounts(right)
    PROVE  field_compatibility(left, right) \in Nat
<1> DEFINE atoms == DOMAIN left \cup DOMAIN right
           lesser(m, n) == IF m < n THEN m ELSE n
           greater(m, n) == IF m < n THEN n ELSE m
           g == [x \in atoms |-> lesser(Get(left, x, 0), Get(right, x, 0))]
           h == [x \in atoms |-> greater(Get(left, x, 0), Get(right, x, 0))]
<1>1. IsFiniteSet(atoms)
  BY FS_Union DEF IsAmounts
<1>2. \A x : Get(left, x, 0) \in Nat /\ Get(right, x, 0) \in Nat
  BY DEF Get, IsAmounts
<1>3. \A x \in atoms : g[x] \in Nat /\ h[x] \in Nat
  BY <1>2
<1>4. DOMAIN g = atoms /\ DOMAIN h = atoms
  OBVIOUS
<1>5. field_compatibility(left, right) =
          IF Total(h) = 0 THEN 0 ELSE (Total(g) * 1000) \div Total(h)
  BY DEF field_compatibility
<1> HIDE DEF g, h, atoms
<1>6. Total(g) \in Nat /\ Total(h) \in Nat
  <2>1. Numbers(g, atoms) /\ Numbers(h, atoms) /\ \A x \in atoms : g[x] >= 0 /\ h[x] >= 0
    BY <1>1, <1>3 DEF Numbers
  <2> QED
    BY <1>4, <2>1, SumPositive, TotalIs
<1>7. CASE Total(h) = 0
  BY <1>5, <1>7
<1>8. CASE Total(h) # 0
  <2> DEFINE n == Total(g) * 1000
             d == Total(h)
  <2>1. n \in Nat /\ d \in Nat \ {0}
    BY <1>6, <1>8
  <2> HIDE DEF n, d
  <2>2. n \div d \in Nat
    BY <2>1, QuotientBound
  <2> QED
    BY <1>5, <1>8, <2>2 DEF n, d
<1> QED
  BY <1>7, <1>8

LEMMA MergedTyped ==
    ASSUME NEW target, NEW incoming, NEW count \in Nat, IsAmounts(target), IsAmounts(incoming)
    PROVE  IsAmounts(merge_context_field(target, incoming, count))
<1> DEFINE merged(x) == (Get(target, x, 0) * count + Get(incoming, x, 0)) \div (count + 1)
           atoms == {x \in DOMAIN target \cup DOMAIN incoming : merged(x) # 0}
<1>1. merge_context_field(target, incoming, count) = [x \in atoms |-> merged(x)]
  BY DEF merge_context_field
<1>2. IsFiniteSet(atoms)
  <2>1. IsFiniteSet(DOMAIN target \cup DOMAIN incoming)
    BY FS_Union DEF IsAmounts
  <2>2. atoms \subseteq DOMAIN target \cup DOMAIN incoming
    OBVIOUS
  <2> QED
    BY <2>1, <2>2, FS_Subset
<1>3. ASSUME NEW x PROVE merged(x) \in Nat
  <2> DEFINE a == Get(target, x, 0)
             b == Get(incoming, x, 0)
             n == a * count + b
  <2>1. a \in Nat /\ b \in Nat
    BY DEF Get, IsAmounts
  <2> HIDE DEF a, b
  <2>2. n \in Nat /\ count + 1 \in Nat \ {0}
    BY <2>1
  <2> HIDE DEF n
  <2>3. n \div (count + 1) \in Nat
    BY <2>2, QuotientBound
  <2> QED
    BY <2>3 DEF n, a, b
<1> HIDE DEF merged
<1> QED
  BY <1>1, <1>2, <1>3 DEF IsAmounts

(* Traces are finite in number, within the capacity, and their fields are  *)
(* finite.                                                                 *)
TracesFit(stored, capacity) ==
    /\ IsFiniteSet(DOMAIN stored) /\ DOMAIN stored \subseteq Nat \ {0}
    /\ Cardinality(DOMAIN stored) <= capacity
    /\ \A i \in DOMAIN stored : stored[i].observations \in Nat /\ IsAmounts(stored[i].field)

LEMMA WeakestIs ==
    ASSUME NEW stored, DOMAIN stored \subseteq Nat, DOMAIN stored # {},
           \A i \in DOMAIN stored : stored[i].observations \in Nat
    PROVE  Weakest(stored) \in DOMAIN stored
<1> DEFINE D == DOMAIN stored
           O == {stored[i].observations : i \in D}
<1>1. PICK m \in O : \A n \in O : m <= n
  <2>1. O \subseteq Nat /\ O # {}
    OBVIOUS
  <2> HIDE DEF O
  <2> QED
    BY <2>1, LeastNatural
<1> DEFINE W == {i \in D : stored[i].observations = m}
<1>2. PICK k \in W : \A i \in W : k <= i
  <2>1. W \subseteq Nat /\ W # {}
    OBVIOUS
  <2> HIDE DEF W
  <2> QED
    BY <2>1, LeastNatural
<1>3. ASSUME NEW j \in D
      PROVE  \/ stored[k].observations < stored[j].observations
             \/ stored[k].observations = stored[j].observations /\ k <= j
  <2>1. stored[k].observations = m /\ m <= stored[j].observations /\ m \in Nat
        /\ stored[j].observations \in Nat
    BY <1>1
  <2>2. CASE stored[j].observations = m
    BY <1>2, <2>1, <2>2
  <2>3. CASE stored[j].observations # m
    BY <2>1, <2>3
  <2> QED
    BY <2>2, <2>3
<1>4. k \in D
  OBVIOUS
<1> HIDE DEF W, O
<1> QED
  BY <1>3, <1>4 DEF Weakest

LEMMA EvictedFit ==
    ASSUME NEW stored, TracesFit(stored, config.context_trace_capacity),
           config.context_trace_capacity \in Nat \ {0}
    PROVE  /\ TracesFit(Evict(stored), config.context_trace_capacity)
           /\ Cardinality(DOMAIN Evict(stored)) < config.context_trace_capacity
<1> DEFINE k == config.context_trace_capacity
           D == DOMAIN stored
<1>1. /\ IsFiniteSet(D) /\ D \subseteq Nat \ {0} /\ Cardinality(D) <= k /\ k \in Nat \ {0}
      /\ \A i \in D : stored[i].observations \in Nat /\ IsAmounts(stored[i].field)
  BY DEF TracesFit
<1>2. Cardinality(D) \in Nat
  BY <1>1, FS_CardinalityType
<1>3. CASE Cardinality(D) < k
  BY <1>3 DEF Evict
<1>4. CASE ~(Cardinality(D) < k)
  <2> DEFINE w == Weakest(stored)
  <2>1. D # {}
    <3>1. Cardinality(D) # 0
      BY <1>1, <1>2, <1>4
    <3> QED
      BY <3>1, FS_EmptySet
  <2>2. w \in D
    <3>1. D \subseteq Nat
      BY <1>1
    <3> QED
      BY <1>1, <2>1, <3>1, WeakestIs
  <2>3. Evict(stored) = [i \in D \ {w} |-> stored[i]]
    BY <1>4 DEF Evict, Restricted
  <2> HIDE DEF w, D
  <2>4. IsFiniteSet(D \ {w}) /\ Cardinality(D \ {w}) = Cardinality(D) - 1
    BY <1>1, <2>2, FS_RemoveElement
  <2>5. Cardinality(D \ {w}) < k
    <3> HIDE DEF k
    <3> QED
      BY <1>1, <1>2, <2>4
  <2>6. Cardinality(D \ {w}) <= k
    <3> HIDE DEF k
    <3> QED
      BY <1>1, <1>2, <2>4
  <2> QED
    BY <1>1, <2>3, <2>4, <2>5, <2>6 DEF TracesFit, D
<1> QED
  BY <1>3, <1>4

LEMMA UpdatedFit ==
    ASSUME TracesFit(context_traces, config.context_trace_capacity), NEW shape, IsAmounts(shape),
           config.context_trace_capacity \in Nat \ {0}, NEW crossed, NEW successful
    PROVE  TracesFit(update_guarded_trace(shape, crossed, successful), config.context_trace_capacity)
<1> DEFINE k == config.context_trace_capacity
           closest == Closest(shape)
           stored == IF closest # 0 THEN context_traces ELSE Evict(context_traces)
           index == IF closest # 0 THEN closest ELSE Fresh(stored)
           trace == Get(stored, index, NoTrace(shape))
           observed == Observed(trace, shape, crossed, successful)
           updated == [i \in DOMAIN stored \cup {index} |-> IF i = index THEN observed ELSE stored[i]]
<1>1. update_guarded_trace(shape, crossed, successful) = updated
  BY DEF update_guarded_trace
<1>2. /\ TracesFit(stored, k)
      /\ closest = 0 => Cardinality(DOMAIN stored) < k
  BY EvictedFit
<1>3. closest # 0 => index \in DOMAIN stored
  <2> SUFFICES ASSUME closest # 0 PROVE closest \in DOMAIN context_traces
    OBVIOUS
  <2> DEFINE D == DOMAIN context_traces
             best == {i \in D :
                        \A j \in D : field_compatibility(shape, context_traces[j].field)
                                        <= field_compatibility(shape, context_traces[i].field)}
  <2>1. best # {} /\ closest = Min(best)
    BY DEF Closest
  <2>2. best \subseteq Nat
    BY DEF TracesFit
  <2> HIDE DEF closest
  <2>3. Min(best) \in best
    <3> HIDE DEF best
    <3> QED
      BY <2>1, <2>2, MinIn
  <2> QED
    BY <2>1, <2>3
<1>4. closest = 0 => index \in Nat \ {0}
  <2> SUFFICES ASSUME closest = 0 PROVE Fresh(stored) \in Nat \ {0}
    OBVIOUS
  <2> HIDE DEF stored
  <2>1. IsFiniteSet(DOMAIN stored \cup {0}) /\ DOMAIN stored \cup {0} \subseteq Nat
    BY <1>2, FS_AddElement DEF TracesFit
  <2> DEFINE U == DOMAIN stored \cup {0}
  <2>2. 0 \in U
    OBVIOUS
  <2> HIDE DEF U
  <2>3. PICK b \in Nat : \A x \in U : x <= b
    BY <2>1, FiniteBound DEF U
  <2>4. U \subseteq Int /\ U # {} /\ b \in Int
    BY <2>1, <2>2 DEF U
  <2>5. Max(U) \in U
    BY <2>3, <2>4, MaxIn
  <2>6. Max(U) \in Nat
    BY <2>1, <2>5 DEF U
  <2>7. Fresh(stored) = Max(U) + 1
    BY DEF Fresh, U
  <2> QED
    BY <2>6, <2>7
<1>5. observed.observations \in Nat /\ IsAmounts(observed.field)
  <2>1. trace.observations \in Nat /\ IsAmounts(trace.field)
    <3> HIDE DEF stored, index
    <3>1. CASE index \in DOMAIN stored
      BY <1>2, <3>1 DEF TracesFit, Get
    <3>2. CASE index \notin DOMAIN stored
      BY <3>2 DEF Get, NoTrace
    <3> QED
      BY <3>1, <3>2
  <2> HIDE DEF trace
  <2>2. /\ observed.observations = trace.observations + 1
        /\ observed.field = merge_context_field(trace.field, shape, trace.observations)
    BY DEF Observed
  <2> QED
    BY <2>1, <2>2, MergedTyped
<1> HIDE DEF observed, trace
<1>6. /\ IsFiniteSet(DOMAIN stored \cup {index})
      /\ Cardinality(DOMAIN stored \cup {index}) <= k
      /\ index \in Nat \ {0}
  <2> HIDE DEF stored, index, closest, k
  <2>1. IsFiniteSet(DOMAIN stored) /\ Cardinality(DOMAIN stored) <= k /\ k \in Nat
        /\ DOMAIN stored \subseteq Nat \ {0}
    BY <1>2 DEF TracesFit, k
  <2>2. CASE index \in DOMAIN stored
    <3>1. DOMAIN stored \cup {index} = DOMAIN stored
      BY <2>2
    <3> QED
      BY <2>1, <2>2, <3>1
  <2>3. CASE index \notin DOMAIN stored
    <3>1. closest = 0
      BY <1>3, <2>3
    <3>2. Cardinality(DOMAIN stored) < k /\ Cardinality(DOMAIN stored) \in Nat
      BY <1>2, <2>1, <3>1, FS_CardinalityType
    <3>3. /\ IsFiniteSet(DOMAIN stored \cup {index})
          /\ Cardinality(DOMAIN stored \cup {index}) = Cardinality(DOMAIN stored) + 1
      BY <2>1, <2>3, FS_AddElement
    <3> QED
      BY <1>4, <2>1, <3>1, <3>2, <3>3
  <2> QED
    BY <2>2, <2>3
<1> HIDE DEF stored, index
<1>7. DOMAIN updated = DOMAIN stored \cup {index}
  OBVIOUS
<1>8. \A i \in DOMAIN updated : updated[i].observations \in Nat /\ IsAmounts(updated[i].field)
  BY <1>2, <1>5 DEF TracesFit
<1>9. DOMAIN updated \subseteq Nat \ {0}
  BY <1>2, <1>6, <1>7 DEF TracesFit
<1> HIDE DEF updated
<1>10. TracesFit(updated, k)
  BY <1>6, <1>7, <1>8, <1>9 DEF TracesFit
<1> QED
  BY <1>1, <1>10

LEMMA HalvedFit ==
    ASSUME NEW stored, NEW k \in Nat, TracesFit(stored, k)
    PROVE  TracesFit(HalvedTraces(stored), k)
<1> DEFINE halved == [i \in DOMAIN stored |-> HalveTrace(stored[i])]
           kept == {i \in DOMAIN stored : halved[i].bond_memory # EmptyMap}
<1>1. HalvedTraces(stored) = [i \in kept |-> halved[i]]
  BY DEF HalvedTraces, Without
<1>2. ASSUME NEW i \in kept PROVE halved[i].observations \in Nat /\ IsAmounts(halved[i].field)
  <2>1. stored[i].observations \in Nat /\ IsAmounts(stored[i].field)
    BY DEF TracesFit
  <2>2. halved[i].field = stored[i].field /\ halved[i].observations = stored[i].observations \div 2
    BY DEF HalveTrace
  <2> QED
    BY <2>1, <2>2
<1>3. IsFiniteSet(DOMAIN stored) /\ Cardinality(DOMAIN stored) <= k /\ DOMAIN stored \subseteq Nat \ {0}
  BY DEF TracesFit
<1>4. kept \subseteq DOMAIN stored
  OBVIOUS
<1> HIDE DEF kept, halved
<1>5. IsFiniteSet(kept) /\ Cardinality(kept) <= Cardinality(DOMAIN stored)
  BY <1>3, <1>4, FS_Subset
<1>6. Cardinality(kept) \in Nat /\ Cardinality(DOMAIN stored) \in Nat
  BY <1>3, <1>5, FS_CardinalityType
<1>7. Cardinality(kept) <= k
  BY <1>3, <1>5, <1>6
<1> QED
  BY <1>1, <1>2, <1>3, <1>4, <1>5, <1>7 DEF TracesFit

-----------------------------------------------------------------------------
(* The traces of an engine in use fit its configuration. *)
RelayInv == engine \in Engines /\ MemoryInv /\ TracesFit(context_traces, config.context_trace_capacity)

LEMMA ConfigIs ==
    ASSUME engine \in Engines
    PROVE  /\ validate(config) /\ IsFiniteSet(DOMAIN engine.bonds)
           /\ config.context_trace_capacity \in Nat \ {0}
<1>1. validate(config) /\ IsFiniteSet(DOMAIN engine.bonds)
  BY EngineAssumption, GraphAssumption DEF config
<1> DEFINE k == config.context_trace_capacity
<1>2. k \in 1..TRACE_LIMIT
  BY <1>1 DEF validate
<1>4. TRACE_LIMIT \in Int
  BY DEF TRACE_LIMIT
<1> HIDE DEF k
<1>3. k \in Nat \ {0}
  BY <1>2, <1>4
<1> QED
  BY <1>1, <1>3 DEF k

LEMMA FieldOfTyped ==
    ASSUME engine \in Engines, NEW contexts, IsFiniteSet(contexts)
    PROVE  IsField(FieldOf(contexts)) /\ IsAmounts(FieldOf(contexts))
<1>1. IsField(FieldOf(contexts))
  BY ConfigIs, FieldTyped DEF FieldOf
<1> QED
  BY <1>1 DEF IsField, IsAmounts

LEMMA FeedbackFits ==
    ASSUME RelayInv, NEW contexts, IsFiniteSet(contexts), NEW crossed, NEW successful,
           observe_feedback(contexts, FieldOf(contexts), crossed, successful)
    PROVE  RelayInv'
<1> DEFINE k == config.context_trace_capacity
           shape == FieldOf(contexts)
           stored == IF Guarded(contexts) THEN update_guarded_trace(shape, crossed, successful)
                     ELSE context_traces
<1>1. engine' = engine /\ (context_traces' = stored \/ context_traces' = HalvedTraces(stored))
  BY DEF observe_feedback
<1>2. IsAmounts(shape) /\ k \in Nat \ {0}
  BY FieldOfTyped, ConfigIs DEF RelayInv
<1> HIDE DEF shape
<1>3. TracesFit(stored, k)
  BY <1>2, UpdatedFit DEF RelayInv
<1> HIDE DEF stored, k
<1>4. TracesFit(context_traces', k)
  BY <1>1, <1>2, <1>3, HalvedFit
<1>5. MemoryInv'
  BY FeedbackKeeps DEF RelayInv
<1> QED
  BY <1>1, <1>4, <1>5 DEF RelayInv, k, config

LEMMA RelayInitially == InitMemory => RelayInv
<1> SUFFICES ASSUME InitMemory PROVE RelayInv
  OBVIOUS
<1>1. engine \in Engines /\ MemoryInv
  BY MemoryInitially DEF InitMemory
<1>2. DOMAIN context_traces = {}
  BY DEF InitMemory, EmptyMap
<1>3. config.context_trace_capacity \in Nat
  BY <1>1, ConfigIs
<1>4. IsFiniteSet({}) /\ Cardinality({}) = 0
  BY FS_EmptySet
<1> QED
  BY <1>1, <1>2, <1>3, <1>4 DEF RelayInv, TracesFit

LEMMA RelayInductive == RelayInv /\ [Learn]_memoryVars => RelayInv'
<1> SUFFICES ASSUME RelayInv, [Learn]_memoryVars PROVE RelayInv'
  OBVIOUS
<1>1. CASE Learn
  <2>1. PICK contexts \in SupervisedContexts : \E crossed, successful :
            observe_feedback(contexts, FieldOf(contexts), crossed, successful)
    BY <1>1 DEF Learn
  <2>2. PICK crossed, successful : observe_feedback(contexts, FieldOf(contexts), crossed, successful)
    BY <2>1
  <2>3. IsFiniteSet(contexts)
    BY GraphAssumption DEF SupervisedContexts, RelayInv
  <2> QED
    BY <2>2, <2>3, FeedbackFits
<1>2. CASE UNCHANGED memoryVars
  BY <1>2 DEF memoryVars, RelayInv, MemoryInv, config
<1> QED
  BY <1>1, <1>2

(* The correction that eligible traces make together is a weighted mean of *)
(* their own, or less: no more than the greatest, no less than the least.  *)
AboutPrior(span) == span[1] \in 250..1000 /\ span[2] \in 1000..2000
Within(conductance, span) == conductance \in span[1]..span[2]

LEMMA RelayedBetween ==
    ASSUME NEW shape, NEW bond, NEW span,
           RelayInv, IsAmounts(shape), AboutPrior(span),
           \A i \in Eligible(shape, bond) :
              Within(memory_conductance(context_traces[i].bond_memory[bond]), span)
    PROVE  Within(guarded_relay_conductance(shape, bond), span)
<1> DEFINE eligible == Eligible(shape, bond)
           compatibility(i) == field_compatibility(shape, context_traces[i].field)
           delta(i) == memory_conductance(context_traces[i].bond_memory[bond]) - BASE_CONDUCTANCE
           g == [i \in eligible |-> compatibility(i)]
           w == [i \in eligible |-> delta(i) * compatibility(i)]
           total == Total(g)
           weighted == Total(w)
           d == SharedWeight(total)
<1>1. guarded_relay_conductance(shape, bond)
        = Clamp(BASE_CONDUCTANCE + Quotient(weighted, d), 250, 2000)
  BY Zenon DEF guarded_relay_conductance
<1> DEFINE least == span[1]
           most == span[2]
           low == least - 1000
           high == most - 1000
<1>15. least \in 250..1000 /\ most \in 1000..2000
  BY DEF AboutPrior
<1>16. \A i \in eligible : memory_conductance(context_traces[i].bond_memory[bond]) \in least..most
  BY DEF Within
<1> HIDE DEF least, most
<1>0. /\ low \in Int /\ high \in Int /\ low <= 0 /\ high >= 0
      /\ low >= -750 /\ high <= 1000
  BY <1>15
<1>2. ASSUME NEW i \in eligible
      PROVE  compatibility(i) \in Nat /\ delta(i) \in low..high
  <2>1. i \in DOMAIN context_traces
    BY DEF Eligible
  <2>2. IsAmounts(context_traces[i].field)
    BY <2>1 DEF RelayInv, TracesFit
  <2>3. memory_conductance(context_traces[i].bond_memory[bond]) \in least..most
    BY <1>16
  <2>4. delta(i) \in low..high
    BY <1>15, <2>3 DEF BASE_CONDUCTANCE
  <2> QED
    BY <2>2, <2>4, CompatibilityTyped
<1>3. IsFiniteSet(eligible)
  <2>1. eligible \subseteq DOMAIN context_traces /\ IsFiniteSet(DOMAIN context_traces)
    BY DEF Eligible, RelayInv, TracesFit
  <2> QED
    BY <2>1, FS_Subset
<1> HIDE DEF eligible, compatibility, delta, low, high
<1>4. Numbers(g, eligible) /\ \A i \in eligible : g[i] >= 0
  BY <1>2, <1>3 DEF Numbers
<1>5. \A i \in eligible : \E e \in low..high : w[i] = e * g[i]
  BY <1>2
<1>6. DOMAIN g = eligible /\ DOMAIN w = eligible
  OBVIOUS
<1> HIDE DEF g, w
<1>7. Numbers(w, eligible) /\ low * total <= weighted /\ weighted <= high * total
  <2>1. /\ Numbers(w, eligible)
        /\ low * SumOf(g, eligible) <= SumOf(w, eligible)
        /\ SumOf(w, eligible) <= high * SumOf(g, eligible)
    <3>1. Weighs(w, g, eligible, low, high)
      BY <1>0, <1>4, <1>5 DEF Weighs
    <3> QED
      BY <3>1, WeightedSum
  <2>2. total = SumOf(g, eligible) /\ weighted = SumOf(w, eligible)
    BY <1>6, TotalIs
  <2> HIDE DEF total, weighted
  <2> QED
    BY <2>1, <2>2
<1>8. total \in Nat /\ weighted \in Int
  BY <1>4, <1>6, <1>7, SumPositive, SumTyped, TotalIs
<1> HIDE DEF total, weighted
<1>9. d \in Nat \ {0} /\ total <= d
  BY <1>8 DEF SharedWeight
<1> HIDE DEF d
<1>10. low * d <= low * total /\ high * total <= high * d
  BY <1>0, <1>8, <1>9
<1>11. low * d \in Int /\ low * total \in Int /\ high * d \in Int /\ high * total \in Int
  BY <1>0, <1>8, <1>9
<1>12. low * d <= weighted /\ weighted <= high * d
  <2> DEFINE a == low * d
             b == low * total
             e == high * d
             f == high * total
  <2>1. a <= b /\ b <= weighted /\ weighted <= f /\ f <= e
        /\ a \in Int /\ b \in Int /\ e \in Int /\ f \in Int
    BY <1>7, <1>10, <1>11
  <2> HIDE DEF a, b, e, f
  <2>2. a <= weighted /\ weighted <= e
    BY <1>8, <2>1
  <2> QED
    BY <2>2 DEF a, e
<1>13. Quotient(weighted, d) \in low..high
  BY <1>0, <1>8, <1>9, <1>12, QuotientBetween
<1> DEFINE q == Quotient(weighted, d)
<1> HIDE DEF q
<1>14. Clamp(BASE_CONDUCTANCE + q, 250, 2000) \in least..most
  BY <1>13, <1>15 DEF q, low, high, Clamp, BASE_CONDUCTANCE
<1> QED
  BY <1>1, <1>14 DEF q, Within, least, most

(* The counters of a memory. *)
Counts(memory) == memory.attempts \in Nat /\ memory.successes \in Nat

LEMMA MemoriesCount ==
    ASSUME RelayInv
    PROVE  /\ \A i \in DOMAIN context_traces : \A bond \in DOMAIN context_traces[i].bond_memory :
                Counts(context_traces[i].bond_memory[bond])
           /\ \A key \in DOMAIN memories : \A bond \in DOMAIN memories[key] :
                Counts(memories[key][bond])
<1>1. ASSUME NEW lane, NEW n \in Nat, LaneInv(lane, n), NEW bond \in DOMAIN lane
      PROVE  Counts(lane[bond])
  <2> DEFINE memory == lane[bond]
  <2>1. memory.attempts \in 1..n /\ memory.successes \in 0..memory.attempts
    BY <1>1 DEF LaneInv
  <2> HIDE DEF memory
  <2>2. Counts(memory)
    BY <2>1 DEF Counts
  <2> QED
    BY <2>2 DEF memory
<1>2. ASSUME NEW i \in DOMAIN context_traces, NEW bond \in DOMAIN context_traces[i].bond_memory
      PROVE  Counts(context_traces[i].bond_memory[bond])
  <2>1. context_traces[i].observations \in Nat
        /\ LaneInv(context_traces[i].bond_memory, context_traces[i].observations)
    BY DEF RelayInv, MemoryInv, TraceInv
  <2> QED
    BY <1>1, <2>1
<1>3. ASSUME NEW key \in DOMAIN memories, NEW bond \in DOMAIN memories[key]
      PROVE  Counts(memories[key][bond])
  <2>1. observations \in Nat /\ LaneInv(memories[key], observations)
    BY DEF RelayInv, MemoryInv
  <2> QED
    BY <1>1, <2>1
<1> QED
  BY <1>2, <1>3

LEMMA RelayInvImplies == RelayInv => RelayIsBounded
<1> SUFFICES ASSUME RelayInv PROVE RelayIsBounded
  OBVIOUS
<1>1. Cardinality(DOMAIN context_traces) <= config.context_trace_capacity
  BY DEF RelayInv, TracesFit
<1>2. ASSUME config.learning_scope = "GuardedRelay", NEW contexts \in AskedContexts \ {{}},
             NEW bond \in DOMAIN engine.bonds
      PROVE  LET known == {memory_conductance(context_traces[i].bond_memory[bond]) :
                              i \in Eligible(FieldOf(contexts), bond)} \cup {BASE_CONDUCTANCE}
                 relayed == bond_conductance_with_field(contexts, FieldOf(contexts), bond)
             IN  Min(known) <= relayed /\ relayed <= Max(known)
  <2> DEFINE shape == FieldOf(contexts)
             eligible == Eligible(shape, bond)
             known == {memory_conductance(context_traces[i].bond_memory[bond]) : i \in eligible}
                          \cup {BASE_CONDUCTANCE}
             relayed == guarded_relay_conductance(shape, bond)
  <2>1. bond_conductance_with_field(contexts, shape, bond) = relayed
    BY <1>2 DEF bond_conductance_with_field, Guarded
  <2>2. IsAmounts(shape)
    <3>1. IsFiniteSet(contexts)
      BY GraphAssumption DEF AskedContexts, RelayInv
    <3> QED
      BY <3>1, FieldOfTyped DEF RelayInv
  <2> HIDE DEF shape
  <2>3. ASSUME NEW i \in eligible
        PROVE  IsConductance(memory_conductance(context_traces[i].bond_memory[bond]))
    <3> DEFINE memory == context_traces[i].bond_memory[bond]
    <3>3. i \in DOMAIN context_traces /\ bond \in DOMAIN context_traces[i].bond_memory
      BY DEF Eligible
    <3>1. Counts(memory)
      BY <3>3, MemoriesCount
    <3> HIDE DEF memory
    <3>2. IsConductance(memory_conductance(memory))
      BY <3>1, ConductanceBounded DEF Counts
    <3> QED
      BY <3>2 DEF memory
  <2> HIDE DEF eligible
  <2>4. known \subseteq 250..2000 /\ BASE_CONDUCTANCE \in known /\ BASE_CONDUCTANCE = 1000
    <3>1. IsConductance(BASE_CONDUCTANCE) /\ BASE_CONDUCTANCE = 1000 /\ BASE_CONDUCTANCE \in known
      BY DEF IsConductance, BASE_CONDUCTANCE
    <3>2. \A value \in known : IsConductance(value)
      BY <2>3, <3>1
    <3> HIDE DEF known
    <3> QED
      BY <3>1, <3>2 DEF IsConductance
  <2>5. \A i \in eligible : memory_conductance(context_traces[i].bond_memory[bond]) \in known
    OBVIOUS
  <2> HIDE DEF known
  <2>14. known \subseteq Nat /\ known \subseteq Int /\ known # {} /\ (\A x \in known : x <= 2000) /\ 2000 \in Int
    BY <2>4
  <2>6. Min(known) \in known /\ \A x \in known : Min(known) <= x
    <3>1. known \subseteq Nat /\ known # {}
      BY <2>14
    <3> QED
      BY <3>1, MinIn
  <2>7. Max(known) \in known /\ \A x \in known : x <= Max(known)
    <3> DEFINE b == 2000
    <3>1. known \subseteq Int /\ known # {} /\ b \in Int /\ \A x \in known : x <= b
      BY <2>14
    <3> HIDE DEF b
    <3> QED
      BY <3>1, MaxIn
  <2> DEFINE least == Min(known)
             most == Max(known)
  <2> HIDE DEF least, most
  <2>8. least \in 250..1000 /\ most \in 1000..2000 /\ \A x \in known : x \in least..most
    <3>1. least \in known /\ most \in known /\ \A x \in known : least <= x /\ x <= most
      BY <2>6, <2>7 DEF least, most
    <3>2. \A x \in known : x \in 250..2000
      BY <2>4
    <3> QED
      BY <2>4, <3>1, <3>2
  <2>9. relayed \in least..most
    <3> DEFINE span == <<least, most>>
    <3>1. span[1] = least /\ span[2] = most
      OBVIOUS
    <3> HIDE DEF span
    <3>2. AboutPrior(span)
      BY <2>8, <3>1 DEF AboutPrior
    <3>3. \A i \in Eligible(shape, bond) :
              Within(memory_conductance(context_traces[i].bond_memory[bond]), span)
      BY <2>5, <2>8, <3>1 DEF eligible, Within
    <3>4. Within(guarded_relay_conductance(shape, bond), span)
      BY <2>2, <3>2, <3>3, RelayedBetween
    <3> QED
      BY <3>1, <3>4 DEF Within, relayed
  <2> HIDE DEF relayed
  <2>13. least <= relayed /\ relayed <= most
    BY <2>8, <2>9
  <2> QED
    BY <2>1, <2>13 DEF shape, eligible, known, least, most
<1> QED
  BY <1>1, <1>2 DEF RelayIsBounded

(* GUARDED-CONTEXT-RELAY laws 6 to 8 and 10, for any engine: its traces    *)
(* stay within their capacity, and however many of them are eligible, what *)
(* they relay together lies between the prior and the extremes of each     *)
(* (cognitive.rs:503-562).                                                 *)
THEOREM RelayBounded == SpecMemory => []RelayIsBounded
<1>1. InitMemory => RelayInv
  BY RelayInitially
<1>2. RelayInv /\ [Learn]_memoryVars => RelayInv'
  BY RelayInductive
<1>3. RelayInv => RelayIsBounded
  BY RelayInvImplies
<1> QED
  BY <1>1, <1>2, <1>3, PTL DEF SpecMemory

(* The same of an engine that recalls. *)
THEOREM SpecRelayIsBounded == Spec => []RelayIsBounded
BY SpecImplementsLearning, RelayBounded, PTL DEF ImplementsLearning

-----------------------------------------------------------------------------
(* Context fields of a recall *)

(* The field is that of contexts that are stored. *)
FieldInv == ThreadInv /\ (stage # "idle" => request.contexts \subseteq Atoms(engine.bonds))

LEMMA FieldInductive == FieldInv /\ [Next]_vars => FieldInv'
<1> SUFFICES ASSUME FieldInv, [Next]_vars
             PROVE  stage' # "idle" => request.contexts' \subseteq Atoms(engine'.bonds)
  BY ThreadInductive DEF FieldInv
<1>1. engine' = engine
  BY DEF Next, vars, memoryVars, recall, RecallRefused, TakeTurn, FollowArc, EndRound, Report,
         observe_feedback
<1>2. ASSUME NEW r \in engine.calls, recall(r) PROVE request'.contexts \subseteq Atoms(engine.bonds)
  BY <1>2 DEF recall, Known
<1>3. \/ \E r \in engine.calls : recall(r)
      \/ stage' = "idle"
      \/ request' = request /\ stage # "idle"
      \/ request' = request /\ stage' = stage
  BY DEF Next, vars, spreadVars, RecallRefused, TakeTurn, FollowArc, EndRound, Report
<1> QED
  BY <1>1, <1>2, <1>3 DEF FieldInv

LEMMA FieldInitially == InitRecall => FieldInv
BY ThreadInitially DEF FieldInv, InitRecall

(* Without regard to which atoms are left in it, the field fits.           *)
FieldFits ==
    stage # "idle" =>
        /\ Cardinality(DOMAIN field) <= config.context_field_capacity
        /\ \A x \in DOMAIN field : field[x] \in 1..1000

LEMMA FieldInvImplies ==
    FieldInv => FieldFits /\ (Fades(config, engine.bonds) => ContextFieldSound)
<1> SUFFICES ASSUME FieldInv, stage # "idle"
             PROVE  /\ Cardinality(DOMAIN field) <= config.context_field_capacity
                    /\ \A x \in DOMAIN field : field[x] \in 1..1000
                    /\ Fades(config, engine.bonds)
                            /\ Cardinality(request.contexts) <= config.context_field_capacity =>
                          \A x \in request.contexts : x \in DOMAIN field /\ field[x] = 1000
  BY DEF FieldFits, ContextFieldSound
<1> DEFINE S == request.contexts
<1>1. /\ engine \in Engines /\ request \in engine.calls /\ field = FieldOf(S)
      /\ S \subseteq Atoms(engine.bonds)
  BY DEF FieldInv, ThreadInv, SpreadInv, RequestInv
<1>2. IsFiniteSet(S) /\ Atoms(engine.bonds) \subseteq Nat
  BY <1>1, GraphAssumption
<1>3. validate(config) /\ IsFiniteSet(DOMAIN engine.bonds)
  BY <1>1, ConfigIs
<1> HIDE DEF S
<1>4. IsField(field)
  BY <1>1, <1>2, FieldOfTyped
<1>5. field = build_context_field(config, engine.bonds, S)
  BY <1>1 DEF FieldOf
<1>6. /\ Cardinality(DOMAIN field) <= config.context_field_capacity
      /\ Fades(config, engine.bonds) /\ Cardinality(S) <= config.context_field_capacity =>
            \A x \in S : x \in DOMAIN field /\ field[x] = 1000
  BY <1>1, <1>2, <1>3, <1>5, ContextsStay
<1> QED
  BY <1>4, <1>6 DEF IsField, S

(* GUARDED-CONTEXT-RELAY law 1: the field of a recall stays within its     *)
(* capacity, and weights are at most the full one (cognitive.rs:585-643).  *)
THEOREM SpecFieldFits == Spec => []FieldFits
BY FieldInitially, FieldInductive, FieldInvImplies, PTL DEF Spec

(* GUARDED-CONTEXT-RELAY law 4: no hub pushes a context out of the field   *)
(* while the contexts fit, where weights fade: the propagation is below    *)
(* 1000 per mille, as it is by default (cognitive.rs:46), or no bond names *)
(* an atom twice.                                                          *)
THEOREM SpecContextFieldSound == Spec => [](Fades(config, engine.bonds) => ContextFieldSound)
BY FieldInitially, FieldInductive, FieldInvImplies, PTL DEF Spec

-----------------------------------------------------------------------------
(* Fan-out *)

(* What an arc carries at a conductance c, of activation a that d arcs     *)
(* share, and what it carries at most, times a thousand.                   *)
SignalOf(a, p, c, d) == ((a * p * c) \div 1000000) \div d
AllowanceOf(a, p, d) == (a * p * 2) \div d

LEMMA SignalAllowed ==
    ASSUME NEW a \in Nat, NEW p \in Nat, NEW c \in Nat, NEW d \in Nat \ {0}, c <= 2000
    PROVE  SignalOf(a, p, c, d) \in Nat /\ SignalOf(a, p, c, d) * 1000 <= AllowanceOf(a, p, d)
<1> DEFINE M == 1000000
           b == a * p
           n == a * p * c
           m == a * p * 2
           q == n \div M
           s == q \div d
<1>1. M \in Nat \ {0} /\ M = 1000 * 1000
  OBVIOUS
<1>2. b \in Nat
  OBVIOUS
<1>3. n \in Nat /\ m \in Nat /\ n <= m * 1000
  <2>1. n = b * c /\ m = b * 2
    OBVIOUS
  <2> HIDE DEF b
  <2>2. b * c \in Nat /\ b * 2 \in Nat /\ b * c <= b * 2000
    BY <1>2
  <2>3. (b * 2) * 1000 = b * 2000
    BY <1>2
  <2> QED
    BY <2>1, <2>2, <2>3
<1> HIDE DEF M, n, m, b
<1>4. q \in Nat /\ q * M <= n
  BY <1>1, <1>3, QuotientBound
<1> HIDE DEF q
<1>5. s \in Nat /\ s * d <= q
  BY <1>4, QuotientBound
<1> HIDE DEF s
<1>6. q * 1000 <= m
  <2>1. (q * 1000) * 1000 = q * M
    BY <1>1, <1>4
  <2> DEFINE k == q * 1000
  <2>2. k \in Nat
    BY <1>4
  <2> HIDE DEF k
  <2>3. k * 1000 <= m * 1000
    BY <1>3, <1>4, <2>1, <2>2 DEF k
  <2>4. k <= m
    BY <1>3, <2>2, <2>3
  <2> QED
    BY <2>4 DEF k
<1>7. (s * 1000) * d <= m
  <2>1. (s * 1000) * d = (s * d) * 1000
    BY <1>5
  <2> DEFINE k == s * d
  <2>2. k \in Nat /\ k <= q
    BY <1>5
  <2> HIDE DEF k
  <2>3. k * 1000 <= q * 1000
    BY <1>4, <2>2
  <2> QED
    BY <1>3, <1>4, <1>6, <2>1, <2>2, <2>3 DEF k
<1>8. s * 1000 \in Nat
  BY <1>5
<1>9. s * 1000 <= m \div d
  BY <1>3, <1>7, <1>8, QuotientLeast
<1> QED
  BY <1>5, <1>9 DEF s, q, n, m, M, SignalOf, AllowanceOf

(* Conductance is bounded, whatever an engine has learnt. *)
LEMMA ConductanceKept ==
    ASSUME RelayInv, NEW contexts, NEW shape, IsAmounts(shape), NEW bond
    PROVE  bond_conductance_with_field(contexts, shape, bond) \in 250..2000
<1>1. CASE Guarded(contexts)
  <2> DEFINE span == <<250, 2000>>
  <2>1. span[1] = 250 /\ span[2] = 2000
    OBVIOUS
  <2> HIDE DEF span
  <2>2. AboutPrior(span)
    BY <2>1 DEF AboutPrior
  <2>3. \A i \in Eligible(shape, bond) :
            Within(memory_conductance(context_traces[i].bond_memory[bond]), span)
    <3> SUFFICES ASSUME NEW i \in Eligible(shape, bond)
                 PROVE  Within(memory_conductance(context_traces[i].bond_memory[bond]), span)
      OBVIOUS
    <3> DEFINE memory == context_traces[i].bond_memory[bond]
    <3>3. i \in DOMAIN context_traces /\ bond \in DOMAIN context_traces[i].bond_memory
      BY DEF Eligible
    <3>1. Counts(memory)
      BY <3>3, MemoriesCount
    <3> HIDE DEF memory
    <3>2. IsConductance(memory_conductance(memory))
      BY <3>1, ConductanceBounded DEF Counts
    <3>4. Within(memory_conductance(memory), span)
      BY <2>1, <3>2 DEF Within, IsConductance
    <3> QED
      BY <3>4 DEF memory
  <2>4. Within(guarded_relay_conductance(shape, bond), span)
    BY <2>2, <2>3, RelayedBetween
  <2> QED
    BY <1>1, <2>1, <2>4 DEF Within, bond_conductance_with_field
<1>2. CASE ~Guarded(contexts)
  <2> DEFINE key == learning_key(contexts)
             lane == Get(memories, key, EmptyMap)
  <2>1. bond_conductance_with_field(contexts, shape, bond)
          = IF bond \in DOMAIN lane THEN memory_conductance(lane[bond]) ELSE BASE_CONDUCTANCE
    BY <1>2, Zenon DEF bond_conductance_with_field, bond_conductance_in
  <2> HIDE DEF key
  <2>4. bond \in DOMAIN lane => Counts(lane[bond])
    BY MemoriesCount DEF Get, EmptyMap
  <2> DEFINE memory == lane[bond]
  <2>2. bond \in DOMAIN lane => memory_conductance(memory) \in 250..2000
    <3> HIDE DEF memory, lane
    <3>1. Counts(memory) => IsConductance(memory_conductance(memory))
      BY ConductanceBounded DEF Counts
    <3> QED
      BY <2>4, <3>1 DEF memory, IsConductance
  <2> HIDE DEF lane
  <2>3. BASE_CONDUCTANCE \in 250..2000
    BY DEF BASE_CONDUCTANCE
  <2> QED
    BY <2>1, <2>2, <2>3
<1> QED
  BY <1>1, <1>2

-----------------------------------------------------------------------------
(* The budget of a round                                                   *)

(* What the candidates have received, what the atoms that had their turn   *)
(* had to give, and what the arcs still to follow may carry.               *)
Received(reached) == Total(Activations(reached))
Given(frontier, rest) == Total(Restricted(frontier, {x \in DOMAIN frontier : x \notin rest}))
PerArc(bonds, p, frontier, from) == (frontier[from] * p * 2) \div Degree(bonds, from)
Owed(bonds, p, frontier, from, ahead) ==
    IF ahead = {} THEN 0 ELSE Cardinality(ahead) * PerArc(bonds, p, frontier, from)

InBudget(bonds, p, frontier, rest, from, ahead, reached) ==
    Received(reached) * 1000 + Owed(bonds, p, frontier, from, ahead) <= Given(frontier, rest) * p * 2

LEMMA GivenIs ==
    ASSUME NEW frontier, IsAmounts(frontier), NEW rest
    PROVE  LET spent == {x \in DOMAIN frontier : x \notin rest}
           IN  /\ Numbers(frontier, spent)
               /\ Given(frontier, rest) = SumOf(frontier, spent)
               /\ Given(frontier, rest) \in Nat
<1> DEFINE spent == {x \in DOMAIN frontier : x \notin rest}
           g == Restricted(frontier, spent)
<1>1. Numbers(frontier, spent) /\ \A x \in spent : frontier[x] >= 0
  <2>1. spent \subseteq DOMAIN frontier
    OBVIOUS
  <2>2. IsFiniteSet(spent)
    BY <2>1, FS_Subset DEF IsAmounts
  <2> QED
    BY <2>2 DEF Numbers, IsAmounts
<1>2. Total(g) = SumOf(g, spent)
  BY TotalIs DEF Restricted
<1>3. \A x \in spent : frontier[x] = g[x]
  BY DEF Restricted
<1>4. Given(frontier, rest) = Total(g)
  BY DEF Given
<1> HIDE DEF g, spent
<1>5. SumOf(frontier, spent) = SumOf(g, spent)
  BY <1>1, <1>3, SumSame
<1>6. SumOf(frontier, spent) \in Nat
  BY <1>1, SumPositive
<1> QED
  BY <1>1, <1>2, <1>4, <1>5, <1>6 DEF spent

Reached(reached) ==
    IsFiniteSet(DOMAIN reached) /\ \A x \in DOMAIN reached : reached[x].activation \in Nat

LEMMA ReceivedIs ==
    ASSUME NEW reached, Reached(reached)
    PROVE  /\ Numbers(Activations(reached), DOMAIN reached)
           /\ Received(reached) = SumOf(Activations(reached), DOMAIN reached)
           /\ Received(reached) \in Nat
<1> DEFINE g == Activations(reached)
<1>1. DOMAIN g = DOMAIN reached /\ \A x \in DOMAIN reached : g[x] \in Nat
  BY DEF Activations, Reached
<1> HIDE DEF g
<1>2. Numbers(g, DOMAIN reached) /\ \A x \in DOMAIN reached : g[x] >= 0
  BY <1>1 DEF Numbers, Reached
<1>3. Total(g) = SumOf(g, DOMAIN reached)
  BY <1>1, TotalIs
<1>4. SumOf(g, DOMAIN reached) \in Nat
  BY <1>2, SumPositive
<1> QED
  BY <1>2, <1>3, <1>4 DEF Received, g

LEMMA PerArcIs ==
    ASSUME NEW bonds, IsFiniteSet(DOMAIN bonds), NEW p \in Nat, NEW frontier, NEW from, frontier[from] \in Nat
    PROVE  PerArc(bonds, p, frontier, from) \in Nat
           /\ PerArc(bonds, p, frontier, from) * Degree(bonds, from) <= frontier[from] * p * 2
           /\ Degree(bonds, from) \in Nat \ {0}
<1> DEFINE n == frontier[from] * p * 2
           d == Degree(bonds, from)
<1>1. n \in Nat
  OBVIOUS
<1>2. d \in Nat \ {0}
  BY GraphFinite
<1> HIDE DEF n, d
<1>3. n \div d \in Nat /\ (n \div d) * d <= n
  BY <1>1, <1>2, QuotientBound
<1> QED
  BY <1>2, <1>3 DEF PerArc, n, d

LEMMA BudgetAtStart ==
    ASSUME NEW bonds, NEW p, NEW frontier, NEW rest, NEW from, NEW ahead, NEW reached,
           p \in Nat, IsAmounts(frontier), ahead = {}, DOMAIN reached = {}
    PROVE  InBudget(bonds, p, frontier, rest, from, ahead, reached)
<1>1. Received(reached) = 0
  <2>1. DOMAIN Activations(reached) = {}
    BY DEF Activations
  <2> QED
    BY <2>1, TotalIs, SumEmpty DEF Received
<1>2. Owed(bonds, p, frontier, from, ahead) = 0
  BY DEF Owed
<1> DEFINE v == Given(frontier, rest)
<1>3. v \in Nat
  BY GivenIs
<1> HIDE DEF v
<1>4. 0 * 1000 + 0 <= v * p * 2
  BY <1>3
<1> QED
  BY <1>1, <1>2, <1>4 DEF InBudget, v

(* The turn of an atom. *)
LEMMA BudgetOfTurn ==
    ASSUME NEW bonds, NEW p, NEW frontier, NEW rest, NEW from, NEW x, NEW reached,
           IsFiniteSet(DOMAIN bonds), p \in Nat, IsAmounts(frontier), Reached(reached),
           rest \subseteq DOMAIN frontier, x \in rest,
           InBudget(bonds, p, frontier, rest, from, {}, reached)
    PROVE  InBudget(bonds, p, frontier, rest \ {x}, x, Arcs(bonds, x), reached)
<1> DEFINE spent == {y \in DOMAIN frontier : y \notin rest}
           after == {y \in DOMAIN frontier : y \notin rest \ {x}}
           a == frontier[x]
           u == Given(frontier, rest)
           v == Given(frontier, rest \ {x})
           r == Received(reached)
           o == Owed(bonds, p, frontier, x, Arcs(bonds, x))
<1>1. a \in Nat /\ x \in DOMAIN frontier
  BY DEF IsAmounts
<1>2. r \in Nat /\ r * 1000 + 0 <= u * p * 2
  BY ReceivedIs DEF InBudget, Owed
<1>3. u \in Nat /\ v \in Nat /\ u = SumOf(frontier, spent) /\ v = SumOf(frontier, after)
      /\ Numbers(frontier, spent)
  BY GivenIs
<1>4. after = spent \cup {x} /\ x \notin spent
  BY <1>1
<1>5. v = a + u
  <2> HIDE DEF after, spent, u, v
  <2>1. frontier[x] \in Int
    BY <1>1
  <2> QED
    BY <1>3, <1>4, <2>1, SumAdd
<1>6. o \in Nat /\ o <= a * p * 2
  <2> DEFINE q == PerArc(bonds, p, frontier, x)
             d == Degree(bonds, x)
  <2>1. q \in Nat /\ q * d <= a * p * 2 /\ d \in Nat \ {0}
    BY <1>1, PerArcIs
  <2>2. o = IF Arcs(bonds, x) = {} THEN 0 ELSE d * q
    BY GraphFinite DEF Owed
  <2>3. a * p * 2 \in Nat
    BY <1>1
  <2> HIDE DEF q, d, o, a
  <2>4. d * q = q * d /\ d * q \in Nat
    BY <2>1
  <2> QED
    BY <2>1, <2>2, <2>3, <2>4
<1> HIDE DEF a, u, v, r, o
<1>7. v * p * 2 = a * p * 2 + u * p * 2
  <2>1. (a + u) * p = a * p + u * p /\ a * p \in Nat /\ u * p \in Nat
    BY <1>1, <1>3
  <2> QED
    BY <1>5, <2>1
<1>8. r * 1000 + o <= v * p * 2
  <2>1. a * p * 2 \in Nat /\ u * p * 2 \in Nat
    BY <1>1, <1>3
  <2> QED
    BY <1>2, <1>6, <1>7, <2>1
<1> QED
  BY <1>8 DEF InBudget, r, o, v

(* An arc that carries nothing, or what it may. *)
LEMMA BudgetOfArc ==
    ASSUME NEW bonds, NEW p, NEW frontier, NEW rest, NEW from, NEW ahead, NEW arc,
           NEW reached, NEW signal, NEW after,
           IsFiniteSet(DOMAIN bonds), p \in Nat, IsAmounts(frontier), Reached(reached), Reached(after),
           from \in DOMAIN frontier, ahead \subseteq Arcs(bonds, from), arc \in ahead,
           signal \in Nat, signal * 1000 <= PerArc(bonds, p, frontier, from),
           Received(after) = Received(reached) + signal,
           InBudget(bonds, p, frontier, rest, from, ahead, reached)
    PROVE  InBudget(bonds, p, frontier, rest, from, ahead \ {arc}, after)
<1> DEFINE q == PerArc(bonds, p, frontier, from)
           n == Cardinality(ahead)
           m == Cardinality(ahead \ {arc})
           r == Received(reached)
           s == Received(after)
           g == Given(frontier, rest) * p * 2
<1>1. q \in Nat
  <2>1. frontier[from] \in Nat
    BY DEF IsAmounts
  <2> QED
    BY <2>1, PerArcIs
<1>2. n \in Nat /\ n = m + 1 /\ m \in Nat /\ (ahead \ {arc} = {} => m = 0)
  <2>1. IsFiniteSet(ahead)
    BY GraphFinite, FS_Subset
  <2>2. IsFiniteSet(ahead \ {arc}) /\ Cardinality(ahead \ {arc}) = Cardinality(ahead) - 1
    BY <2>1, FS_RemoveElement
  <2>3. n \in Nat /\ m \in Nat
    BY <2>1, <2>2, FS_CardinalityType
  <2> QED
    BY <2>2, <2>3, FS_EmptySet
<1>3. r \in Nat /\ s = r + signal
  BY ReceivedIs
<1>4. g \in Nat
  <2> DEFINE v == Given(frontier, rest)
  <2>1. v \in Nat
    BY GivenIs
  <2> HIDE DEF v
  <2>2. v * p * 2 \in Nat
    BY <2>1
  <2> QED
    BY <2>2 DEF v
<1>5. r * 1000 + n * q <= g
  BY DEF InBudget, Owed
<1>6. Owed(bonds, p, frontier, from, ahead \ {arc}) = m * q
  <2>1. CASE ahead \ {arc} = {}
    <3>1. m = 0
      BY <1>2, <2>1
    <3> HIDE DEF m, q
    <3>2. m * q = 0
      BY <1>1, <3>1
    <3> QED
      BY <2>1, <3>2 DEF Owed
  <2>2. CASE ahead \ {arc} # {}
    BY <2>2 DEF Owed
  <2> QED
    BY <2>1, <2>2
<1>7. signal * 1000 <= q
  OBVIOUS
<1> HIDE DEF q, n, m, r, s, g
<1>8. n * q = m * q + q /\ m * q \in Nat
  BY <1>1, <1>2
<1>9. s * 1000 = r * 1000 + signal * 1000
  BY <1>3
<1>10. s * 1000 + m * q <= g
  BY <1>1, <1>3, <1>4, <1>5, <1>7, <1>8, <1>9
<1> QED
  BY <1>6, <1>10 DEF InBudget, q, s, g, m

-----------------------------------------------------------------------------
(* A round                                                                 *)

RoundInv ==
    /\ \A x \in DOMAIN active : active[x] \in Nat
    /\ \A x \in DOMAIN candidates : candidates[x].activation \in Nat
    /\ Cardinality(DOMAIN active) <= config.working_memory_capacity
    /\ arcs # {} => turn \in DOMAIN active
    /\ InBudget(engine.bonds, config.propagation_per_mille, active, waiting, turn, arcs, candidates)

FanOutInv == FieldInv /\ RelayInv /\ RoundInv

(* The constants of a recall, and its maps. *)
LEMMA BoundsAre ==
    ASSUME engine \in Engines
    PROVE  /\ validate(config)
           /\ IsFiniteSet(DOMAIN engine.bonds) /\ IsFiniteSet(Atoms(engine.bonds))
           /\ Atoms(engine.bonds) \subseteq Nat
           /\ config.working_memory_capacity \in Nat /\ config.propagation_per_mille \in Nat
           /\ config.cue_activation \in Nat /\ config.context_activation \in Nat
<1>1. validate(config) /\ IsFiniteSet(DOMAIN engine.bonds) /\ Atoms(engine.bonds) \subseteq Nat
  BY ConfigIs, GraphAssumption
<1> DEFINE k == config.working_memory_capacity
           p == config.propagation_per_mille
<1>2. /\ k \in 1..CAPACITY_LIMIT /\ p \in 1..1000
      /\ config.cue_activation \in Nat \ {0} /\ config.context_activation \in Nat \ {0}
  BY <1>1 DEF validate
<1>3. CAPACITY_LIMIT \in Int
  BY DEF CAPACITY_LIMIT
<1>4. IsFiniteSet(Atoms(engine.bonds))
  BY <1>1, GraphFinite
<1> HIDE DEF k, p
<1>5. k \in Nat /\ p \in Nat
  BY <1>2, <1>3
<1> QED
  BY <1>1, <1>2, <1>4, <1>5 DEF k, p

LEMMA FrontierFits ==
    ASSUME NEW map, NEW k, IsAmounts(map), DOMAIN map \subseteq Nat, k \in Nat
    PROVE  LET frontier == Restricted(map, Strongest(map, k))
           IN  IsAmounts(frontier) /\ Cardinality(DOMAIN frontier) <= k
<1> DEFINE kept == Strongest(map, k)
<1>1. Weights(map)
  BY DEF Weights, IsAmounts
<1>2. IsFiniteSet(kept) /\ Cardinality(kept) <= k
  BY <1>1, StrongestFew
<1>3. kept \subseteq DOMAIN map
  BY DEF Strongest
<1> HIDE DEF kept
<1>4. Restricted(map, kept) = [x \in kept |-> map[x]]
  BY DEF Restricted
<1>5. IsAmounts(Restricted(map, kept)) /\ DOMAIN Restricted(map, kept) = kept
  BY <1>2, <1>3, <1>4 DEF IsAmounts
<1> QED
  BY <1>2, <1>5 DEF kept

LEMMA MapsFit ==
    ASSUME ThreadInv, RoundInv
    PROVE  /\ IsAmounts(active) /\ Reached(candidates)
           /\ DOMAIN candidates \subseteq Nat /\ IsAmounts(Activations(candidates))
<1>1. IsFiniteSet(Atoms(engine.bonds)) /\ Atoms(engine.bonds) \subseteq Nat
  BY BoundsAre DEF ThreadInv
<1>2. DOMAIN active \subseteq Atoms(engine.bonds) /\ DOMAIN candidates \subseteq Atoms(engine.bonds)
  BY DEF ThreadInv, SpreadInv, AtomsInv
<1>3. IsFiniteSet(DOMAIN active) /\ IsFiniteSet(DOMAIN candidates)
  BY <1>1, <1>2, FS_Subset
<1> QED
  BY <1>1, <1>2, <1>3 DEF RoundInv, IsAmounts, Reached, Activations

(* A round that starts. *)
LEMMA RoundStarts ==
    ASSUME NEW map, engine \in Engines, engine' = engine, IsAmounts(map), DOMAIN map \subseteq Nat,
           active' = Restricted(map, Strongest(map, config.working_memory_capacity)),
           DOMAIN candidates' = {}, arcs' = {}
    PROVE  RoundInv'
<1> DEFINE k == config.working_memory_capacity
           p == config.propagation_per_mille
<1>1. k \in Nat /\ p \in Nat
  BY BoundsAre
<1>2. config' = config
  BY DEF config
<1> HIDE DEF k, p
<1>3. active' = Restricted(map, Strongest(map, k))
  BY DEF k
<1>4. IsAmounts(active') /\ Cardinality(DOMAIN active') <= k
  BY <1>1, <1>3, FrontierFits
<1>5. InBudget(engine.bonds, p, active', waiting', turn', arcs', candidates')
  BY <1>1, <1>4, BudgetAtStart
<1> QED
  BY <1>2, <1>4, <1>5 DEF RoundInv, IsAmounts, k, p

LEMMA RecallRound ==
    ASSUME FanOutInv, NEW r \in engine.calls, recall(r)
    PROVE  RoundInv'
<1> DEFINE S == {r.cue} \cup r.contexts
           seeds == [x \in S |-> Seed(r, x)]
           map == Activations(seeds)
<1>1. engine \in Engines /\ DOMAIN candidates = {} /\ arcs = {} /\ stage = "idle"
  BY DEF FanOutInv, FieldInv, ThreadInv, SpreadInv, IdleInv, recall
<1>2. /\ engine' = engine /\ candidates' = candidates /\ arcs' = arcs
      /\ active' = Restricted(map, Strongest(map, config.working_memory_capacity))
  BY DEF recall, memoryVars, Frontier
<1>3. IsFiniteSet(S) /\ S \subseteq Nat
  <2>1. IsFiniteSet(r.contexts) /\ IsFiniteSet({r.cue})
    BY <1>1, GraphAssumption, FS_Singleton
  <2>2. S \subseteq Atoms(engine.bonds)
    BY DEF recall, Known
  <2> QED
    BY <1>1, <2>1, <2>2, BoundsAre, FS_Union
<1>4. ASSUME NEW x \in S PROVE map[x] \in Nat
  <2> DEFINE a == config.cue_activation
             b == config.context_activation
  <2>1. a \in Nat /\ b \in Nat
    BY <1>1, BoundsAre
  <2>2. map[x] = (IF x = r.cue THEN a ELSE 0) + (IF x \in r.contexts THEN b ELSE 0)
    BY DEF Activations, Seed
  <2> HIDE DEF a, b, map
  <2> QED
    BY <2>1, <2>2
<1>5. DOMAIN map = S
  BY DEF Activations
<1> HIDE DEF S, map
<1>6. IsAmounts(map) /\ DOMAIN map \subseteq Nat
  BY <1>3, <1>4, <1>5 DEF IsAmounts
<1> QED
  BY <1>1, <1>2, <1>6, RoundStarts

LEMMA EndRoundRound ==
    ASSUME FanOutInv, EndRound
    PROVE  RoundInv'
<1> DEFINE map == Activations(candidates)
<1>1. /\ engine' = engine /\ DOMAIN candidates' = {} /\ arcs' = {}
      /\ active' = Restricted(map, Strongest(map, config.working_memory_capacity))
  BY DEF EndRound, memoryVars, EmptyMap
<1>2. IsAmounts(map) /\ DOMAIN map \subseteq Nat
  <2>1. IsAmounts(map) /\ DOMAIN candidates \subseteq Nat
    BY MapsFit DEF FanOutInv, FieldInv
  <2> QED
    BY <2>1 DEF Activations
<1>3. engine \in Engines
  BY DEF FanOutInv, RelayInv
<1> HIDE DEF map
<1> QED
  BY <1>1, <1>2, <1>3, RoundStarts

LEMMA TurnRound ==
    ASSUME FanOutInv, NEW x \in waiting, TakeTurn(x)
    PROVE  RoundInv'
<1> DEFINE p == config.propagation_per_mille
           bonds == engine.bonds
<1>1. /\ engine' = engine /\ active' = active /\ candidates' = candidates /\ turn' = x
      /\ arcs = {} /\ arcs' = Arcs(bonds, x) /\ waiting' = waiting \ {x}
  BY DEF TakeTurn, memoryVars
<1>2. config' = config
  BY <1>1 DEF config
<1>3. waiting \subseteq DOMAIN active /\ engine \in Engines
  BY DEF FanOutInv, FieldInv, ThreadInv, SpreadInv, AtomsInv
<1>4. IsAmounts(active) /\ Reached(candidates)
  BY MapsFit DEF FanOutInv, FieldInv
<1>5. InBudget(bonds, p, active, waiting, turn, {}, candidates)
  BY <1>1 DEF FanOutInv, RoundInv
<1>6. p \in Nat /\ IsFiniteSet(DOMAIN bonds)
  BY <1>3, BoundsAre
<1> HIDE DEF p, bonds
<1>7. InBudget(bonds, p, active, waiting \ {x}, x, Arcs(bonds, x), candidates)
  BY <1>3, <1>4, <1>5, <1>6, BudgetOfTurn
<1> QED
  BY <1>1, <1>2, <1>3, <1>7 DEF FanOutInv, RoundInv, p, bonds

-----------------------------------------------------------------------------
LEMMA SignalReceived ==
    ASSUME NEW reached, NEW after, NEW to, NEW signal, NEW bond, Reached(reached), signal \in Nat,
           after = [x \in DOMAIN reached \cup {to} |->
                      IF x = to THEN Signalled(Get(reached, to, NoCandidate), signal, bond) ELSE reached[x]]
    PROVE  Reached(after) /\ Received(after) = Received(reached) + signal
<1> DEFINE D == DOMAIN reached
           g == Activations(reached)
           h == Activations(after)
<1>1. DOMAIN g = D /\ DOMAIN h = D \cup {to} /\ DOMAIN after = D \cup {to}
  BY DEF Activations
<1>2. \A x \in D : g[x] = reached[x].activation
  BY DEF Activations
<1>3. h[to] = after[to].activation /\ \A x \in D \ {to} : h[x] = reached[x].activation
  BY DEF Activations
<1>4. after[to].activation = (IF to \in D THEN g[to] ELSE 0) + signal
  BY <1>2 DEF Signalled, Get, NoCandidate
<1>5. Numbers(g, D) /\ Received(reached) = SumOf(g, D) /\ Received(reached) \in Nat
  BY ReceivedIs
<1>6. \A x \in D : g[x] \in Nat
  BY <1>2 DEF Reached
<1> HIDE DEF g, h
<1>7. h[to] = (IF to \in D THEN g[to] ELSE 0) + signal /\ \A x \in D \ {to} : h[x] = g[x]
  BY <1>2, <1>3, <1>4
<1>8. SumOf(h, D \cup {to}) = SumOf(g, D) + signal
  <2> HIDE DEF D
  <2>1. Numbers(g, D) /\ signal \in Int
    BY <1>5
  <2>2. h[to] = (IF to \in D THEN g[to] ELSE 0) + signal
    BY <1>7
  <2>3. \A y \in D \ {to} : h[y] = g[y]
    BY <1>7
  <2>4. Raised(h, g, D, to, signal)
    BY <2>1, <2>2, <2>3 DEF Raised
  <2> QED
    BY <2>1, <2>4, SumRaised
<1>9. Reached(after)
  <2>1. IsFiniteSet(D \cup {to})
    BY FS_AddElement DEF Reached
  <2>2. after[to].activation \in Nat
    BY <1>4, <1>6
  <2>3. \A x \in D \ {to} : after[x].activation \in Nat
    BY DEF Reached
  <2>4. \A x \in DOMAIN after : x = to \/ x \in D \ {to}
    BY <1>1
  <2> QED
    BY <1>1, <2>1, <2>2, <2>3, <2>4 DEF Reached
<1>10. Received(after) = SumOf(h, D \cup {to})
  BY <1>9, <1>1, ReceivedIs DEF h
<1> QED
  BY <1>5, <1>8, <1>9, <1>10

LEMMA ArcRound ==
    ASSUME FanOutInv, NEW arc \in arcs, FollowArc(arc)
    PROVE  RoundInv'
<1> DEFINE p == config.propagation_per_mille
           bonds == engine.bonds
           signal == transmitted(arc.bond)
           conductance == bond_conductance_with_field(request.contexts, field, arc.bond)
<1>1. /\ engine' = engine /\ active' = active /\ turn' = turn /\ waiting' = waiting
      /\ arcs' = arcs \ {arc} /\ stage = "spread"
      /\ candidates' = IF Open(arc.to) /\ signal > 0
           THEN [x \in DOMAIN candidates \cup {arc.to} |->
                   IF x = arc.to THEN Signalled(Get(candidates, arc.to, NoCandidate), signal, arc.bond)
                   ELSE candidates[x]]
           ELSE candidates
  BY DEF FollowArc, memoryVars
<1>2. config' = config
  BY <1>1 DEF config
<1>3. engine \in Engines /\ arcs \subseteq Arcs(bonds, turn) /\ turn \in DOMAIN active
  BY DEF FanOutInv, RelayInv, FieldInv, ThreadInv, SpreadInv, TurnInv, RoundInv
<1>4. IsAmounts(active) /\ Reached(candidates)
  BY MapsFit DEF FanOutInv, FieldInv
<1>5. InBudget(bonds, p, active, waiting, turn, arcs, candidates)
  BY DEF FanOutInv, RoundInv
<1>6. p \in Nat /\ IsFiniteSet(DOMAIN bonds)
  BY <1>3, BoundsAre
<1>7. conductance \in 250..2000
  <2>1. request \in engine.calls /\ field = FieldOf(request.contexts)
    BY <1>1 DEF FanOutInv, FieldInv, ThreadInv, SpreadInv, RequestInv
  <2>2. IsFiniteSet(request.contexts)
    BY <1>3, <2>1, GraphAssumption
  <2>3. IsAmounts(field)
    BY <1>3, <2>1, <2>2, FieldOfTyped
  <2> QED
    BY <2>3, ConductanceKept DEF FanOutInv
<1>8. signal \in Nat /\ signal * 1000 <= PerArc(bonds, p, active, turn)
  <2> DEFINE a == active[turn]
             d == Degree(bonds, turn)
  <2>1. a \in Nat /\ d \in Nat \ {0}
    BY <1>3, <1>4, <1>6, GraphFinite DEF IsAmounts
  <2>2. signal = SignalOf(a, p, conductance, d)
    BY DEF transmitted, Share, SignalOf
  <2>3. PerArc(bonds, p, active, turn) = AllowanceOf(a, p, d)
    BY DEF PerArc, AllowanceOf
  <2> HIDE DEF a, d, p, conductance, signal, bonds
  <2>4. conductance \in Nat /\ conductance <= 2000
    BY <1>7
  <2>5. SignalOf(a, p, conductance, d) \in Nat
        /\ SignalOf(a, p, conductance, d) * 1000 <= AllowanceOf(a, p, d)
    BY <1>6, <2>1, <2>4, SignalAllowed
  <2> QED
    BY <2>2, <2>3, <2>5
<1> HIDE DEF p, bonds, signal, conductance
<1>9. CASE Open(arc.to) /\ signal > 0
  <2>1. Reached(candidates') /\ Received(candidates') = Received(candidates) + signal
    BY <1>1, <1>4, <1>8, <1>9, SignalReceived
  <2>2. InBudget(bonds, p, active, waiting, turn, arcs \ {arc}, candidates')
    BY <1>3, <1>4, <1>5, <1>6, <1>8, <2>1, BudgetOfArc
  <2> QED
    BY <1>1, <1>2, <1>3, <2>1, <2>2 DEF FanOutInv, RoundInv, Reached, p, bonds
<1>10. CASE ~(Open(arc.to) /\ signal > 0)
  <2>1. candidates' = candidates
    BY <1>1, <1>10
  <2> DEFINE none == 0
  <2>2. none \in Nat /\ Received(candidates) = Received(candidates) + none
        /\ none * 1000 <= PerArc(bonds, p, active, turn)
    <3>1. Received(candidates) \in Nat
      BY <1>4, ReceivedIs
    <3>2. active[turn] \in Nat
      BY <1>3, <1>4 DEF IsAmounts
    <3>3. PerArc(bonds, p, active, turn) \in Nat
      BY <1>6, <3>2, PerArcIs
    <3> DEFINE r == Received(candidates)
               q == PerArc(bonds, p, active, turn)
    <3> HIDE DEF r, q
    <3>4. r \in Nat /\ q \in Nat
      BY <3>1, <3>3 DEF r, q
    <3>5. r = r + 0 /\ 0 * 1000 <= q
      BY <3>4
    <3> QED
      BY <3>5 DEF r, q
  <2> HIDE DEF none
  <2>3. InBudget(bonds, p, active, waiting, turn, arcs \ {arc}, candidates)
    BY <1>3, <1>4, <1>5, <1>6, <2>2, BudgetOfArc
  <2> QED
    BY <1>1, <1>2, <1>3, <2>1, <2>3 DEF FanOutInv, RoundInv, p, bonds
<1> QED
  BY <1>9, <1>10

(* Without a frontier and arcs there is nothing to give. *)
LEMMA NoRound ==
    ASSUME engine \in Engines, DOMAIN active = {}, DOMAIN candidates = {}, arcs = {}
    PROVE  RoundInv
<1> DEFINE k == config.working_memory_capacity
           p == config.propagation_per_mille
<1>1. k \in Nat /\ p \in Nat
  BY BoundsAre
<1>2. IsFiniteSet({}) /\ Cardinality({}) = 0
  BY FS_EmptySet
<1> HIDE DEF k, p
<1>3. IsAmounts(active) /\ Cardinality(DOMAIN active) <= k
  BY <1>1, <1>2 DEF IsAmounts
<1>4. InBudget(engine.bonds, p, active, waiting, turn, arcs, candidates)
  BY <1>1, <1>3, BudgetAtStart
<1> QED
  BY <1>3, <1>4 DEF RoundInv, k, p

LEMMA FanOutInductive == FanOutInv /\ [Next]_vars => FanOutInv'
<1> SUFFICES ASSUME FanOutInv, [Next]_vars PROVE FanOutInv'
  OBVIOUS
<1>1. FieldInv' /\ RelayInv'
  <2>1. [Learn]_memoryVars
    BY StepLearns DEF FanOutInv, FieldInv, ThreadInv
  <2> QED
    BY <2>1, FieldInductive, RelayInductive DEF FanOutInv
<1>2. ASSUME NEW r \in engine.calls, recall(r) PROVE RoundInv'
  BY <1>2, RecallRound
<1>3. ASSUME NEW x \in waiting, TakeTurn(x) PROVE RoundInv'
  BY <1>3, TurnRound
<1>4. ASSUME NEW arc \in arcs, FollowArc(arc) PROVE RoundInv'
  BY <1>4, ArcRound
<1>5. ASSUME EndRound PROVE RoundInv'
  BY <1>5, EndRoundRound
<1>6. ASSUME Report PROVE RoundInv'
  <2>1. engine' = engine /\ active' = EmptyMap /\ candidates' = EmptyMap /\ arcs' = {}
    BY <1>6, Zenon DEF Report, observe_feedback, memoryVars
  <2>2. DOMAIN EmptyMap = {}
    BY DEF EmptyMap
  <2>3. engine \in Engines
    BY DEF FanOutInv, RelayInv
  <2>4. IsAmounts(EmptyMap)
    BY <2>2, FS_EmptySet DEF IsAmounts
  <2>5. Strongest(EmptyMap, config.working_memory_capacity) = {}
    BY <2>2 DEF Strongest
  <2>6. EmptyMap = Restricted(EmptyMap, {})
    BY DEF EmptyMap, Restricted
  <2> HIDE DEF EmptyMap
  <2> QED
    BY <2>1, <2>2, <2>3, <2>4, <2>5, <2>6, RoundStarts
<1>7. ASSUME UNCHANGED vars PROVE RoundInv'
  BY <1>7 DEF vars, spreadVars, memoryVars, FanOutInv, RoundInv, config
<1> QED
  BY <1>1, <1>2, <1>3, <1>4, <1>5, <1>6, <1>7 DEF Next, RecallRefused, FanOutInv

LEMMA FanOutInitially == InitRecall => FanOutInv
<1> SUFFICES ASSUME InitRecall PROVE FanOutInv
  OBVIOUS
<1>1. engine \in Engines /\ DOMAIN active = {} /\ DOMAIN candidates = {} /\ arcs = {}
  BY DEF InitRecall, InitMemory, EmptyMap
<1>2. RoundInv
  BY <1>1, NoRound
<1>3. FieldInv /\ RelayInv
  BY FieldInitially, RelayInitially DEF InitRecall
<1> QED
  BY <1>2, <1>3 DEF FanOutInv

LEMMA FanOutInvImplies == FanOutInv => FanOutDissipates
<1> SUFFICES ASSUME FanOutInv PROVE FanOutDissipates
  OBVIOUS
<1> DEFINE p == config.propagation_per_mille
           r == Received(candidates)
           v == Given(active, waiting)
           o == Owed(engine.bonds, p, active, turn, arcs)
<1>1. engine \in Engines
  BY DEF FanOutInv, RelayInv
<1>2. p \in Nat /\ IsFiniteSet(DOMAIN engine.bonds)
  BY <1>1, BoundsAre
<1>3. IsAmounts(active) /\ Reached(candidates)
  BY MapsFit DEF FanOutInv, FieldInv
<1>4. r \in Nat /\ v \in Nat
  BY <1>3, ReceivedIs, GivenIs
<1>5. o \in Nat
  <2> HIDE DEF p
  <2>1. CASE arcs = {}
    BY <2>1 DEF Owed
  <2>2. CASE arcs # {}
    <3>1. turn \in DOMAIN active /\ arcs \subseteq Arcs(engine.bonds, turn)
      BY <2>2 DEF FanOutInv, RoundInv, FieldInv, ThreadInv, SpreadInv, TurnInv
    <3>2. PerArc(engine.bonds, p, active, turn) \in Nat
      BY <1>2, <1>3, <3>1, PerArcIs DEF IsAmounts
    <3>3. Cardinality(arcs) \in Nat
      BY <1>2, <3>1, GraphFinite, FS_Subset, FS_CardinalityType
    <3> DEFINE n == Cardinality(arcs)
               q == PerArc(engine.bonds, p, active, turn)
    <3>4. o = n * q
      BY <2>2 DEF Owed
    <3> HIDE DEF n, q, o
    <3>5. n \in Nat /\ q \in Nat
      BY <3>2, <3>3 DEF n, q
    <3> QED
      BY <3>4, <3>5
  <2> QED
    BY <2>1, <2>2
<1>6. r * 1000 + o <= v * p * 2
  BY DEF FanOutInv, RoundInv, InBudget
<1>7. Cardinality(DOMAIN active) <= config.working_memory_capacity
  BY DEF FanOutInv, RoundInv
<1>8. /\ Total(Activations(candidates)) = r
      /\ Total(Restricted(active, {x \in DOMAIN active : x \notin waiting})) = v
  BY DEF Received, Given
<1> HIDE DEF r, v, o
<1>9. r * 1000 <= v * p * 2
  <2> HIDE DEF p
  <2>1. v * p * 2 \in Nat
    BY <1>2, <1>4
  <2> QED
    BY <1>4, <1>5, <1>6, <2>1
<1> QED
  BY <1>7, <1>8, <1>9 DEF FanOutDissipates

(* COGNITIVE-EXPERIMENT laws 4 and 5, gates 3 and 8, for any store and     *)
(* engine: however many arcs the frontier has, a round puts no more into   *)
(* its candidates than the propagation of what its atoms hold, at the      *)
(* greatest conductance (cognitive.rs:344-386).                            *)
THEOREM SpecFanOutDissipates == Spec => []FanOutDissipates
BY FanOutInitially, FanOutInductive, FanOutInvImplies, PTL DEF Spec
=============================================================================
