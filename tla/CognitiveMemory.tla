-------------------------- MODULE CognitiveMemory --------------------------
(***************************************************************************)
(* What a CognitiveEngine learns: the lanes and context traces a           *)
(* supervised recall updates, their half-life, and the conductance a later *)
(* recall draws from them.  As a specification of its own it promises what *)
(* feedback may do, whatever a recall explored and found: Recall, which    *)
(* spreads the activation, implements it.  Counters stay below 2^64.       *)
(***************************************************************************)
EXTENDS BondGraph

CONSTANT Engines   \* [config, bonds, calls, observations]: a CognitiveConfig, the
                   \* bonds of its store, the recalls that may be asked of it, and
                   \* how many of these are supervised at most

(* CognitiveConfig::validate *)
CAPACITY_LIMIT == 4096
TRACE_LIMIT == 65536
validate(c) ==
    /\ c.working_memory_capacity \in 1..CAPACITY_LIMIT
    /\ c.max_depth \in 1..64
    /\ c.cue_activation \in Nat \ {0} /\ c.context_activation \in Nat \ {0}
    /\ c.propagation_per_mille \in 1..1000
    /\ c.learning_scope \in {"Global", "Contextual", "GuardedRelay"}
    /\ c.observation_half_life \in Nat
    /\ c.context_field_depth \in 1..8
    /\ c.context_field_capacity \in 1..CAPACITY_LIMIT
    /\ c.context_field_propagation_per_mille \in 1..1000
    /\ c.relay_guard_per_mille \in 0..1000
    /\ c.context_merge_per_mille \in c.relay_guard_per_mille..1000
    /\ c.context_trace_capacity \in 1..TRACE_LIMIT
ASSUME EngineAssumption == \A engine \in Engines : validate(engine.config)

(* A store has finitely many bonds; a recall has finitely many contexts,   *)
(* and one target or none.                                                 *)
ASSUME GraphAssumption ==
    \A engine \in Engines :
        /\ IsFiniteSet(DOMAIN engine.bonds) /\ Atoms(engine.bonds) \subseteq Nat
        /\ \A r \in engine.calls : IsFiniteSet(r.contexts) /\ \A t, u \in r.target : t = u

VARIABLES
    engine,          \* the engine that is used
    memories,        \* lane -> bond -> [attempts, successes]
    context_traces,  \* [field, bond_memory, observations] by serial number, which
                     \* stands for the place in the code's vector
    observations,
    unhalved         \* history: memories before the last step's half-life

memoryVars == <<engine, memories, context_traces, observations, unhalved>>

config == engine.config

BASE_CONDUCTANCE == 1000
Clamp(value, low, high) == IF value < low THEN low ELSE IF value > high THEN high ELSE value
AskedContexts == {request.contexts : request \in engine.calls}
FieldOf(contexts) == build_context_field(config, engine.bonds, contexts)
Without(map, keep(_)) == [key \in {k \in DOMAIN map : keep(map[k])} |-> map[key]]

-----------------------------------------------------------------------------
(* Conductance *)

NoMemory == [attempts |-> 0, successes |-> 0]

(* Mutant: experience counts against a bond. *)
conductance_wary(memory) ==
    Clamp(500 + ((memory.successes + 1) * 1000) \div (memory.attempts + 2) - memory.attempts * 40,
          250, 2000)
memory_conductance(memory) ==
    LET quality == ((memory.successes + 1) * 1000) \div (memory.attempts + 2)
        experience == (IF memory.attempts < 100 THEN memory.attempts ELSE 100) * 4
    IN  Clamp(500 + quality + experience, 250, 2000)

learning_key(contexts) == IF config.learning_scope = "Global" THEN {} ELSE contexts

bond_conductance_in(contexts, bond) ==
    LET lane == Get(memories, learning_key(contexts), EmptyMap)
    IN  IF bond \in DOMAIN lane THEN memory_conductance(lane[bond]) ELSE BASE_CONDUCTANCE

(* The weighted Jaccard overlap of two fields. *)
field_compatibility(left, right) ==
    LET atoms == DOMAIN left \cup DOMAIN right
        lesser(m, n) == IF m < n THEN m ELSE n
        greater(m, n) == IF m < n THEN n ELSE m
        intersection == Total([x \in atoms |-> lesser(Get(left, x, 0), Get(right, x, 0))])
        union == Total([x \in atoms |-> greater(Get(left, x, 0), Get(right, x, 0))])
    IN  IF union = 0 THEN 0 ELSE (intersection * 1000) \div union

(* The traces that know a bond and are close enough to a field. *)
Eligible(field, bond) ==
    {i \in DOMAIN context_traces :
        /\ bond \in DOMAIN context_traces[i].bond_memory
        /\ field_compatibility(field, context_traces[i].field) >= config.relay_guard_per_mille}

(* Rust divides towards zero. *)
Quotient(n, d) == IF n < 0 THEN -((-n) \div d) ELSE n \div d

(* The weight that eligible traces share.  Mutant: each has it all. *)
UnsharedWeight(total) == 1000
SharedWeight(total) == IF total > 1000 THEN total ELSE 1000

guarded_relay_conductance(field, bond) ==
    LET compatibility(i) == field_compatibility(field, context_traces[i].field)
        delta(i) == memory_conductance(context_traces[i].bond_memory[bond]) - BASE_CONDUCTANCE
        eligible == Eligible(field, bond)
        weighted == Total([i \in eligible |-> delta(i) * compatibility(i)])
        total == Total([i \in eligible |-> compatibility(i)])
    IN  Clamp(BASE_CONDUCTANCE + Quotient(weighted, SharedWeight(total)), 250, 2000)

Guarded(contexts) == config.learning_scope = "GuardedRelay" /\ contexts # {}

bond_conductance_with_field(contexts, field, bond) ==
    IF Guarded(contexts)
    THEN guarded_relay_conductance(field, bond)
    ELSE bond_conductance_in(contexts, bond)

-----------------------------------------------------------------------------
(* Learning *)

InitMemory ==
    /\ engine \in Engines
    /\ memories = EmptyMap
    /\ context_traces = EmptyMap
    /\ observations = 0
    /\ unhalved = EmptyMap

update_memory_lane(lane, explored, successful) ==
    [bond \in DOMAIN lane \cup explored |->
        LET memory == Get(lane, bond, NoMemory) IN
        IF bond \notin explored THEN memory
        ELSE [attempts |-> memory.attempts + 1,
              successes |-> memory.successes + (IF bond \in successful THEN 1 ELSE 0)]]

(* The field of a trace becomes the mean of what it has observed. *)
merge_context_field(target, incoming, count) ==
    LET merged(x) == (Get(target, x, 0) * count + Get(incoming, x, 0)) \div (count + 1)
        atoms == {x \in DOMAIN target \cup DOMAIN incoming : merged(x) # 0}
    IN  [x \in atoms |-> merged(x)]

(* The trace to merge with, 0 if none is close enough. *)
Closest(field) ==
    LET compatibility(i) == field_compatibility(field, context_traces[i].field)
        best == {i \in DOMAIN context_traces :
                    \A j \in DOMAIN context_traces : compatibility(j) <= compatibility(i)}
    IN  IF best = {} THEN 0
        ELSE IF compatibility(Min(best)) >= config.context_merge_per_mille THEN Min(best) ELSE 0

Weakest(traces) ==
    CHOOSE i \in DOMAIN traces :
        \A j \in DOMAIN traces :
            \/ traces[i].observations < traces[j].observations
            \/ traces[i].observations = traces[j].observations /\ i <= j

(* Room for one more trace, at the end. *)
Evict(traces) ==
    IF Cardinality(DOMAIN traces) < config.context_trace_capacity THEN traces
    ELSE Restricted(traces, DOMAIN traces \ {Weakest(traces)})
Fresh(traces) == Max(DOMAIN traces \cup {0}) + 1

NoTrace(field) == [field |-> field, bond_memory |-> EmptyMap, observations |-> 0]

Observed(trace, field, explored, successful) ==
    [field |-> merge_context_field(trace.field, field, trace.observations),
     bond_memory |-> update_memory_lane(trace.bond_memory, explored, successful),
     observations |-> trace.observations + 1]

update_guarded_trace(field, explored, successful) ==
    LET closest == Closest(field)
        traces == IF closest # 0 THEN context_traces ELSE Evict(context_traces)
        index == IF closest # 0 THEN closest ELSE Fresh(traces)
        trace == Get(traces, index, NoTrace(field))
    IN  [i \in DOMAIN traces \cup {index} |->
            IF i = index THEN Observed(trace, field, explored, successful) ELSE traces[i]]

(* Half-life.  Mutant: attempts are halved and successes are not. *)
HalveAttempts(memory) ==
    [attempts |-> memory.attempts \div 2, successes |-> memory.successes]
Halve(memory) ==
    [attempts |-> memory.attempts \div 2, successes |-> memory.successes \div 2]

HalveLane(lane) ==
    Without([bond \in DOMAIN lane |-> Halve(lane[bond])], LAMBDA memory : memory # NoMemory)
HalveTrace(trace) ==
    [field |-> trace.field, bond_memory |-> HalveLane(trace.bond_memory),
     observations |-> trace.observations \div 2]

(* What is left of the lanes and of the traces. *)
HalvedLanes(lanes) ==
    Without([key \in DOMAIN lanes |-> HalveLane(lanes[key])], LAMBDA lane : lane # EmptyMap)
HalvedTraces(traces) ==
    Without([i \in DOMAIN traces |-> HalveTrace(traces[i])], LAMBDA trace : trace.bond_memory # EmptyMap)

(* A supervised recall: observe_feedback, and apply_half_life if its turn  *)
(* has come.                                                               *)
observe_feedback(contexts, field, explored, successful) ==
    LET guarded == Guarded(contexts)
        key == learning_key(contexts)
        lane == update_memory_lane(Get(memories, key, EmptyMap), explored, successful)
        lanes == IF guarded THEN memories
                 ELSE [k \in DOMAIN memories \cup {key} |-> IF k = key THEN lane ELSE memories[k]]
        traces == IF guarded THEN update_guarded_trace(field, explored, successful)
                  ELSE context_traces
        half_life == config.observation_half_life # 0 /\ (observations + 1) % config.observation_half_life = 0
    IN  /\ observations' = observations + 1
        /\ memories' = IF half_life THEN HalvedLanes(lanes) ELSE lanes
        /\ context_traces' = IF half_life THEN HalvedTraces(traces) ELSE traces
        /\ unhalved' = lanes
        /\ UNCHANGED engine

(* What one recall may change: nothing, or, if it is supervised, one       *)
(* observation, whose successes are among what it explored.                *)
SupervisedContexts == {request.contexts : request \in {r \in engine.calls : r.target # {}}}
Learn ==
    /\ observations' = observations + 1
    /\ \E contexts \in SupervisedContexts :
          \E field \in {FieldOf(contexts)}, explored \in SUBSET DOMAIN engine.bonds :
              \E successful \in SUBSET explored :
                  observe_feedback(contexts, field, explored, successful)

SpecMemory == InitMemory /\ [][Learn]_memoryVars

-----------------------------------------------------------------------------
(* Properties *)

LaneSound(lane, limit) ==
    \A bond \in DOMAIN lane :
        /\ lane[bond].successes <= lane[bond].attempts
        /\ lane[bond].attempts \in 1..limit

(* Half-life must keep a bond's successes within its attempts and these    *)
(* within the observations of its trace; so a trace with memory never has  *)
(* an observation count of zero, with which the next merge would replace   *)
(* its field.                                                              *)
MemoryIsEarned ==
    /\ \A key \in DOMAIN memories : LaneSound(memories[key], observations)
    /\ \A i \in DOMAIN context_traces :
          /\ LaneSound(context_traces[i].bond_memory, context_traces[i].observations)
          /\ context_traces[i].observations >= 1

(* GUARDED-CONTEXT-RELAY laws 6 to 8 and 10: traces are finite in number,  *)
(* and several that are eligible cannot amplify each other: relayed        *)
(* conductance lies between the neutral prior and the extremes of the      *)
(* eligible traces.                                                        *)
RelayIsBounded ==
    /\ Cardinality(DOMAIN context_traces) <= config.context_trace_capacity
    /\ config.learning_scope = "GuardedRelay" =>
        \A contexts \in AskedContexts \ {{}} :
          \A field \in {FieldOf(contexts)}, bond \in DOMAIN engine.bonds :
            LET known == {memory_conductance(context_traces[i].bond_memory[bond]) :
                              i \in Eligible(field, bond)} \cup {BASE_CONDUCTANCE}
                relayed == bond_conductance_with_field(contexts, field, bond)
            IN  Min(known) <= relayed /\ relayed <= Max(known)

(* COGNITIVE-EXPERIMENT gate 4: successful feedback strengthens.  Unless a *)
(* half-life sets in, the bond of a successful thread never conducts less  *)
(* in its lane afterwards, whatever its history and experience.            *)
Strengthens ==
    unhalved' = memories' =>
        \A key \in DOMAIN memories' : \A bond \in DOMAIN memories'[key] :
            LET before == Get(Get(memories, key, EmptyMap), bond, NoMemory)
                after == memories'[key][bond]
            IN  after.successes = before.successes + 1
                  => memory_conductance(before) <= memory_conductance(after)
SuccessStrengthens == [][Strengthens]_memoryVars
=============================================================================
