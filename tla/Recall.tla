------------------------------- MODULE Recall -------------------------------
(***************************************************************************)
(* CognitiveEngine::recall: activation spreads from a cue and its contexts *)
(* over the bonds of a store, in rounds, each from a bounded frontier; the *)
(* thread to the target, if there is one, is what the engine learns from.  *)
(* A step follows one arc, or ends a turn, a round, or the recall.         *)
(***************************************************************************)
EXTENDS CognitiveMemory, Sequences, SequencesExt

VARIABLES
    stage,      \* "idle", "spread" in the loop over depths, "over" after it
    request,    \* [cue, contexts, target]: the arguments; target has at most one atom
    field,      \* the context field
    traces,     \* atom -> [activation, depth, incoming, predecessor]
    depth,
    active,     \* the frontier of this round: atom -> activation
    waiting,    \* atoms of the frontier whose turn has not come
    turn,       \* the atom whose arcs are followed
    arcs,       \* its arcs still to follow
    expanded,   \* atoms in the order of their first turn
    explored,   \* bonds
    candidates  \* atom -> [activation, incoming, strongest, predecessor]

spreadVars == <<stage, request, field, traces, depth, active, waiting, turn, arcs,
                expanded, explored, candidates>>
vars == <<memoryVars, spreadVars>>

NoRequest == [cue |-> 0, contexts |-> {}, target |-> {}]

InitRecall ==
    /\ InitMemory
    /\ stage = "idle"
    /\ request = NoRequest
    /\ field = EmptyMap /\ traces = EmptyMap /\ active = EmptyMap /\ candidates = EmptyMap
    /\ depth = 0
    /\ turn = 0
    /\ waiting = {} /\ arcs = {} /\ explored = {}
    /\ expanded = <<>>

-----------------------------------------------------------------------------
(* The on-ramps *)

(* The atoms a recall names must be stored: here, those of the bonds. *)
Known(r) == {r.cue} \cup r.contexts \cup r.target \subseteq Atoms(engine.bonds)

RecallRefused == stage = "idle" /\ (\E r \in engine.calls : ~Known(r)) /\ UNCHANGED vars

(* A context that is the cue as well gets both activations. *)
Seed(r, x) ==
    [activation |-> (IF x = r.cue THEN config.cue_activation ELSE 0)
                        + (IF x \in r.contexts THEN config.context_activation ELSE 0),
     depth |-> 0,
     incoming |-> Cardinality({y \in {r.cue} : y = x}) + Cardinality({y \in r.contexts : y = x}),
     predecessor |-> {}]

Activations(map) == [x \in DOMAIN map |-> map[x].activation]
Frontier(map) == Restricted(map, Strongest(map, config.working_memory_capacity))

recall(r) ==
    LET seeds == [x \in {r.cue} \cup r.contexts |-> Seed(r, x)]
    IN  /\ stage = "idle"
        /\ r.target # {} => observations < engine.observations
        /\ Known(r)
        /\ stage' = "spread"
        /\ request' = r
        /\ field' = FieldOf(r.contexts)
        /\ traces' = seeds
        /\ depth' = 1
        /\ active' = Frontier(Activations(seeds))
        /\ waiting' = DOMAIN active'
        /\ UNCHANGED <<memoryVars, turn, arcs, expanded, explored, candidates>>

-----------------------------------------------------------------------------
(* A round *)

(* expanded.insert, on a set that remembers the order.                     *)
Inserted(s, x) == IF x \in Range(s) THEN s ELSE Append(s, x)

(* The turn of the strongest atom of the frontier that still waits. *)
TakeTurn(x) ==
    /\ stage = "spread"
    /\ arcs = {}
    /\ x \in waiting
    /\ \A y \in waiting \ {x} : Ahead(active, x, y)
    /\ turn' = x
    /\ arcs' = Arcs(engine.bonds, x)
    /\ waiting' = waiting \ {x}
    /\ expanded' = Inserted(expanded, x)
    /\ UNCHANGED <<memoryVars, stage, request, field, traces, depth, active, explored, candidates>>

Before(arc, other) == arc.bond < other.bond \/ (arc.bond = other.bond /\ arc.to < other.to)

(* Activation is divided by the degree.  Mutant: it is copied. *)
ShareCopied(activation, atom) == activation
Share(activation, atom) == activation \div Degree(engine.bonds, atom)

transmitted(bond) ==
    Share((active[turn] * config.propagation_per_mille
            * bond_conductance_with_field(request.contexts, field, bond)) \div 1000000, turn)

(* Atoms that had a turn receive nothing.  Mutants: they do; only the one  *)
(* whose turn it is does not.                                              *)
OpenAlways(x) == TRUE
OpenToOthers(x) == x # turn
Open(x) == x \notin Range(expanded)

NoCandidate == [activation |-> 0, incoming |-> 0, strongest |-> 0, predecessor |-> {}]

(* A signal adds up; the strongest one tells where the atom was reached from. *)
Signalled(candidate, signal, bond) ==
    [activation |-> candidate.activation + signal,
     incoming |-> candidate.incoming + 1,
     strongest |-> IF signal > candidate.strongest THEN signal ELSE candidate.strongest,
     predecessor |-> IF signal > candidate.strongest THEN {[from |-> turn, bond |-> bond]}
                     ELSE candidate.predecessor]

FollowArc(arc) ==
    LET signal == transmitted(arc.bond)
        candidate == Get(candidates, arc.to, NoCandidate)
    IN  /\ stage = "spread"
        /\ arc \in arcs
        /\ \A other \in arcs \ {arc} : Before(arc, other)
        /\ arcs' = arcs \ {arc}
        /\ explored' = explored \cup {arc.bond}
        /\ candidates' =
              IF Open(arc.to) /\ signal > 0
              THEN [x \in DOMAIN candidates \cup {arc.to} |->
                      IF x = arc.to THEN Signalled(candidate, signal, arc.bond) ELSE candidates[x]]
              ELSE candidates
        /\ UNCHANGED <<memoryVars, stage, request, field, traces, depth, active, waiting, turn,
                       expanded>>

(* The strongest candidates are the next frontier.  An atom keeps the trace *)
(* that has the higher activation.                                         *)
Trace(candidate) ==
    [activation |-> candidate.activation, depth |-> depth,
     incoming |-> candidate.incoming, predecessor |-> candidate.predecessor]
Stronger(x) == x \notin DOMAIN traces \/ candidates[x].activation > traces[x].activation

(* What the next round starts with.  Mutant: it forgets what was explored. *)
ExploredOfRound(bonds) == {}
ExploredSoFar(bonds) == bonds

EndRound ==
    LET next == Strongest(Activations(candidates), config.working_memory_capacity)
    IN  /\ stage = "spread"
        /\ waiting = {} /\ arcs = {}
        /\ traces' = [x \in DOMAIN traces \cup next |->
                        IF x \in next /\ Stronger(x) THEN Trace(candidates[x]) ELSE traces[x]]
        /\ active' = Restricted(Activations(candidates), next)
        /\ waiting' = next
        /\ candidates' = EmptyMap
        /\ explored' = ExploredSoFar(explored)
        /\ depth' = depth + 1
        /\ stage' = IF next = {} \/ depth = config.max_depth THEN "over" ELSE "spread"
        /\ UNCHANGED <<memoryVars, request, field, turn, arcs, expanded>>

-----------------------------------------------------------------------------
(* The thread, and what is learnt from it                                  *)

Found == request.target \subseteq DOMAIN traces

(* Atoms from the target back, with the bonds between them, as many steps  *)
(* as there are traces at most: with more, the code has met an atom twice. *)
ThreadBack(target) ==
    LET step(thread) ==
            LET at == Last(thread.atoms)
            IN  IF at \notin DOMAIN traces \/ traces[at].predecessor = {} THEN thread
                ELSE LET p == CHOOSE p \in traces[at].predecessor : TRUE
                     IN  [atoms |-> Append(thread.atoms, p.from), bonds |-> Append(thread.bonds, p.bond)]
        walk[n \in 0..Cardinality(DOMAIN traces)] ==
            IF n = 0 THEN [atoms |-> <<target>>, bonds |-> <<>>] ELSE step(walk[n - 1])
    IN  walk[Cardinality(DOMAIN traces)]

(* A thread is whole when it ends at an atom that was put in, and meets    *)
(* none twice.                                                             *)
Whole(thread) ==
    /\ IsInjective(thread.atoms)
    /\ Last(thread.atoms) \in DOMAIN traces
    /\ traces[Last(thread.atoms)].predecessor = {}

(* Its bonds; none without a whole thread or with a target not found. *)
reconstruct_thread ==
    IF request.target = {} \/ ~Found THEN {}
    ELSE LET thread == ThreadBack(CHOOSE t \in request.target : TRUE)
         IN  IF Whole(thread) THEN Range(thread.bonds) ELSE {}

(* Only a recall with a target learns.  Mutant: each does. *)
SupervisedAlways == TRUE
Supervised == request.target # {}

(* recall's feedback and its return, after which its locals are gone. *)
Report ==
    /\ stage = "over"
    /\ IF Supervised THEN observe_feedback(request.contexts, field, explored, reconstruct_thread)
       ELSE UNCHANGED memoryVars
    /\ stage' = "idle"
    /\ request' = NoRequest
    /\ field' = EmptyMap /\ traces' = EmptyMap /\ active' = EmptyMap /\ candidates' = EmptyMap
    /\ depth' = 0
    /\ turn' = 0
    /\ waiting' = {} /\ arcs' = {} /\ explored' = {}
    /\ expanded' = <<>>

Next ==
    \/ \E r \in engine.calls : recall(r)
    \/ RecallRefused
    \/ \E x \in waiting : TakeTurn(x)
    \/ \E arc \in arcs : FollowArc(arc)
    \/ EndRound
    \/ Report

Spec == InitRecall /\ [][Next]_vars

-----------------------------------------------------------------------------
(* Properties *)

(* f had its first turn before x had one. *)
Earlier(f, x) ==
    \E i \in 1..Len(expanded) :
        /\ expanded[i] = f
        /\ \A j \in 1..Len(expanded) : expanded[j] = x => i < j

(* p leads back from x: along an explored bond, to an atom that had its    *)
(* turn before x.                                                          *)
Leads(p, x) ==
    /\ p.from \in DOMAIN traces
    /\ Earlier(p.from, x)
    /\ p.bond \in explored
    /\ [bond |-> p.bond, to |-> x] \in Arcs(engine.bonds, p.from)

(* A later, stronger signal replaces an atom's trace (cognitive.rs:387),   *)
(* also when others were reached through it.  Still a trace leads to an    *)
(* atom that had its turn before, so no replacement can close a circle,    *)
(* which reconstruct_thread would answer with no thread at all.            *)
PredecessorsTurnFirst ==
    \A x \in DOMAIN traces : \A p \in traces[x].predecessor : Leads(p, x)

(* COGNITIVE-EXPERIMENT's hypothesis, every result is explainable as a     *)
(* traversed thread: a target that is found has one, whole, from the cue   *)
(* or a context, and with bonds to reward unless it was put in itself.     *)
FoundHasThread ==
    stage = "over" /\ Found =>
        \A target \in request.target :
            LET thread == ThreadBack(target)
                seeds == {request.cue} \cup request.contexts
            IN  /\ Whole(thread)
                /\ Last(thread.atoms) \in seeds
                /\ target \notin seeds => thread.bonds # <<>>

(* COGNITIVE-EXPERIMENT laws 4 and 5, gates 3 and 8: the frontier is       *)
(* bounded, and however many arcs its atoms have, a round cannot put more  *)
(* into its candidates than the frontier holds, times the propagation at   *)
(* the greatest conductance.                                               *)
FanOutDissipates ==
    LET spent == {x \in DOMAIN active : x \notin waiting}
        received == Total(Activations(candidates))
        given == Total(Restricted(active, spent))
    IN  /\ Cardinality(DOMAIN active) <= config.working_memory_capacity
        /\ received * 1000 <= given * config.propagation_per_mille * 2

(* GUARDED-CONTEXT-RELAY laws 1 and 4: the field of a recall is bounded,   *)
(* and the hubs around its contexts do not push these out of it while they *)
(* fit.                                                                    *)
ContextFieldSound ==
    stage # "idle" =>
        /\ Cardinality(DOMAIN field) <= config.context_field_capacity
        /\ \A x \in DOMAIN field : field[x] \in 1..1000
        /\ Cardinality(request.contexts) <= config.context_field_capacity =>
              \A x \in request.contexts : x \in DOMAIN field /\ field[x] = 1000

(* COGNITIVE-EXPERIMENT laws 7 and 8: a supervised recall rewards exactly  *)
(* the bonds of the thread to its target, each once, whatever round they   *)
(* were explored in, and no bond that is not on it.                        *)
Rewards ==
    stage = "over" /\ request.target # {} /\ ~(Guarded(request.contexts)) =>
        LET key == learning_key(request.contexts)
            rewarded == UNION {Range(ThreadBack(t).bonds) : t \in request.target \cap DOMAIN traces}
            successes(lanes, bond) == Get(Get(lanes, key, EmptyMap), bond, NoMemory).successes
        IN  \A bond \in DOMAIN engine.bonds :
                successes(unhalved', bond) =
                    successes(memories, bond) + (IF bond \in rewarded THEN 1 ELSE 0)
ThreadRewarded == [][Rewards]_vars

(* What a recall does to the memory is one observation that rewards a part *)
(* of what it explored in its contexts, or nothing.                        *)
ImplementsLearning == SpecMemory

(* GUARDED-CONTEXT-RELAY gate 5, "field or trace capacity is exceeded":    *)
(* the field of a context trace stays within the capacity of a field.  It  *)
(* does not: merging takes the union.                                      *)
TraceFieldsBounded ==
    \A i \in DOMAIN context_traces :
        Cardinality(DOMAIN context_traces[i].field) <= config.context_field_capacity
=============================================================================
