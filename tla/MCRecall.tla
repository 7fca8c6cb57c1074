------------------------------ MODULE MCRecall ------------------------------
(* Instances of the cognitive engine for TLC. *)
EXTENDS Recall, TLC

(* The defaults of CognitiveConfig but for the cue, which is a thousandth. *)
Default ==
    [working_memory_capacity |-> 12, max_depth |-> 5,
     cue_activation |-> 1000, context_activation |-> 350, propagation_per_mille |-> 700,
     learning_scope |-> "Contextual", observation_half_life |-> 32,
     context_field_depth |-> 2, context_field_capacity |-> 64,
     context_field_propagation_per_mille |-> 600, relay_guard_per_mille |-> 50,
     context_merge_per_mille |-> 800, context_trace_capacity |-> 32]

Ask(cue, contexts, target) == [cue |-> cue, contexts |-> contexts, target |-> target]

(* Graphs between five atoms: of two bonds in each order, of three, of     *)
(* four with a chain among them, and some whose bonds name an atom twice.  *)
(* Recalls from one atom, with a context, with several, and unsupervised;  *)
(* a frontier with room for all, and for two.                              *)
Triples == {t \in (1..5) \X (1..5) \X (1..5) : t[1] < t[2] /\ t[2] < t[3]}
Twice == {<<1, 1, 2>>, <<2, 3, 2>>, <<3, 4, 4>>, <<4, 5, 5>>, <<5, 5, 1>>}
Graphs ==
    {<<s, t>> : s \in Triples, t \in Triples}
        \cup {SetToSeq(ts) : ts \in kSubset(3, Triples) \cup kSubset(4, Twice \cup {<<1, 2, 5>>})}
        \cup {Append(SetToSeq(ts), <<4, 5, 5>>) : ts \in kSubset(3, Triples)}

Explorer(bonds, c) ==
    [config |-> c, bonds |-> bonds, observations |-> 1,
     calls |-> {Ask(1, {}, {5}), Ask(1, {2}, {5}), Ask(1, {1, 3}, {})}]
Explorers ==
    {Explorer(bonds, Default) : bonds \in Graphs}
        \cup {Explorer(bonds, [Default EXCEPT !.working_memory_capacity = 2]) : bonds \in Graphs}

(* Related contexts, two of which merge, one that is relayed to these, and *)
(* one that is close to none; traces that are evicted and halved, fields   *)
(* that are cut.                                                           *)
Meaning == <<<<1, 2, 7>>, <<1, 3, 7>>, <<2, 4, 5>>, <<3, 6, 6>>>>
Relay(half_life, traces_kept, field_kept) ==
    [config |-> [Default EXCEPT !.working_memory_capacity = 2, !.max_depth = 2,
                     !.learning_scope = "GuardedRelay", !.observation_half_life = half_life,
                     !.context_merge_per_mille = 300, !.context_trace_capacity = traces_kept,
                     !.context_field_capacity = field_kept],
     bonds |-> Meaning, observations |-> 4,
     calls |-> {Ask(1, {4}, {2}), Ask(1, {5}, {2}), Ask(1, {5}, {3}), Ask(1, {6}, {3}),
                Ask(1, {4, 6}, {2}), Ask(1, {}, {2}), Ask(2, {4}, {})}]

(* A lane without half-life, for long; one shared by all contexts, with it. *)
Patient ==
    [config |-> [Default EXCEPT !.max_depth = 1, !.observation_half_life = 0],
     bonds |-> <<<<1, 2, 3>>, <<4, 5, 6>>>>, observations |-> 110,
     calls |-> {Ask(1, {}, {3}), Ask(1, {}, {5}), Ask(1, {9}, {5})}]
Forgetful ==
    [config |-> [Default EXCEPT !.max_depth = 2, !.observation_half_life = 5,
                     !.learning_scope = "Global"],
     bonds |-> <<<<1, 2, 3>>, <<3, 4, 4>>>>, observations |-> 12,
     calls |-> {Ask(1, {}, {3}), Ask(1, {2}, {4}), Ask(4, {}, {2}), Ask(1, {}, {})}]

(* Bonds so rewarded that activation grows from atom to atom. *)
Amplifying ==
    [config |-> [Default EXCEPT !.max_depth = 3, !.observation_half_life = 0,
                     !.propagation_per_mille = 1000],
     bonds |-> <<<<1, 1, 2>>, <<3, 4, 5>>>>, observations |-> 14,
     calls |-> {Ask(1, {}, {2}), Ask(1, {}, {3}), Ask(1, {}, {})}]

Crowded == {Relay(3, 2, 3)}
AllEngines == Explorers \cup {Relay(3, 2, 64), Relay(2, 1, 3), Patient, Forgetful, Amplifying}
=============================================================================
