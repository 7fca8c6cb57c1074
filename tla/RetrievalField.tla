--------------------------- MODULE RetrievalField ---------------------------
(***************************************************************************)
(* activate: cues disturb a graph, signals spread along its arcs round by  *)
(* round, each cue in a lane of its own, within a depth, a frontier and a  *)
(* node budget.  A state is the loop's between two expansions; the input   *)
(* is chosen at the start, and the rest is determined.                     *)
(*                                                                         *)
(* Activations stay far below 2^64, where the code saturates.              *)
(***************************************************************************)
EXTENDS Integers, Sequences, FiniteSets, FiniteSetsExt, SequencesExt

CONSTANT
    Inputs  \* [arcs, cues, config]: sequences of [from, to, edge, conductance]
            \* and of [node, activation], and a FieldConfig

PER_MILLE == 1000
FRONTIER_LIMIT == 65536
BUDGET_LIMIT == 10000000
CONDUCTANCE_LIMIT == 4000

(* FieldConfig::validate, and what activate refuses. *)
validate(c) ==
    /\ c.max_depth \in 1..32
    /\ c.frontier_capacity \in 1..FRONTIER_LIMIT
    /\ c.node_budget \in c.frontier_capacity..BUDGET_LIMIT
    /\ c.propagation_per_mille \in 1..PER_MILLE
    /\ c.minimum_activation \in Nat
Arcs == [from : Nat, to : Nat, edge : Nat, conductance : 1..CONDUCTANCE_LIMIT]
Cues == [node : Nat, activation : Nat]
ASSUME InputAssumption ==
    \A in \in Inputs :
        /\ validate(in.config)
        /\ in.arcs \in Seq(Arcs)
        /\ in.cues \in Seq(Cues)
        /\ Len(in.cues) <= in.config.node_budget

VARIABLES
    input,
    states,           \* node -> what has reached it: [depth, incoming_signals, signals]
    active,           \* the frontier of this round that is still to be expanded
    spent,            \* (node, cue) -> the activation it was expanded with
    candidates,       \* node -> what this round sends to it: [incoming_signals, signals]
    depth,            \* the round
    budget_exhausted, stabilized,
    done

vars == <<input, states, active, spent, candidates, depth, budget_exhausted, stabilized, done>>

arcs == input.arcs
cues == input.cues
config == input.config

NoPredecessor == <<>>
NoSignal == [activation |-> 0, strongest_signal |-> 0, predecessor |-> NoPredecessor]

EmptyMap == [x \in {} |-> 0]
SetOf(map, key, value) == [k \in DOMAIN map \cup {key} |-> IF k = key THEN value ELSE map[k]]

(* The members of a set as a sequence, in a strict order. *)
InOrder(S, before(_, _)) ==
    [k \in 1..Cardinality(S) |-> CHOOSE x \in S : Cardinality({y \in S : before(y, x)}) = k - 1]

(* expanded_signals *)
expanded == DOMAIN spent

-----------------------------------------------------------------------------
(* The graph *)

(* The outgoing arcs of a node by (edge, to), the first of equal ones. *)
adjacency(from) ==
    LET mine == {i \in 1..Len(arcs) : arcs[i].from = from}
        same(i, j) == arcs[i].edge = arcs[j].edge /\ arcs[i].to = arcs[j].to
        kept == {i \in mine : \A j \in mine : same(i, j) => i <= j}
        before(i, j) == \/ arcs[i].edge < arcs[j].edge
                        \/ arcs[i].edge = arcs[j].edge /\ arcs[i].to < arcs[j].to
        order == InOrder(kept, before)
    IN  [i \in 1..Len(order) |-> arcs[order[i]]]

(* activation * gain / PER_MILLE / PER_MILLE / degree; the product itself  *)
(* would not fit into TLC's integers.                                      *)
transmitted(activation, arc, degree) ==
    LET gain == config.propagation_per_mille * arc.conductance
        carried == activation * (gain \div PER_MILLE)
                     + (activation * (gain % PER_MILLE)) \div PER_MILLE
    IN  (carried \div PER_MILLE) \div degree

total_activation(signals) ==
    MapThenSumSet(LAMBDA cue : signals[cue].activation, DOMAIN signals)

(* Nodes by number of cues, activation and identity. *)
ranked(map) ==
    LET lanes(n) == Cardinality(DOMAIN map[n].signals)
        total(n) == total_activation(map[n].signals)
        before(m, n) == \/ lanes(m) > lanes(n)
                        \/ lanes(m) = lanes(n) /\ total(m) > total(n)
                        \/ lanes(m) = lanes(n) /\ total(m) = total(n) /\ m < n
    IN  InOrder(DOMAIN map, before)

(* A signal joins another of its lane; the strongest names the predecessor. *)
absorb(signal, activation, strongest, predecessor) ==
    LET stronger == strongest > signal.strongest_signal
    IN  [activation |-> signal.activation + activation,
         strongest_signal |-> IF stronger THEN strongest ELSE signal.strongest_signal,
         predecessor |-> IF stronger THEN predecessor ELSE signal.predecessor]

LaneOf(signals, cue) == IF cue \in DOMAIN signals THEN signals[cue] ELSE NoSignal

-----------------------------------------------------------------------------
Truncated(nodes) == SubSeq(nodes, 1, IF Len(nodes) < config.frontier_capacity
                                     THEN Len(nodes) ELSE config.frontier_capacity)

Init ==
    /\ input \in Inputs
    /\ LET live == {i \in 1..Len(cues) : cues[i].activation # 0}
           lanes(n) == {i \in live : cues[i].node = n}
       IN  states = [n \in {cues[i].node : i \in live} |->
                        [depth |-> 0, incoming_signals |-> 1,
                         signals |-> [i \in lanes(n) |->
                            [activation |-> cues[i].activation,
                             strongest_signal |-> cues[i].activation,
                             predecessor |-> NoPredecessor]]]]
    /\ active = Truncated(ranked(states))
    /\ spent = EmptyMap /\ candidates = EmptyMap
    /\ depth = 1
    /\ budget_exhausted = FALSE
    /\ done = (active = <<>>) /\ stabilized = done

(* The lanes of a node that have not been expanded.  Mutant: all of them. *)
AllLanes(n) == DOMAIN states[n].signals
Pending(n) == {cue \in DOMAIN states[n].signals : <<n, cue>> \notin expanded}

(* Lanes do not return to a node they were expanded at.  Mutant: they may. *)
Anywhere(node, cue, now) == TRUE
Open(node, cue, now) == <<node, cue>> \notin now

(* What one arc brings to the candidates. *)
Arrive(found, arc, arrivals) ==
    LET prior == IF arc.to \in DOMAIN found THEN found[arc.to]
                 ELSE [incoming_signals |-> 0, signals |-> EmptyMap]
        signal(cue) ==
            IF cue \notin DOMAIN arrivals THEN prior.signals[cue]
            ELSE absorb(LaneOf(prior.signals, cue), arrivals[cue], arrivals[cue],
                        <<arc.from, arc.edge>>)
    IN  IF DOMAIN arrivals = {} THEN found
        ELSE SetOf(found, arc.to,
                   [incoming_signals |-> prior.incoming_signals + 1,
                    signals |-> [cue \in DOMAIN prior.signals \cup DOMAIN arrivals |-> signal(cue)]])

(* One turn of the loop over the frontier. *)
ExpandNode ==
    /\ ~done /\ active # <<>>
    /\ LET from == Head(active)
           pending == Pending(from)
           now == expanded \cup {<<from, cue>> : cue \in pending}
           outgoing == adjacency(from)
           sent(cue, arc) ==
               transmitted(states[from].signals[cue].activation, arc, Len(outgoing))
           arrivals(arc) ==
               [cue \in {c \in pending : /\ Open(arc.to, c, now)
                                         /\ sent(c, arc) >= config.minimum_activation}
                    |-> sent(cue, arc)]
       IN  /\ spent' = [x \in now |-> IF x[1] = from /\ x[2] \in pending
                                     THEN states[from].signals[x[2]].activation ELSE spent[x]]
           /\ candidates' = FoldLeft(LAMBDA found, arc : Arrive(found, arc, arrivals(arc)),
                                     candidates, outgoing)
    /\ active' = Tail(active)
    /\ UNCHANGED <<input, states, depth, budget_exhausted, stabilized, done>>

(* The candidates that enter the next frontier, strongest first, while the *)
(* frontier and the node budget last.  Mutants: a full node budget goes    *)
(* unreported; only the frontier is limited.                               *)
Choose(within(_)) ==
    LET step(acc, node) ==
            IF acc.full THEN acc
            ELSE IF Len(acc.next) = config.frontier_capacity
                 THEN [acc EXCEPT !.full = TRUE, !.exhausted = TRUE]
            ELSE IF node \in DOMAIN states
                 THEN [acc EXCEPT !.next = Append(@, node)]
            ELSE IF ~within(acc.known)
                 THEN [acc EXCEPT !.exhausted = TRUE]
            ELSE [acc EXCEPT !.next = Append(@, node), !.known = @ + 1]
    IN  FoldLeft(step, [next |-> <<>>, known |-> Cardinality(DOMAIN states),
                        full |-> FALSE, exhausted |-> FALSE],
                 ranked(candidates))
NextUnreported ==
    [Choose(LAMBDA known : known < config.node_budget) EXCEPT !.exhausted = FALSE]
NextUnbounded == Choose(LAMBDA known : TRUE)
NextFrontier == Choose(LAMBDA known : known < config.node_budget)

Merged(node) ==
    LET candidate == candidates[node]
        state == states[node]
    IN  IF node \notin DOMAIN states
        THEN [depth |-> depth, incoming_signals |-> candidate.incoming_signals,
              signals |-> candidate.signals]
        ELSE [depth |-> IF state.depth < depth THEN state.depth ELSE depth,
              incoming_signals |-> state.incoming_signals + candidate.incoming_signals,
              signals |->
                [cue \in DOMAIN state.signals \cup DOMAIN candidate.signals |->
                    IF cue \notin DOMAIN candidate.signals THEN state.signals[cue]
                    ELSE LET in == candidate.signals[cue]
                         IN  absorb(LaneOf(state.signals, cue), in.activation,
                                    in.strongest_signal, in.predecessor)]]

(* The end of a round. *)
EndRound ==
    /\ ~done /\ active = <<>>
    /\ LET frontier == NextFrontier
           next == ToSet(frontier.next)
           last == depth = config.max_depth
       IN  /\ states' = [n \in DOMAIN states \cup next |->
                            IF n \in next THEN Merged(n) ELSE states[n]]
           /\ active' = frontier.next
           /\ stabilized' = (next = {})
           /\ budget_exhausted' = (budget_exhausted \/ frontier.exhausted
                                   \/ (last /\ next # {}))
           /\ done' = (last \/ next = {})
           /\ depth' = IF last \/ next = {} THEN depth ELSE depth + 1
    /\ candidates' = EmptyMap
    /\ UNCHANGED <<input, spent>>

Next == ExpandNode \/ EndRound

Spec == Init /\ [][Next]_vars

-----------------------------------------------------------------------------
NoNode == -1

(* The node k predecessors before a node in a lane, or NoNode where there  *)
(* is none: the loop of reconstruct_thread.                                *)
Back(node, cue) ==
    LET back[k \in 0..Cardinality(DOMAIN states)] ==
            IF k = 0 THEN node
            ELSE LET n == back[k - 1] IN
                 IF n = cues[cue].node THEN n
                 ELSE IF n \notin DOMAIN states THEN NoNode
                 ELSE LET predecessor == LaneOf(states[n].signals, cue).predecessor
                      IN  IF predecessor = NoPredecessor THEN NoNode ELSE predecessor[1]
    IN  back

(* reconstruct_thread finds a thread. *)
reconstruct_thread(node, cue) ==
    Back(node, cue)[Cardinality(DOMAIN states)] = cues[cue].node

(* RETRIEVAL-FIELD law 4: each reported supporting cue has a               *)
(* reconstructible path to the evidence, made of arcs of the graph.  A     *)
(* merge at the end of a round may replace the predecessor of a node that  *)
(* was expanded in it, so that threads could run in a circle.              *)
ThreadsReconstruct ==
    \A n \in DOMAIN states : \A cue \in DOMAIN states[n].signals :
        /\ reconstruct_thread(n, cue)
        /\ LET predecessor == states[n].signals[cue].predecessor IN
           predecessor # NoPredecessor =>
               \E i \in 1..Len(arcs) : /\ arcs[i].from = predecessor[1] /\ arcs[i].to = n
                                       /\ arcs[i].edge = predecessor[2]

(* RETRIEVAL-FIELD law 7: budget exhaustion is observable.  A field that   *)
(* does not report it is complete: a signal is wherever an arc carries     *)
(* enough of it.                                                           *)
ExhaustionObservable ==
    done /\ ~budget_exhausted =>
        \A n \in DOMAIN states : \A cue \in DOMAIN states[n].signals :
            LET outgoing == adjacency(n)
                activation == IF <<n, cue>> \in expanded THEN spent[<<n, cue>>]
                              ELSE states[n].signals[cue].activation
            IN  \A i \in 1..Len(outgoing) :
                    transmitted(activation, outgoing[i], Len(outgoing))
                         >= config.minimum_activation
                      => /\ outgoing[i].to \in DOMAIN states
                         /\ cue \in DOMAIN states[outgoing[i].to].signals

(* RETRIEVAL-FIELD: each (node, cue) pair propagates at most once, so that *)
(* no cycle amplifies it, though later rounds go on adding to its signal.  *)
PropagatesOnce ==
    [][\A x \in DOMAIN spent : x \in DOMAIN spent' /\ spent'[x] = spent[x]]_vars

(* RETRIEVAL-FIELD: a finite field, of bounded frontier and node budget.   *)
(* The counter of known nodes is kept apart from the states it counts.     *)
FieldIsBounded ==
    /\ Len(active) <= config.frontier_capacity
    /\ Cardinality(DOMAIN states) <= config.node_budget
=============================================================================
