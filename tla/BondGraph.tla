----------------------------- MODULE BondGraph -----------------------------
(***************************************************************************)
(* The graph that the cognitive engine reads off the bonds of a store, and *)
(* the context fields it derives from it: pure definitions.  An atom is a  *)
(* number, its place in the order of digests; a bond is a number with the  *)
(* three atoms it joins.                                                   *)
(***************************************************************************)
EXTENDS Integers, FiniteSets, FiniteSetsExt

PER_MILLE == 1000
EmptyMap == [x \in {} |-> 0]
Get(map, key, default) == IF key \in DOMAIN map THEN map[key] ELSE default
Restricted(map, keys) == [key \in keys |-> map[key]]
Total(map) == LET amount(key) == map[key] IN MapThenSumSet(amount, DOMAIN map)

(* The same map; the comparison makes TLC evaluate it once, as a table. *)
Tabulated(map) == IF map = EmptyMap THEN EmptyMap ELSE map

-----------------------------------------------------------------------------
(* Adjacency: build_graph makes an arc of every two members of a bond.     *)

Atoms(bonds) == {bonds[b][i] : b \in DOMAIN bonds, i \in 1..3}

Arcs(bonds, from) ==
    LET met(b) == {j \in 1..3 : \E i \in (1..3) \ {j} : bonds[b][i] = from}
    IN  UNION {{[bond |-> b, to |-> bonds[b][j]] : j \in met(b)} : b \in DOMAIN bonds}

Degree(bonds, atom) == IF Arcs(bonds, atom) = {} THEN 1 ELSE Cardinality(Arcs(bonds, atom))

(* The strongest members of a map, the lower identity first among equals. *)
Ahead(map, x, y) == map[x] > map[y] \/ (map[x] = map[y] /\ x < y)
Strongest(map, capacity) ==
    {x \in DOMAIN map : Cardinality({y \in DOMAIN map : Ahead(map, y, x)}) < capacity}

-----------------------------------------------------------------------------
(* Context fields *)

(* What an atom passes to a neighbour. *)
FieldSignal(c, bonds, weight, from, to) ==
    LET target_penalty == (Degree(bonds, to) + 1) \div 2
    IN  ((weight * c.context_field_propagation_per_mille) \div PER_MILLE)
            \div (Degree(bonds, from) * target_penalty)

(* A hop: only atoms whose weight has grown are carried to the next one. *)
FieldHop(c, bonds, s) ==
    LET signals == UNION {{[to |-> arc.to, weight |-> FieldSignal(c, bonds, s.active[from], from, arc.to)] :
                              arc \in Arcs(bonds, from)} : from \in DOMAIN s.active}
        reached == {signal.to : signal \in {m \in signals : m.weight > 0}}
        candidates == Tabulated([x \in reached |-> Max({m.weight : m \in {n \in signals : n.to = x}})])
        grown == {x \in Strongest(candidates, c.context_field_capacity) :
                    candidates[x] > Get(s.field, x, 0)}
        active == Tabulated(Restricted(candidates, grown))
        field == Tabulated([x \in grown \cup DOMAIN s.field |-> Get(active, x, s.field[x])])
    IN  [field |-> field, active |-> active]

(* The field fits its capacity.  Mutant: only each hop does. *)
FieldUnbounded(c, field) == field
FieldBounded(c, field) == Tabulated(Restricted(field, Strongest(field, c.context_field_capacity)))

build_context_field(c, bonds, contexts) ==
    LET start == [x \in contexts |-> PER_MILLE]
        hops[n \in 0..c.context_field_depth] ==
            IF n = 0 THEN [field |-> start, active |-> start]
            ELSE FieldHop(c, bonds, hops[n - 1])
    IN  FieldBounded(c, hops[c.context_field_depth].field)
=============================================================================
