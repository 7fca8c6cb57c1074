----------------------------- MODULE MCPacket -----------------------------
(* Instances of a query for TLC: graphs as build_index makes them, two     *)
(* arcs for each bond, and cues at some of the nodes.                      *)
EXTENDS Packet, TLC

Config(frontier, budget, minimum) ==
    [max_depth |-> 4, frontier_capacity |-> frontier, node_budget |-> budget,
     propagation_per_mille |-> 700, minimum_activation |-> minimum]

Roomy == Config(4, 4, 1)
Narrow == Config(2, 3, 1)

(* Bond e joins two nodes; into is the conductance towards the second. *)
ArcsOf(bonds, into) ==
    LET arc(from, to, e, c) == [from |-> from, to |-> to, edge |-> e, conductance |-> c]
    IN  [i \in 1..(2 * Len(bonds)) |->
            LET e == (i + 1) \div 2
                bond == bonds[e]
            IN  IF i % 2 = 1 THEN arc(bond[1], bond[2], e, into[e])
                ELSE arc(bond[2], bond[1], e, 1400)]

BondSeqs(pairs) ==
    {InOrder(S, LAMBDA a, b : a[1] < b[1] \/ (a[1] = b[1] /\ a[2] < b[2])) : S \in SUBSET pairs}

CuesAt(nodes) == {[i \in 1..Len(s) |-> [node |-> s[i], activation |-> 400 + 300 * i]] :
                    s \in UNION {[1..k -> nodes] : k \in 0..2}}

InputsOn(nodes, pairs, conductances, configs) ==
    UNION {{[arcs |-> ArcsOf(bonds, into), cues |-> c, config |-> g] :
                into \in [1..Len(bonds) -> conductances], c \in CuesAt(nodes), g \in configs} :
           bonds \in BondSeqs(pairs)}

Pairs(n) == {<<a, b>> \in (1..n) \X (1..n) : a < b}

(* All bonds lead into passages, and once into passages that were          *)
(* reinforced.                                                             *)
PlainGraphs == InputsOn(1..4, Pairs(4), {1400}, {Roomy, Narrow})
StrongGraphs == InputsOn(1..4, Pairs(4), {4000}, {Roomy, Narrow})
(* A node may be bound to itself; some bonds carry next to nothing, some   *)
(* more than they are given.                                               *)
SmallGraphs == InputsOn(1..3, Pairs(3) \cup {<<2, 2>>}, {1, 1400, 4000}, {Roomy})

(* These graphs as what a query gets from an index: two terms, passages    *)
(* from the third node on.                                                 *)
Limits(evidence_kept, bytes) ==
    [max_evidence |-> evidence_kept, max_context_bytes |-> bytes,
     minimum_cue_support |-> 2, information_gain |-> TRUE]
Texts == [n \in 1..6 |-> IF n = 4 THEN <<2, 3>> ELSE <<1, 4, 1>>]
AsQuery(in) ==
    LET terms == [i \in 1..Len(in.cues) |-> <<"t", i>>]
    IN  in @@ [terms |-> terms, known_terms |-> terms, retrieval |-> Limits(2, 7),
               index |-> [passage_ids |-> {3, 4}, texts |-> Texts,
                          node_index |-> [t \in ToSet(terms) |-> in.cues[t[2]].node]]]
GraphQueries == {AsQuery(in) : in \in PlainGraphs \cup StrongGraphs \cup SmallGraphs}

(* Knowledge: terms 1 to 3, passages 4 and 5 with any mentions, and their  *)
(* source 6; passage 5 was weakened or strengthened.  Queries with a term  *)
(* that is not in it, room for one evidence or both, and for few bytes.    *)
Mentions == {<<t, passage>> : t \in 1..3, passage \in 4..5}
Gain == (<<1, 1>> :> 2000) @@ (<<2, 1>> :> 2584) @@ (<<2, 2>> :> 2000)
Knowledge(mentions, boost) ==
    LET bonds == InOrder(mentions, LAMBDA a, b : a[1] < b[1] \/ (a[1] = b[1] /\ a[2] < b[2]))
                    \o <<<<4, 6>>, <<5, 6>>>>
        into(i) == (IF i > Cardinality(mentions) THEN 600 ELSE 1400)
                        + (IF bonds[i][2] = 5 THEN boost ELSE 0)
        passages == {mention[2] : mention \in mentions}
    IN  [edges |-> ArcsOf(bonds, [i \in 1..Len(bonds) |-> into(i)]),
         node_index |-> [t \in {<<"t", mention[1]>> : mention \in mentions} |-> t[2]],
         passage_ids |-> passages, texts |-> Texts, gain |-> Gain,
         term_passages |-> [t \in {mention[1] : mention \in mentions} |->
                               Cardinality({m \in mentions : m[1] = t})]]
QueryTerms == {<<<<"t", 1>>>>, <<<<"t", 0>>>>, <<<<"t", 0>>, <<"t", 2>>, <<"t", 3>>>>,
               <<<<"t", 3>>, <<"t", 1>>, <<"t", 2>>>>}
KnowledgeQueries ==
    {Query(Knowledge(mentions, boost), terms, limits @@ [field |-> field]) :
        mentions \in SUBSET Mentions, boost \in {-1000, 750}, terms \in QueryTerms,
        <<limits, field>> \in
            {<<Limits(1, 100), Config(6, 6, 1)>>, <<Limits(2, 9), Config(6, 6, 1)>>,
             <<Limits(2, 1), Config(3, 4, 1)>>}}

AllQueries == GraphQueries \cup KnowledgeQueries
=============================================================================
