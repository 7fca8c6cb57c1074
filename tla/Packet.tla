-------------------------------- MODULE Packet --------------------------------
(***************************************************************************)
(* Retriever::retrieve on an index that is up to date: the known terms of  *)
(* a query become cues, the field spreads, and its hits are looked at one  *)
(* after the other for the evidence of the packet.                         *)
(*                                                                         *)
(* The atoms of the index are its nodes; a text is the sequence of the     *)
(* widths of its characters.  Sources, which go with the evidence, and the *)
(* measurements of the field are left out.                                 *)
(***************************************************************************)
EXTENDS RetrievalField

VARIABLES
    hit,            \* how many hits have been looked at
    evidence,       \* [passage, bytes, truncated, supporting_cues], in order
    context_bytes,
    answered

packetVars == <<hit, evidence, context_bytes, answered>>
varsP == <<vars, packetVars>>

EVIDENCE_LIMIT == 4096
CONTEXT_LIMIT == 67108864
SUPPORT_LIMIT == 256

(* RetrievalConfig::validate, of what a query needs *)
validate_retrieval(c) ==
    /\ c.max_evidence \in 1..EVIDENCE_LIMIT
    /\ c.max_context_bytes \in 1..CONTEXT_LIMIT
    /\ c.minimum_cue_support \in 1..SUPPORT_LIMIT
    /\ c.information_gain \in BOOLEAN

(* What retrieve takes from the index for its known terms, which are       *)
(* different: terms keeps the first of equal ones.                         *)
ASSUME QueryAssumption ==
    \A in \in Inputs :
        /\ validate_retrieval(in.retrieval)
        /\ Len(in.known_terms) = Len(in.cues)
        /\ \A i \in 1..Len(in.cues) :
              /\ in.known_terms[i] \in DOMAIN in.index.node_index
              /\ in.index.node_index[in.known_terms[i]] = in.cues[i].node
        /\ \A i, j \in 1..Len(in.cues) : in.known_terms[i] = in.known_terms[j] => i = j
        /\ \A passage \in in.index.passage_ids : in.index.texts[passage] \in Seq(1..4)

-----------------------------------------------------------------------------
(* The query *)

(* The rarer a term is among the passages, the stronger its cue: gain is   *)
(* 1000 * (1 + log2(1 + passages / frequency)), rounded down, and BASE a   *)
(* thousandth of the code's.                                               *)
BASE == 1000
cue_activation(c, index, node) ==
    LET total_passages == Cardinality(index.passage_ids)
        df == IF node \in DOMAIN index.term_passages THEN index.term_passages[node] ELSE 0
    IN  IF ~c.information_gain \/ total_passages = 0 \/ df = 0 THEN BASE
        ELSE index.gain[<<total_passages, df>>]

(* What retrieve gives to activate and to packet for a query; index has    *)
(* the fields of DerivedIndex, and the texts of the passages.              *)
Query(index, terms, c) ==
    LET known_terms == SelectSeq(terms, LAMBDA term : term \in DOMAIN index.node_index)
        node(i) == index.node_index[known_terms[i]]
    IN  [arcs |-> index.edges, index |-> index, terms |-> terms, known_terms |-> known_terms,
         cues |-> [i \in 1..Len(known_terms) |->
                      [node |-> node(i), activation |-> cue_activation(c, index, node(i))]],
         config |-> c.field, retrieval |-> c]

-----------------------------------------------------------------------------
(* The packet *)

InitP ==
    /\ Init
    /\ hit = 0
    /\ evidence = <<>>
    /\ context_bytes = 0
    /\ answered = FALSE

Lanes(node) == DOMAIN states[node].signals
Total(node) == total_activation(states[node].signals)

(* Hits by supporting cues, activation, depth and node.  Mutant: the       *)
(* number of cues does not come first.                                     *)
HitBeforeLoud(m, n) == Total(m) > Total(n) \/ (Total(m) = Total(n) /\ m < n)
HitBefore(m, n) ==
    LET more == Cardinality(Lanes(m)) - Cardinality(Lanes(n))
        louder == Total(m) - Total(n)
        shallower == states[n].depth - states[m].depth
    IN  \/ more > 0
        \/ more = 0 /\ louder > 0
        \/ more = 0 /\ louder = 0 /\ shallower > 0
        \/ more = 0 /\ louder = 0 /\ shallower = 0 /\ m < n
Hits == InOrder(DOMAIN states, HitBefore)

(* What a text still may take.  Mutant: as much as each text may.          *)
RemainingOfEach(used) == input.retrieval.max_context_bytes
Remaining(used) ==
    IF used < input.retrieval.max_context_bytes THEN input.retrieval.max_context_bytes - used ELSE 0

Bytes(text) == FoldLeft(LAMBDA sum, width : sum + width, 0, text)

(* As many whole characters of a text as a budget allows. *)
excerpt(text, budget) ==
    Max({n \in {Bytes(SubSeq(text, 1, k)) : k \in 0..Len(text)} : n <= budget})

(* The term of a cue; the cues were made from the known terms.  Mutant:    *)
(* from all of them.                                                       *)
TermOfAll(cue) == input.terms[cue]
TermOf(cue) == input.known_terms[cue]

IsEvidence(node) ==
    node \in input.index.passage_ids /\ Len(evidence) < input.retrieval.max_evidence

LookAtHit ==
    /\ done /\ ~answered
    /\ hit < Len(Hits)
    /\ hit' = hit + 1
    /\ UNCHANGED vars

SkipHit ==
    /\ LookAtHit
    /\ ~IsEvidence(Hits[hit + 1])
    /\ UNCHANGED <<evidence, context_bytes, answered>>

TakeEvidence ==
    /\ LookAtHit
    /\ LET node == Hits[hit + 1]
           text == input.index.texts[node]
           taken == excerpt(text, Remaining(context_bytes))
       IN  /\ IsEvidence(node)
           /\ Remaining(context_bytes) # 0
           /\ context_bytes' = context_bytes + taken
           /\ evidence' = Append(evidence,
                  [passage |-> node, bytes |-> taken, truncated |-> taken < Bytes(text),
                   supporting_cues |-> {TermOf(cue) : cue \in Lanes(node)}])
    /\ UNCHANGED answered

(* The context is full, or there is no further hit: the packet is made.    *)
Answer ==
    /\ done /\ ~answered
    /\ hit < Len(Hits) => IsEvidence(Hits[hit + 1]) /\ Remaining(context_bytes) = 0
    /\ answered' = TRUE
    /\ UNCHANGED <<vars, hit, evidence, context_bytes>>

Required ==
    Max({1, Min({input.retrieval.minimum_cue_support, Len(input.known_terms)})})
answerable ==
    evidence # <<>> /\ Cardinality(evidence[1].supporting_cues) >= Required

(* The packet is with the caller. *)
Returned == answered /\ UNCHANGED varsP

NextP ==
    \/ Next /\ UNCHANGED packetVars
    \/ SkipHit \/ TakeEvidence \/ Answer
    \/ Returned

SpecP == InitP /\ [][NextP]_varsP

-----------------------------------------------------------------------------
(* RETRIEVAL-FIELD law 5: evidence text obeys the declared context-byte    *)
(* budget, wherever in a character it ends; and a text is cut only when    *)
(* what is left of the budget is less than a character.                    *)
ContextBounded ==
    LET bytes == [i \in 1..Len(evidence) |-> evidence[i].bytes]
    IN  /\ Bytes(bytes) = context_bytes
        /\ context_bytes <= input.retrieval.max_context_bytes
        /\ Len(evidence) <= input.retrieval.max_evidence
        /\ \A i \in 1..Len(evidence) :
              evidence[i].truncated => context_bytes + 4 > input.retrieval.max_context_bytes

(* The nodes that paths of bonds join to one. *)
Joined(node) ==
    LET beyond(nodes) == nodes \cup {arcs[i].to : i \in {j \in 1..Len(arcs) : arcs[j].from \in nodes}}
        within[n \in 0..Cardinality(DOMAIN states)] ==
            IF n = 0 THEN {node} ELSE beyond(within[n - 1])
    IN  within[Cardinality(DOMAIN states)]

(* RETRIEVAL-FIELD laws 4 and 6: unknown cues cannot produce fabricated    *)
(* evidence, and the cues named for an evidence are those that led to it.  *)
(* The lanes of the field are numbers, which packet must take for          *)
(* positions among the known terms, not among all the query's.             *)
EvidenceGrounded ==
    \A i \in 1..Len(evidence) : \A term \in evidence[i].supporting_cues :
        /\ term \in DOMAIN input.index.node_index
        /\ evidence[i].passage \in Joined(input.index.node_index[term])

(* RETRIEVAL-FIELD: answerable and insufficient_evidence are explicit      *)
(* opposites.  A packet is answerable only by the first of its evidence;   *)
(* still it is so exactly when some passage of the field has the support   *)
(* of enough cues, for any ranking by activation, limits and texts.        *)
AnswerableIfSupported ==
    answered =>
        (answerable <=> \E node \in DOMAIN states \cap input.index.passage_ids :
                            Cardinality(Lanes(node)) >= Required)
=============================================================================
