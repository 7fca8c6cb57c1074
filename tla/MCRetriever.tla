---------------------------- MODULE MCRetriever ----------------------------
(* Instances of the retriever for TLC. *)
EXTENDS RetrieverInvariant, TLC

Passage == <<"passage">>
OneAtom == {Passage}

(* The passage once more, and another. *)
Document == [source |-> <<"source">>,
             passages |-> {<<Passage, {"t"}>>, <<<<"appendix">>, {"t", "u"}>>}]
OneDocument == {Document}

Symmetry == Permutations(Proc)
=============================================================================
