----------------------------- MODULE MCPassages -----------------------------
(* Documents for TLC. *)
EXTENDS Passages

Plain(n) == [len |-> n, spaces |-> {}]
Spaced(n, S) == [len |-> n, spaces |-> S]

(* Windows of 9 bytes with an overlap of 3. *)
Short == {Plain(1), Plain(3), Plain(4), Plain(7), Plain(9)}
ShortDocuments == UNION {[1..n -> Short] : n \in 0..6}

(* A sentence that must be split, its whitespace anywhere. *)
LongSentences == {Spaced(n, S) : n \in {11, 13, 20}, S \in SUBSET {1, 4, 5, 8, 9}}
MixedDocuments ==
    UNION {[1..n -> {Plain(2), Plain(5), Spaced(20, {3, 8, 9, 12}), Plain(10)}] : n \in 0..5}
    \cup {<<s>> : s \in LongSentences}
    \cup {<<Plain(3), s, Plain(3)>> : s \in LongSentences}
AllDocuments == ShortDocuments \cup MixedDocuments
=============================================================================
