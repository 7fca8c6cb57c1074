------------------------------ MODULE Passages ------------------------------
(***************************************************************************)
(* passages_with_overlap: a document is cut at its sentence ends, and the  *)
(* sentences are packed into windows of at most max_bytes, each seeded     *)
(* with the tail of the sentences before it; a sentence longer than a      *)
(* window is split hard.  A step is one turn of the outer loop.            *)
(*                                                                         *)
(* A sentence is its length and the positions of its whitespace (bytes are *)
(* numbered from 0, neither end is white: the code trims it).  Characters  *)
(* are one byte long.                                                      *)
(***************************************************************************)
EXTENDS Integers, Sequences, FiniteSets, FiniteSetsExt, SequencesExt

CONSTANTS
    Documents,      \* sequences of [len, spaces]
    max_bytes,
    overlap_bytes

(* What passages_with_overlap refuses; its least window, 64 bytes, is      *)
(* scaled down.                                                            *)
ASSUME SizeAssumption ==
    /\ max_bytes \in Nat \ {0} /\ overlap_bytes \in Nat
    /\ overlap_bytes < max_bytes \div 2
ASSUME DocumentAssumption ==
    \A document \in Documents :
        /\ Len(document) \in Nat
        /\ \A i \in 1..Len(document) : /\ document[i].len \in Nat \ {0}
                                      /\ document[i].spaces \subseteq 1..(document[i].len - 2)

VARIABLES
    sentences,
    start,      \* the first sentence that is still to be placed
    result      \* the passages: [sentences, bytes], and [span] of a chunk

vars == <<sentences, start, result>>

done == start > Len(sentences)
len(i) == sentences[i].len
oversized(i) == len(i) > max_bytes

(* The bytes of the sentences from i to j joined by single spaces. *)
Joined(i, j) ==
    IF j < i THEN 0 ELSE MapThenSumSet(len, i..j) + (j - i)

-----------------------------------------------------------------------------
(* Windows *)

(* What the overlap may take.  Mutant: without room for the next sentence. *)
TailUnreserved == overlap_bytes
TailBudget ==
    LET reserved == IF max_bytes > len(start) THEN max_bytes - len(start) - 1 ELSE 0
    IN  IF overlap_bytes < reserved THEN overlap_bytes ELSE reserved

(* The first sentence of the tail, or start.  Mutant: the tail may exceed  *)
(* its budget by a sentence.                                               *)
TailFromLoose ==
    Max({1} \cup {i + 1 : i \in {j \in 1..(start - 1) : Joined(j + 1, start - 1) > TailBudget}})
TailFrom ==
    IF overlap_bytes = 0 THEN start
    ELSE Min({start} \cup {i \in 1..(start - 1) : Joined(i, start - 1) <= TailBudget})

(* The last sentence that fits, the first of them always does. *)
LastFit(from) ==
    Max({start} \cup {e \in start..Len(sentences) : Joined(from, e) <= max_bytes})

PushWindow ==
    LET from == TailFrom
        last == LastFit(from)
    IN  /\ ~done /\ ~oversized(start)
        /\ result' = Append(result, [sentences |-> from..last, bytes |-> Joined(from, last),
                                     span |-> <<>>])
        /\ start' = last + 1
        /\ UNCHANGED sentences

-----------------------------------------------------------------------------
(* Hard splits *)

(* A chunk ends at the last whitespace of what fits, if it is not at its   *)
(* beginning, or where the window is full.                                 *)
ChunkEnd(s, from) ==
    LET full == from + max_bytes
        white == {x \in s.spaces : from < x /\ x < full}
    IN  IF full >= s.len THEN s.len ELSE IF white = {} THEN full ELSE Max(white)

(* Where the next one begins, after the whitespace.  Mutant: a byte is     *)
(* taken for whitespace unseen.                                            *)
SkipByte(s, at) ==
    Min({s.len} \cup {x \in (at + 1)..(s.len - 1) : x \notin s.spaces})
SkipSpaces(s, at) ==
    Min({s.len} \cup {x \in at..(s.len - 1) : x \notin s.spaces})

(* The first and last byte of each chunk: split_long_piece.  Trailing      *)
(* whitespace is trimmed.                                                  *)
split_long_piece(s) ==
    LET trimmed(from, end) == Max({x \in from..(end - 1) : x \notin s.spaces})
        chunks[from \in 0..s.len] ==
            IF from >= s.len THEN <<>>
            ELSE LET end == ChunkEnd(s, from)
                 IN  <<<<from, trimmed(from, end)>>>> \o chunks[SkipSpaces(s, end)]
    IN  chunks[0]

(* Where the loop goes on after an oversized sentence: end += 1,           *)
(* start = end, and then, past the check for the end of the document,      *)
(* start = end.max(start + 1).  Mutant: once more.                         *)
AfterSplitTwo == IF start = Len(sentences) THEN start + 1 ELSE start + 3
AfterSplit == IF start = Len(sentences) THEN start + 1 ELSE start + 2

SplitSentence ==
    /\ ~done /\ oversized(start)
    /\ LET spans == split_long_piece(sentences[start])
       IN  result' = result \o [i \in 1..Len(spans) |->
                                   [sentences |-> {start},
                                    bytes |-> spans[i][2] - spans[i][1] + 1,
                                    span |-> spans[i]]]
    /\ start' = AfterSplit
    /\ UNCHANGED sentences

-----------------------------------------------------------------------------
Init ==
    /\ sentences \in Documents
    /\ start = 1
    /\ result = <<>>

Stop == done /\ UNCHANGED vars

Next == PushWindow \/ SplitSentence \/ Stop

Spec == Init /\ [][Next]_vars

-----------------------------------------------------------------------------
(* Properties *)

(* STAGE-8: no window exceeds the passage budget, though its tail is       *)
(* chosen before it is known what follows, and its first fresh sentence is *)
(* put in unasked.                                                         *)
WindowsBounded == \A i \in 1..Len(result) : result[i].bytes <= max_bytes

Earlier(i) == UNION {result[j].sentences : j \in 1..(i - 1)}

(* STAGE-8: overlap never duplicates content beyond the declared           *)
(* allowance; and a window has something that no window before it has.     *)
OverlapBounded ==
    \A i \in 1..Len(result) : result[i].span = <<>> =>
        LET again == result[i].sentences \cap Earlier(i) IN
        /\ again = {} \/ Joined(Min(again), Max(again)) <= overlap_bytes
        /\ result[i].sentences # again

(* What a hard split of a sentence leaves out is whitespace.               *)
SplitsKeepBytes ==
    \A i \in 1..Len(sentences) :
        LET spans == {result[k].span : k \in {j \in 1..Len(result) :
                        result[j].span # <<>> /\ result[j].sentences = {i}}}
        IN  spans # {} =>
              0..(len(i) - 1) \ sentences[i].spaces
                \subseteq UNION {span[1]..span[2] : span \in spans}

Kept == Earlier(Len(result) + 1)

(* Sentences are packed, repeated and split, but none is lost, except one  *)
(* that follows an oversized sentence.                                     *)
SentencesKept ==
    done => \A i \in 1..Len(sentences) \ Kept : i > 1 /\ oversized(i - 1)

(* RETRIEVAL-FIELD: encoding converts a source document into bounded       *)
(* passage atoms.  Every sentence of the document is in some passage.      *)
EverySentenceKept == done => 1..Len(sentences) \subseteq Kept
=============================================================================
