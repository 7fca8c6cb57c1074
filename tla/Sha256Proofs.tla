---------------------------- MODULE Sha256Proofs ----------------------------
(***************************************************************************)
(* Proofs about Sha256, for messages and parts of any length.              *)
(***************************************************************************)
EXTENDS Sha256, TLAPS, SequenceTheorems

IsBlock(b) == b \in Seq(Byte) /\ Len(b) = 64

TypeInv ==
    /\ stage \in {"open", "input", "done"}
    /\ compressed \in Seq(Byte)
    /\ message \in Seq(Byte)
    /\ input \in Seq(Byte)
    /\ IsBlock(block)
    /\ used \in 0..63

(* While it takes parts, what was compressed, what waits in the block and  *)
(* what is left of a part are the message; all blocks were whole.          *)
BufferInv ==
    stage # "done" =>
        /\ Len(compressed) % 64 = 0
        /\ length = Wrap(Len(message))
        /\ message = (compressed \o SubSeq(block, 1, used)) \o input
        /\ stage = "open" => input = <<>>
        /\ stage = "input" => used = 0

Inv == TypeInv /\ BufferInv /\ PaddedOnce

-----------------------------------------------------------------------------
(* Sequences *)

LEMMA FunctionIsSeq ==
    ASSUME NEW n \in Nat, NEW f \in [1..n -> Byte]
    PROVE  f \in Seq(Byte) /\ Len(f) = n
<1>1. f \in UNION {[1..m -> Byte] : m \in Nat}
  BY Zenon
<1>2. f \in Seq(Byte)
  BY <1>1, SeqDef
<1>3. DOMAIN f = 1..n /\ DOMAIN f = 1..Len(f) /\ Len(f) \in Nat
  BY <1>2, LenProperties
<1> QED
  BY <1>2, <1>3

LEMMA ConcatType ==
    ASSUME NEW s \in Seq(Byte), NEW t \in Seq(Byte)
    PROVE  s \o t \in Seq(Byte) /\ Len(s \o t) = Len(s) + Len(t)
BY ConcatProperties

LEMMA Assoc == \A s, t, u \in Seq(Byte) : (s \o t) \o u = s \o (t \o u)
BY ConcatAssociative

(* A place behind n more bytes in a block. *)
LEMMA Fits ==
    ASSUME NEW m \in 0..63, NEW n \in Nat, n < 64 - m
    PROVE  m + n \in 0..63 /\ m \in 0..64 /\ m + n \in 0..64 /\ 0 + n = n
OBVIOUS

LEMMA Empty ==
    /\ \A s \in Seq(Byte) : s \o <<>> = s /\ <<>> \o s = s
    /\ \A s : SubSeq(s, 1, 0) = <<>>
BY ConcatEmptySeq, SubSeqEmpty

(* The first of two sequences is the beginning of both. *)
LEMMA Beginning ==
    ASSUME NEW s \in Seq(Byte), NEW t \in Seq(Byte)
    PROVE  SubSeq(s \o t, 1, Len(s)) = s
<1>1. Len(s) \in Nat
  BY LenProperties
<1>2. CASE Len(s) = 0
  <2>1. SubSeq(s \o t, 1, Len(s)) = <<>>
    BY <1>2, SubSeqEmpty
  <2>2. s = <<>>
    BY <1>2, EmptySeq
  <2> QED
    BY <2>1, <2>2
<1>3. CASE Len(s) # 0
  <2>1. 1 \in 1..Len(s) /\ Len(s) \in 1..Len(s)
    BY <1>1, <1>3
  <2>2. SubSeq(s \o t, 1, Len(s)) = SubSeq(s, 1, Len(s))
    BY <2>1, SubSeqOfConcat1
  <2> QED
    BY <2>2, SubSeqFull
<1> QED
  BY <1>2, <1>3

(* The first bytes of a sequence, and the others. *)
LEMMA Split ==
    ASSUME NEW s \in Seq(Byte), NEW k \in 0..Len(s)
    PROVE  /\ SubSeq(s, 1, k) \in Seq(Byte) /\ Len(SubSeq(s, 1, k)) = k
           /\ SubSeq(s, k + 1, Len(s)) \in Seq(Byte)
           /\ Len(SubSeq(s, k + 1, Len(s))) = Len(s) - k
           /\ SubSeq(s, 1, k) \o SubSeq(s, k + 1, Len(s)) = s
<1>1. Len(s) \in Nat /\ \A i \in 1..Len(s) : s[i] \in Byte
  BY LenProperties, ElementOfSeq
<1>2. SubSeq(s, 1, k) \in Seq(Byte) /\ Len(SubSeq(s, 1, k)) = IF 1 <= k THEN k - 1 + 1 ELSE 0
  BY <1>1, SubSeqProperties
<1>3. \A i \in (k + 1)..Len(s) : s[i] \in Byte
  BY <1>1
<1>4. /\ SubSeq(s, k + 1, Len(s)) \in Seq(Byte)
      /\ Len(SubSeq(s, k + 1, Len(s))) = IF k + 1 <= Len(s) THEN Len(s) - (k + 1) + 1 ELSE 0
  BY <1>1, <1>3, SubSeqProperties
<1>5. SubSeq(s, 1, k) \o SubSeq(s, k + 1, Len(s)) = SubSeq(s, 1, Len(s))
  <2>1. 1 \in 1..(Len(s) + 1) /\ k \in (1 - 1)..Len(s) /\ Len(s) \in k..Len(s)
    BY <1>1
  <2> QED
    BY <2>1, ConcatAdjacentSubSeq
<1>6. SubSeq(s, 1, Len(s)) = s
  BY SubSeqFull
<1>7. Len(SubSeq(s, 1, k)) = k /\ Len(SubSeq(s, k + 1, Len(s))) = Len(s) - k
  BY <1>1, <1>2, <1>4
<1> QED
  BY <1>2, <1>4, <1>5, <1>6, <1>7

LEMMA ZerosType ==
    ASSUME NEW n \in Nat
    PROVE  Zeros(n) \in Seq(Byte) /\ Len(Zeros(n)) = n
<1>1. Zeros(n) \in [1..n -> Byte]
  BY DEF Zeros, Byte
<1> QED
  BY <1>1, FunctionIsSeq

LEMMA ZerosConcat ==
    ASSUME NEW m \in Nat, NEW n \in Nat
    PROVE  Zeros(m) \o Zeros(n) = Zeros(m + n)
<1>1. /\ Zeros(m) \in Seq(Byte) /\ Len(Zeros(m)) = m
      /\ Zeros(n) \in Seq(Byte) /\ Len(Zeros(n)) = n
      /\ Zeros(m + n) \in Seq(Byte) /\ Len(Zeros(m + n)) = m + n
  BY ZerosType
<1>2. /\ Zeros(m) \o Zeros(n) \in Seq(Byte) /\ Len(Zeros(m) \o Zeros(n)) = m + n
      /\ \A i \in 1..(m + n) : (Zeros(m) \o Zeros(n))[i] =
             IF i <= m THEN Zeros(m)[i] ELSE Zeros(n)[i - m]
  BY <1>1, ConcatProperties
<1>3. \A i \in 1..(m + n) : (Zeros(m) \o Zeros(n))[i] = Zeros(m + n)[i]
  BY <1>2 DEF Zeros
<1> QED
  BY <1>1, <1>2, <1>3, SeqEqual

LEMMA LengthBytes ==
    ASSUME NEW n \in Nat
    PROVE  to_be_bytes(n) \in Seq(Byte) /\ Len(to_be_bytes(n)) = 8
<1>1. \A i \in 1..8 : (n \div 2^(64 - 8 * i)) % 256 \in 0..255
  OBVIOUS
<1>2. to_be_bytes(n) \in [1..8 -> Byte]
  BY <1>1 DEF to_be_bytes, Byte
<1> QED
  BY <1>2, FunctionIsSeq

LEMMA WrapAdd ==
    ASSUME NEW m \in Nat, NEW n \in Nat
    PROVE  Wrap(m) \in Nat /\ Wrap(Wrap(m) + n) = Wrap(m + n) /\ Wrap(Wrap(m) * 8) = Wrap(m * 8)
BY DEF Wrap

(* Where a slice was copied into a block, it stands behind what was there. *)
LEMMA CopiedBlock ==
    ASSUME NEW b, IsBlock(b), NEW at \in 0..64, NEW slice \in Seq(Byte), NEW end \in 0..64,
           at + Len(slice) = end
    PROVE  /\ IsBlock(Copied(b, at, slice))
           /\ SubSeq(Copied(b, at, slice), 1, end) = SubSeq(b, 1, at) \o slice
           /\ end = 64 => Copied(b, at, slice) = SubSeq(b, 1, at) \o slice
<1> DEFINE first == SubSeq(b, 1, at) \o slice
           last == SubSeq(b, end + 1, 64)
<1>1. SubSeq(b, 1, at) \in Seq(Byte) /\ Len(SubSeq(b, 1, at)) = at
  BY Split DEF IsBlock
<1>2. first \in Seq(Byte) /\ Len(first) = end
  BY <1>1, ConcatType
<1>3. last \in Seq(Byte) /\ Len(last) = 64 - end
  <2>1. b \in Seq(Byte) /\ Len(b) = 64 /\ end \in 0..Len(b)
    BY DEF IsBlock
  <2>2. SubSeq(b, end + 1, Len(b)) \in Seq(Byte) /\ Len(SubSeq(b, end + 1, Len(b))) = Len(b) - end
    BY <2>1, Split
  <2> QED
    BY <2>1, <2>2
<1>4. Copied(b, at, slice) = first \o last
  BY DEF Copied
<1> HIDE DEF first, last
<1>5. IsBlock(first \o last)
  <2>1. first \o last \in Seq(Byte) /\ Len(first \o last) = end + (64 - end)
    BY <1>2, <1>3, ConcatType
  <2> QED
    BY <2>1 DEF IsBlock
<1>6. SubSeq(first \o last, 1, end) = first
  BY <1>2, <1>3, Beginning
<1>7. ASSUME end = 64 PROVE first \o last = first
  <2>1. first \o last = SubSeq(first \o last, 1, Len(first \o last))
    BY <1>5, SubSeqFull DEF IsBlock
  <2> QED
    BY <2>1, <1>5, <1>6, <1>7 DEF IsBlock
<1> QED
  BY <1>4, <1>5, <1>6, <1>7 DEF first

LEMMA FilledBlock ==
    ASSUME NEW b, IsBlock(b), NEW at \in 0..64, NEW end \in at..64
    PROVE  /\ IsBlock(Filled(b, at, end))
           /\ SubSeq(Filled(b, at, end), 1, end) = SubSeq(b, 1, at) \o Zeros(end - at)
           /\ end = 64 => Filled(b, at, end) = SubSeq(b, 1, at) \o Zeros(end - at)
<1>1. end - at \in Nat /\ end \in 0..64 /\ at + (end - at) = end
  OBVIOUS
<1>2. Zeros(end - at) \in Seq(Byte) /\ Len(Zeros(end - at)) = end - at
  BY <1>1, ZerosType
<1> QED
  BY <1>1, <1>2, CopiedBlock, ZenonT(60) DEF Filled

-----------------------------------------------------------------------------
(* Init and update *)

LEMMA InitInv == Init => Inv
<1> SUFFICES ASSUME Init PROVE Inv
  OBVIOUS
<1>1. <<>> \in Seq(Byte) /\ Len(<<>>) = 0
  BY EmptySeq
<1>2. Zeros(64) \in Seq(Byte) /\ Len(Zeros(64)) = 64
  BY ZerosType
<1>3. SubSeq(Zeros(64), 1, 0) = <<>>
  BY SubSeqEmpty
<1>4. (<<>> \o <<>>) \o <<>> = <<>>
  BY <1>1, ConcatEmptySeq
<1>5. TypeInv
  BY <1>1, <1>2 DEF Init, TypeInv, IsBlock
<1>6. BufferInv
  BY <1>1, <1>3, <1>4 DEF Init, BufferInv, Wrap
<1>7. PaddedOnce
  BY DEF Init, PaddedOnce
<1> QED
  BY <1>5, <1>6, <1>7 DEF Inv

(* What every part adds. *)
LEMMA GivenStep ==
    ASSUME Inv, NEW part \in Seq(Byte), Given(part)
    PROVE  /\ Len(part) \in Nat
           /\ SubSeq(block, 1, used) \in Seq(Byte) /\ Len(SubSeq(block, 1, used)) = used
           /\ Len(compressed) % 64 = 0
           /\ message' \in Seq(Byte)
           /\ message' = compressed \o (SubSeq(block, 1, used) \o part)
           /\ length' = Wrap(Len(message'))
<1> DEFINE waiting == SubSeq(block, 1, used)
<1>1. /\ compressed \in Seq(Byte) /\ message \in Seq(Byte) /\ IsBlock(block) /\ used \in 0..64
      /\ Len(part) \in Nat /\ Len(message) \in Nat
  BY LenProperties DEF Inv, TypeInv
<1>2. /\ Len(compressed) % 64 = 0 /\ length = Wrap(Len(message))
      /\ message = (compressed \o waiting) \o <<>>
  BY DEF Inv, BufferInv, Given
<1>3. waiting \in Seq(Byte) /\ Len(waiting) = used
  BY <1>1, Split DEF IsBlock
<1>4. message' = message \o part /\ length' = Wrap(length + Len(part))
  BY DEF Given
<1>5. message' \in Seq(Byte) /\ Len(message') = Len(message) + Len(part)
  BY <1>1, <1>4, ConcatType
<1>6. message = compressed \o waiting
  BY <1>1, <1>2, <1>3, ConcatType, ConcatEmptySeq
<1>7. message' = compressed \o (waiting \o part)
  <2>1. (compressed \o waiting) \o part = compressed \o (waiting \o part)
    BY <1>1, <1>3, Assoc, ZenonT(60)
  <2> QED
    BY <1>4, <1>6, <2>1, Zenon
<1>8. length' = Wrap(Len(message'))
  BY <1>1, <1>2, <1>4, <1>5, WrapAdd
<1> QED
  BY <1>1, <1>2, <1>3, <1>5, <1>7, <1>8

LEMMA ExtendStep ==
    ASSUME Inv, NEW part \in Seq(Byte), Extend(part)
    PROVE  Inv'
<1>1. /\ Len(part) \in Nat
      /\ Len(compressed) % 64 = 0
      /\ message' \in Seq(Byte)
      /\ message' = compressed \o (SubSeq(block, 1, used) \o part)
      /\ length' = Wrap(Len(message'))
  BY GivenStep DEF Extend
<1>2. /\ stage = "open" /\ stage' = "open" /\ compressed' = compressed /\ input' = input
      /\ used' = used + Len(part) /\ block' = Copied(block, used, part)
      /\ used # 0 /\ Len(part) < 64 - used
  BY DEF Extend, Given
<1>3. /\ compressed \in Seq(Byte) /\ input \in Seq(Byte) /\ IsBlock(block) /\ used \in 0..63
      /\ input = <<>>
  BY <1>2 DEF Inv, TypeInv, BufferInv
<1>4. used' \in 0..63 /\ used \in 0..64 /\ used' \in 0..64 /\ used + Len(part) = used'
  <2>1. Len(part) \in Nat /\ used \in 0..63 /\ Len(part) < 64 - used
    BY <1>1, <1>2, <1>3, Zenon
  <2>2. used + Len(part) \in 0..63 /\ used \in 0..64 /\ used + Len(part) \in 0..64
    BY <2>1, Fits
  <2> QED
    BY <1>2, <2>2, Zenon
<1>5. IsBlock(block') /\ SubSeq(block', 1, used') = SubSeq(block, 1, used) \o part
  BY <1>2, <1>3, <1>4, CopiedBlock
<1>6. message' = compressed \o SubSeq(block', 1, used')
  BY <1>1, <1>5
<1>7. message' = (compressed' \o SubSeq(block', 1, used')) \o input'
  BY <1>1, <1>2, <1>3, <1>6, ConcatEmptySeq
<1> QED
  BY <1>1, <1>2, <1>3, <1>4, <1>5, <1>7 DEF Inv, TypeInv, BufferInv, PaddedOnce

LEMMA FillBlockStep ==
    ASSUME Inv, NEW part \in Seq(Byte), FillBlock(part)
    PROVE  Inv'
<1> DEFINE waiting == SubSeq(block, 1, used)
           begin == SubSeq(part, 1, 64 - used)
           rest == SubSeq(part, 65 - used, Len(part))
<1>1. /\ Len(part) \in Nat
      /\ waiting \in Seq(Byte) /\ Len(waiting) = used
      /\ Len(compressed) % 64 = 0
      /\ message' \in Seq(Byte)
      /\ message' = compressed \o (waiting \o part)
      /\ length' = Wrap(Len(message'))
  BY GivenStep DEF FillBlock
<1>2. /\ stage' = "input" /\ compressed' = compressed \o block' /\ input' = rest
      /\ used' = 0 /\ block' = Copied(block, used, begin)
      /\ used # 0 /\ Len(part) >= 64 - used
  BY DEF FillBlock, Given
<1>3. compressed \in Seq(Byte) /\ IsBlock(block) /\ used \in 0..63 /\ Len(compressed) \in Nat
  BY LenProperties DEF Inv, TypeInv
<1>4. begin \in Seq(Byte) /\ Len(begin) = 64 - used /\ rest \in Seq(Byte) /\ begin \o rest = part
  <2>1. 64 - used \in 0..Len(part) /\ (64 - used) + 1 = 65 - used
    BY <1>1, <1>2, <1>3
  <2>2. /\ begin \in Seq(Byte) /\ Len(begin) = 64 - used
        /\ SubSeq(part, (64 - used) + 1, Len(part)) \in Seq(Byte)
        /\ begin \o SubSeq(part, (64 - used) + 1, Len(part)) = part
    BY <2>1, Split, ZenonT(60)
  <2> QED
    BY <2>1, <2>2, Zenon
<1> HIDE DEF waiting, begin, rest
<1>5. used \in 0..64 /\ 64 \in 0..64 /\ used + Len(begin) = 64
  BY <1>3, <1>4
<1>6. IsBlock(block') /\ block' = SubSeq(block, 1, used) \o begin
  BY <1>2, <1>3, <1>4, <1>5, CopiedBlock, ZenonT(60)
<1>7. block' \in Seq(Byte) /\ block' = waiting \o begin /\ Len(block') = 64
  BY <1>6 DEF waiting, IsBlock
<1>8. compressed' \in Seq(Byte) /\ Len(compressed') = Len(compressed) + 64
  BY <1>2, <1>3, <1>7, ConcatType, SMTT(40)
<1>9. Len(compressed') % 64 = 0
  BY <1>1, <1>3, <1>8
<1>10. message' = compressed' \o rest
  <2> /\ waiting \in Seq(Byte) /\ begin \in Seq(Byte) /\ rest \in Seq(Byte)
      /\ compressed \in Seq(Byte) /\ block' \in Seq(Byte)
    BY <1>1, <1>3, <1>4, <1>7, Zenon
  <2>1. (waiting \o begin) \o rest = waiting \o (begin \o rest)
    BY Assoc, SMTT(40)
  <2>2. (compressed \o block') \o rest = compressed \o (block' \o rest)
    BY Assoc, SMTT(40)
  <2> QED
    BY <2>1, <2>2, <1>1, <1>2, <1>4, <1>7, Zenon
<1>11. message' = (compressed' \o SubSeq(block', 1, used')) \o input'
  BY <1>2, <1>8, <1>10, Empty, Zenon
<1>12. used' \in 0..63
  BY <1>2
<1> QED
  BY <1>1, <1>2, <1>4, <1>6, <1>8, <1>9, <1>11, <1>12, Zenon DEF Inv, TypeInv, BufferInv, PaddedOnce

LEMMA StartBlockStep ==
    ASSUME Inv, NEW part \in Seq(Byte), StartBlock(part)
    PROVE  Inv'
<1>1. /\ Len(compressed) % 64 = 0
      /\ message' \in Seq(Byte)
      /\ message' = compressed \o (SubSeq(block, 1, used) \o part)
      /\ length' = Wrap(Len(message'))
  BY GivenStep DEF StartBlock
<1>2. /\ stage' = "input" /\ compressed' = compressed /\ block' = block /\ used' = used
      /\ input' = part /\ used = 0
  BY DEF StartBlock, Given
<1>3. compressed \in Seq(Byte) /\ IsBlock(block)
  BY DEF Inv, TypeInv
<1>4. SubSeq(block, 1, used) = <<>>
  BY <1>2, SubSeqEmpty
<1>5. message' = (compressed' \o SubSeq(block', 1, used')) \o input'
  BY <1>1, <1>2, <1>3, <1>4, ConcatEmptySeq
<1> QED
  BY <1>1, <1>2, <1>3, <1>5 DEF Inv, TypeInv, BufferInv, PaddedOnce

(* In the loop over whole blocks, and behind it. *)
LEMMA InputStage ==
    ASSUME Inv, stage = "input"
    PROVE  /\ compressed \in Seq(Byte) /\ input \in Seq(Byte) /\ message \in Seq(Byte)
           /\ IsBlock(block) /\ used = 0
           /\ Len(compressed) \in Nat /\ Len(input) \in Nat
           /\ Len(compressed) % 64 = 0 /\ length = Wrap(Len(message))
           /\ message = compressed \o input
<1>1. /\ compressed \in Seq(Byte) /\ input \in Seq(Byte) /\ message \in Seq(Byte)
      /\ IsBlock(block) /\ used = 0
      /\ Len(compressed) \in Nat /\ Len(input) \in Nat
      /\ Len(compressed) % 64 = 0 /\ length = Wrap(Len(message))
      /\ message = (compressed \o SubSeq(block, 1, used)) \o input
  BY LenProperties DEF Inv, TypeInv, BufferInv
<1>2. SubSeq(block, 1, used) = <<>>
  BY <1>1, SubSeqEmpty
<1> QED
  BY <1>1, <1>2, ConcatEmptySeq

LEMMA CompressInputStep ==
    ASSUME Inv, CompressInput
    PROVE  Inv'
<1> DEFINE begin == SubSeq(input, 1, 64)
           rest == SubSeq(input, 65, Len(input))
<1>1. /\ compressed \in Seq(Byte) /\ input \in Seq(Byte) /\ message \in Seq(Byte)
      /\ IsBlock(block) /\ used = 0
      /\ Len(compressed) \in Nat /\ Len(input) \in Nat
      /\ Len(compressed) % 64 = 0 /\ length = Wrap(Len(message))
      /\ message = compressed \o input
  BY InputStage DEF CompressInput
<1>2. /\ stage' = "input" /\ compressed' = compressed \o begin /\ input' = rest
      /\ block' = block /\ used' = used /\ length' = length /\ message' = message
      /\ Len(input) >= 64
  BY DEF CompressInput
<1>3. begin \in Seq(Byte) /\ Len(begin) = 64 /\ rest \in Seq(Byte) /\ begin \o rest = input
  <2>1. 64 \in 0..Len(input)
    BY <1>1, <1>2
  <2>2. SubSeq(input, 64 + 1, Len(input)) = rest
    OBVIOUS
  <2> QED
    BY <2>1, <2>2, <1>1, Split, ZenonT(60)
<1> HIDE DEF begin, rest
<1>4. compressed' \in Seq(Byte) /\ Len(compressed') = Len(compressed) + 64
  <2>1. compressed \o begin \in Seq(Byte) /\ Len(compressed \o begin) = Len(compressed) + Len(begin)
    BY <1>1, <1>3, ConcatType
  <2> QED
    BY <2>1, <1>2, <1>3, Zenon
<1>5. Len(compressed') % 64 = 0
  BY <1>1, <1>4
<1>6. message' = compressed' \o rest
  <2> compressed \in Seq(Byte) /\ begin \in Seq(Byte) /\ rest \in Seq(Byte)
    BY <1>1, <1>3, Zenon
  <2>1. (compressed \o begin) \o rest = compressed \o (begin \o rest)
    BY Assoc
  <2> QED
    BY <2>1, <1>1, <1>2, <1>3, Zenon
<1>7. message' = (compressed' \o SubSeq(block', 1, used')) \o input'
  BY <1>1, <1>2, <1>4, <1>6, Empty, Zenon
<1> QED
  BY <1>1, <1>2, <1>3, <1>4, <1>5, <1>7 DEF Inv, TypeInv, BufferInv, PaddedOnce

LEMMA KeepRestStep ==
    ASSUME Inv, KeepRest
    PROVE  Inv'
<1>1. /\ compressed \in Seq(Byte) /\ input \in Seq(Byte) /\ message \in Seq(Byte)
      /\ IsBlock(block)
      /\ Len(input) \in Nat
      /\ Len(compressed) % 64 = 0 /\ length = Wrap(Len(message))
      /\ message = compressed \o input
  BY InputStage DEF KeepRest
<1>2. /\ stage' = "open" /\ compressed' = compressed /\ input' = <<>>
      /\ block' = Copied(block, 0, input) /\ used' = Len(input)
      /\ length' = length /\ message' = message
      /\ Len(input) < 64
  BY DEF KeepRest
<1>3. used' \in 0..63 /\ used' \in 0..64 /\ 0 \in 0..64 /\ 0 + Len(input) = used'
  <2>1. Len(input) \in 0..63 /\ Len(input) \in 0..64 /\ 0 \in 0..64 /\ 0 + Len(input) = Len(input)
    <3>1. Len(input) \in Nat /\ Len(input) < 64
      BY <1>1, <1>2, Zenon
    <3>2. \A n \in Nat : n < 64 => n \in 0..63 /\ n \in 0..64 /\ 0 \in 0..64 /\ 0 + n = n
      OBVIOUS
    <3> QED
      BY <3>1, <3>2, Zenon
  <2> QED
    BY <2>1, <1>2, Zenon
<1>4. IsBlock(block') /\ SubSeq(block', 1, used') = SubSeq(block, 1, 0) \o input
  BY <1>1, <1>2, <1>3, CopiedBlock, ZenonT(60)
<1>5. SubSeq(block', 1, used') = input
  BY <1>1, <1>4, Empty, Zenon
<1>6. message' = (compressed' \o SubSeq(block', 1, used')) \o input'
  BY <1>1, <1>2, <1>5, ConcatEmptySeq
<1>7. input' \in Seq(Byte)
  BY <1>2, EmptySeq
<1> QED
  BY <1>1, <1>2, <1>3, <1>4, <1>6, <1>7 DEF Inv, TypeInv, BufferInv, PaddedOnce

-----------------------------------------------------------------------------
(* finish *)

LEMMA FinishStep ==
    ASSUME Inv, finish
    PROVE  Inv'
<1> DEFINE waiting == SubSeq(block, 1, used)
           mark == <<128>>
           marked == Copied(block, used, mark)
           bits == to_be_bytes(Wrap(length * 8))
<1>1. /\ compressed \in Seq(Byte) /\ message \in Seq(Byte) /\ IsBlock(block) /\ used \in 0..63
      /\ Len(compressed) \in Nat /\ Len(message) \in Nat
      /\ Len(compressed) % 64 = 0 /\ length = Wrap(Len(message))
      /\ message = (compressed \o waiting) \o <<>>
  BY LenProperties DEF Inv, TypeInv, BufferInv, finish
<1>2. /\ stage' = "done" /\ block' = block /\ used' = used /\ length' = length
      /\ input' = input /\ message' = message
  BY DEF finish
<1>3. compressed' =
          IF used + 1 > 56
          THEN (compressed \o Filled(marked, used + 1, 64)) \o Copied(Zeros(64), 56, bits)
          ELSE compressed \o Copied(Filled(marked, used + 1, 56), 56, bits)
  BY DEF finish
<1>4. mark \in Seq(Byte) /\ Len(mark) = 1
  BY DEF Byte
<1>5. bits \in Seq(Byte) /\ Len(bits) = 8 /\ bits = to_be_bytes(Wrap(Len(message) * 8))
  <2>1. Wrap(length * 8) = Wrap(Len(message) * 8)
    BY <1>1, WrapAdd
  <2>2. \A n \in Nat : Wrap(n * 8) \in Nat
    BY WrapAdd
  <2> QED
    BY <1>1, <2>1, <2>2, LengthBytes
<1>6. waiting \in Seq(Byte) /\ Len(waiting) = used
  BY <1>1, Split DEF IsBlock
<1>7. IsBlock(marked) /\ SubSeq(marked, 1, used + 1) = waiting \o mark
  <2>1. used \in 0..64 /\ used + 1 \in 0..64 /\ used + Len(mark) = used + 1
    BY <1>1, <1>4
  <2>2. IsBlock(block) /\ mark \in Seq(Byte)
    BY <1>1, <1>4
  <2> HIDE DEF mark
  <2>3. /\ IsBlock(Copied(block, used, mark))
        /\ SubSeq(Copied(block, used, mark), 1, used + 1) = SubSeq(block, 1, used) \o mark
    BY <2>1, <2>2, CopiedBlock
  <2> QED
    BY <2>3
<1> HIDE DEF waiting, mark, marked, bits
<1>8. message = compressed \o waiting
  <2>1. compressed \o waiting \in Seq(Byte)
    BY <1>1, <1>6, ConcatType
  <2> QED
    BY <1>1, <2>1, Empty, Zenon
<1>9. message \o mark = compressed \o (waiting \o mark)
  <2> compressed \in Seq(Byte) /\ waiting \in Seq(Byte) /\ mark \in Seq(Byte)
    BY <1>1, <1>4, <1>6, Zenon
  <2>1. (compressed \o waiting) \o mark = compressed \o (waiting \o mark)
    BY Assoc
  <2> QED
    BY <1>8, <2>1, Zenon
<1>10. waiting \o mark \in Seq(Byte) /\ message \o mark \in Seq(Byte)
  BY <1>1, <1>4, <1>6, ConcatType
(* The length fits behind the mark, or takes a block more. *)
<1>11. ASSUME used + 1 <= 56
       PROVE  /\ compressed' = (message \o mark) \o (Zeros(55 - used) \o bits)
              /\ compressed' \in Seq(Byte) /\ Len(compressed') = Len(compressed) + 64
  <2> DEFINE filled == Filled(marked, used + 1, 56)
             final == Copied(filled, 56, bits)
             zeros == Zeros(55 - used)
  <2>1. /\ used + 1 \in 0..64 /\ 56 \in (used + 1)..64
        /\ 55 - used \in Nat /\ 56 - (used + 1) = 55 - used
    BY <1>1, <1>11
  <2>2. zeros \in Seq(Byte)
    BY <2>1, ZerosType
  <2>3. IsBlock(filled) /\ SubSeq(filled, 1, 56) = (waiting \o mark) \o zeros
    <3>1. IsBlock(filled) /\ SubSeq(filled, 1, 56) = SubSeq(marked, 1, used + 1) \o Zeros(56 - (used + 1))
      BY <2>1, <1>7, FilledBlock
    <3> QED
      BY <3>1, <2>1, <1>7, Zenon
  <2>4. IsBlock(final) /\ final = SubSeq(filled, 1, 56) \o bits
    <3>1. 56 \in 0..64 /\ 64 \in 0..64 /\ 56 + Len(bits) = 64
      BY <1>5
    <3> HIDE DEF filled
    <3> QED
      BY <3>1, <2>3, <1>5, CopiedBlock, ZenonT(60)
  <2>5. compressed' = compressed \o final
    BY <1>1, <1>3, <1>11
  <2> HIDE DEF filled, final, zeros
  <2> DEFINE end == waiting \o mark
  <2>6. /\ end \in Seq(Byte) /\ zeros \in Seq(Byte) /\ bits \in Seq(Byte)
        /\ compressed \in Seq(Byte) /\ final = (end \o zeros) \o bits
        /\ message \o mark = compressed \o end
    BY <2>2, <2>3, <2>4, <1>1, <1>5, <1>9, <1>10, Zenon
  <2> HIDE DEF end
  <2>7. zeros \o bits \in Seq(Byte)
    BY <2>6, ConcatType
  <2>8. compressed' = (message \o mark) \o (zeros \o bits)
    <3>1. (end \o zeros) \o bits = end \o (zeros \o bits)
      BY <2>6, Assoc
    <3>2. (compressed \o end) \o (zeros \o bits) = compressed \o (end \o (zeros \o bits))
      BY <2>6, <2>7, Assoc
    <3> QED
      BY <2>5, <2>6, <3>1, <3>2, Zenon
  <2>9. compressed \o final \in Seq(Byte) /\ Len(compressed \o final) = Len(compressed) + 64
    BY <2>4, <1>1, ConcatType DEF IsBlock
  <2> QED
    BY <2>5, <2>8, <2>9, Zenon DEF zeros
<1>12. ASSUME used + 1 > 56
       PROVE  /\ compressed' = (message \o mark) \o (Zeros(119 - used) \o bits)
              /\ compressed' \in Seq(Byte) /\ Len(compressed') = Len(compressed) + 128
  <2> DEFINE filled == Filled(marked, used + 1, 64)
             final == Copied(Zeros(64), 56, bits)
             zeros == Zeros(63 - used)
             more == Zeros(56)
  <2>1. /\ used + 1 \in 0..64 /\ 64 \in (used + 1)..64 /\ 64 - (used + 1) = 63 - used
        /\ 63 - used \in Nat /\ (63 - used) + 56 = 119 - used
    BY <1>1
  <2>2. zeros \in Seq(Byte) /\ more \in Seq(Byte) /\ Len(more) = 56
    BY <2>1, ZerosType
  <2>3. IsBlock(filled) /\ filled = (waiting \o mark) \o zeros
    <3>1. IsBlock(filled) /\ filled = SubSeq(marked, 1, used + 1) \o Zeros(64 - (used + 1))
      BY <2>1, <1>7, FilledBlock
    <3> QED
      BY <3>1, <2>1, <1>7, Zenon
  <2>4. IsBlock(final) /\ final = more \o bits
    <3>1. 56 \in 0..64 /\ 64 \in 0..64 /\ 56 + Len(bits) = 64
      BY <1>5
    <3>2. IsBlock(Zeros(64))
      BY ZerosType DEF IsBlock
    <3>3. SubSeq(Zeros(64), 1, 56) = more
      <4>1. Zeros(56) \o Zeros(8) = Zeros(56 + 8)
        BY ZerosConcat
      <4>2. Zeros(56) \in Seq(Byte) /\ Len(Zeros(56)) = 56 /\ Zeros(8) \in Seq(Byte)
        BY ZerosType
      <4>3. SubSeq(Zeros(56) \o Zeros(8), 1, Len(Zeros(56))) = Zeros(56)
        BY <4>2, Beginning
      <4>4. 56 + 8 = 64
        OBVIOUS
      <4> QED
        BY <4>1, <4>2, <4>3, <4>4, Zenon
    <3>4. IsBlock(final) /\ final = SubSeq(Zeros(64), 1, 56) \o bits
      BY <3>1, <3>2, <1>5, CopiedBlock, ZenonT(60)
    <3> QED
      BY <3>3, <3>4, Zenon
  <2>5. compressed' = (compressed \o filled) \o final
    BY <1>1, <1>3, <1>12
  <2>6. zeros \o more = Zeros(119 - used)
    BY <2>1, ZerosConcat, ZenonT(60)
  <2> HIDE DEF filled, final, zeros, more
  <2> DEFINE end == waiting \o mark
             begun == message \o mark
  <2>7. /\ end \in Seq(Byte) /\ begun \in Seq(Byte) /\ zeros \in Seq(Byte) /\ more \in Seq(Byte)
        /\ bits \in Seq(Byte) /\ compressed \in Seq(Byte)
        /\ filled = end \o zeros /\ begun = compressed \o end
    BY <2>2, <2>3, <1>1, <1>5, <1>9, <1>10, Zenon
  <2> HIDE DEF end, begun
  <2>8. compressed' = (message \o mark) \o ((zeros \o more) \o bits)
    <3>1. (compressed \o end) \o zeros = compressed \o (end \o zeros)
      BY <2>7, Assoc, SMTT(40)
    <3>2. more \o bits \in Seq(Byte)
      BY <2>7, ConcatType
    <3>3. (begun \o zeros) \o (more \o bits) = begun \o (zeros \o (more \o bits))
      <4>1. begun \in Seq(Byte) /\ zeros \in Seq(Byte)
        BY <2>7, Zenon
      <4> QED
        BY <4>1, <3>2, Assoc
    <3>4. (zeros \o more) \o bits = zeros \o (more \o bits)
      <4>1. zeros \in Seq(Byte) /\ more \in Seq(Byte) /\ bits \in Seq(Byte)
        BY <2>7, Zenon
      <4> QED
        BY <4>1, Assoc
    <3>5. compressed' = begun \o ((zeros \o more) \o bits)
      BY <2>4, <2>5, <2>7, <3>1, <3>3, <3>4, Zenon
    <3> QED
      BY <3>5 DEF begun
  <2>9. /\ (compressed \o filled) \o final \in Seq(Byte)
        /\ Len((compressed \o filled) \o final) = Len(compressed) + 128
    <3>1. filled \in Seq(Byte) /\ Len(filled) = 64 /\ final \in Seq(Byte) /\ Len(final) = 64
      BY <2>3, <2>4 DEF IsBlock
    <3>2. compressed \o filled \in Seq(Byte) /\ Len(compressed \o filled) = Len(compressed) + 64
      <4>1. compressed \in Seq(Byte)
        BY <1>1
      <4>2. /\ compressed \o filled \in Seq(Byte)
            /\ Len(compressed \o filled) = Len(compressed) + Len(filled)
        BY <3>1, <4>1, ConcatType
      <4> QED
        BY <3>1, <4>2, Zenon
    <3>3. /\ (compressed \o filled) \o final \in Seq(Byte)
          /\ Len((compressed \o filled) \o final) = (Len(compressed) + 64) + 64
      BY <3>1, <3>2, ConcatType
    <3> QED
      BY <3>3, <1>1
  <2> QED
    BY <2>5, <2>6, <2>8, <2>9, Zenon
<1>13. \E n \in 0..63 : compressed' = (message \o mark) \o (Zeros(n) \o bits)
  <2>1. CASE used + 1 <= 56
    <3>1. 55 - used \in 0..63
      BY <1>1, <2>1
    <3> QED
      BY <3>1, <2>1, <1>11, Zenon
  <2>2. CASE used + 1 > 56
    <3>1. 119 - used \in 0..63
      BY <1>1, <2>2
    <3> QED
      BY <3>1, <2>2, <1>12, Zenon
  <2>3. used + 1 <= 56 \/ used + 1 > 56
    BY <1>1
  <2> QED
    BY <2>1, <2>2, <2>3, Zenon
<1>14. compressed' \in Seq(Byte) /\ Len(compressed') % 64 = 0
  <2>1. /\ compressed' \in Seq(Byte)
        /\ Len(compressed') = Len(compressed) + 64 \/ Len(compressed') = Len(compressed) + 128
    <3>1. used + 1 <= 56 \/ used + 1 > 56
      BY <1>1
    <3> QED
      BY <3>1, <1>11, <1>12, Zenon
  <2>2. \A n \in Nat : n % 64 = 0 => (n + 64) % 64 = 0 /\ (n + 128) % 64 = 0
    OBVIOUS
  <2> QED
    BY <2>1, <2>2, <1>1, Zenon, ZenonT(60)
<1>15. PaddedOnce'
  BY <1>2, <1>5, <1>13, <1>14, Zenon DEF PaddedOnce, Padded, mark, bits
<1>16. TypeInv' /\ BufferInv'
  BY <1>2, <1>14 DEF Inv, TypeInv, BufferInv
<1> QED
  BY <1>15, <1>16 DEF Inv

-----------------------------------------------------------------------------
LEMMA StutterStep ==
    ASSUME Inv, UNCHANGED vars
    PROVE  Inv'
BY DEF vars, Inv, TypeInv, IsBlock, BufferInv, PaddedOnce, Padded

LEMMA InvNext == Inv /\ [Next]_vars => Inv'
<1> SUFFICES ASSUME Inv, [Next]_vars PROVE Inv'
  OBVIOUS
<1>1. CASE \E part \in Seq(Byte) : Extend(part) \/ FillBlock(part) \/ StartBlock(part)
  BY <1>1, ExtendStep, FillBlockStep, StartBlockStep
<1>2. CASE CompressInput \/ KeepRest
  BY <1>2, CompressInputStep, KeepRestStep
<1>3. CASE finish
  BY <1>3, FinishStep
<1>4. CASE UNCHANGED vars
  BY <1>4, StutterStep
<1> QED
  BY <1>1, <1>2, <1>3, <1>4 DEF Next

(* A digest is made of the message padded once, however it was divided     *)
(* into parts: Sha256::update and Sha256::finish.                          *)
THEOREM SpecPaddedOnce == Spec => []PaddedOnce
<1>1. Init => Inv
  BY InitInv
<1>2. Inv /\ [Next]_vars => Inv'
  BY InvNext
<1>3. Inv => PaddedOnce
  BY DEF Inv
<1> QED
  BY <1>1, <1>2, <1>3, PTL DEF Spec
=============================================================================
