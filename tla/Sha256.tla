------------------------------- MODULE Sha256 -------------------------------
(***************************************************************************)
(* digest: how Sha256 cuts the parts of an input into blocks of 64 bytes   *)
(* and pads the last one.  What compress makes of a block is left out: the *)
(* state is what went into it, the bytes of all blocks in order.  That     *)
(* SHA-256 is injective in these is what Facts assumes of identities.      *)
(***************************************************************************)
EXTENDS Integers, Sequences

Byte == 0..255

VARIABLES
    stage,       \* "open" between updates, "input" in update's loop, "done"
    compressed,  \* what the state was compressed from
    block, used, length,
    input,       \* what is left of the part that is added
    message      \* history: the parts so far

vars == <<stage, compressed, block, used, length, input, message>>

(* Counters of 64 bits wrap at 2^64. *)
Wrap(n) == n % 18446744073709551616

(* A block after a slice was copied behind its first bytes, and after it   *)
(* was filled with zeros from there to some place.                         *)
Copied(b, at, slice) ==
    (SubSeq(b, 1, at) \o slice) \o SubSeq(b, at + Len(slice) + 1, 64)
Zeros(n) == [i \in 1..n |-> 0]
Filled(b, at, to) == Copied(b, at, Zeros(to - at))

Init ==
    /\ stage = "open"
    /\ compressed = <<>> /\ message = <<>> /\ input = <<>>
    /\ block = Zeros(64)
    /\ used = 0 /\ length = 0

-----------------------------------------------------------------------------
(* update: a part that does not fill the block that was begun; the rest of *)
(* a part that does; a part behind whole blocks.                           *)

Given(part) ==
    /\ stage = "open"
    /\ length' = Wrap(length + Len(part))
    /\ message' = message \o part

Extend(part) ==
    /\ Given(part)
    /\ used # 0 /\ Len(part) < 64 - used
    /\ block' = Copied(block, used, part)
    /\ used' = used + Len(part)
    /\ UNCHANGED <<stage, compressed, input>>

FillBlock(part) ==
    /\ Given(part)
    /\ used # 0 /\ Len(part) >= 64 - used
    /\ block' = Copied(block, used, SubSeq(part, 1, 64 - used))
    /\ compressed' = compressed \o block'
    /\ used' = 0
    /\ input' = SubSeq(part, 65 - used, Len(part))
    /\ stage' = "input"

StartBlock(part) ==
    /\ Given(part)
    /\ used = 0
    /\ input' = part
    /\ stage' = "input"
    /\ UNCHANGED <<compressed, block, used>>

CompressInput ==
    /\ stage = "input"
    /\ Len(input) >= 64
    /\ compressed' = compressed \o SubSeq(input, 1, 64)
    /\ input' = SubSeq(input, 65, Len(input))
    /\ UNCHANGED <<stage, block, used, length, message>>

KeepRest ==
    /\ stage = "input"
    /\ Len(input) < 64
    /\ block' = Copied(block, 0, input)
    /\ used' = Len(input)
    /\ input' = <<>>
    /\ stage' = "open"
    /\ UNCHANGED <<compressed, length, message>>

-----------------------------------------------------------------------------
(* finish *)

to_be_bytes(n) == [i \in 1..8 |-> (n \div 2^(64 - 8 * i)) % 256]

finish ==
    LET marked == Copied(block, used, <<128>>)
        bit_length == to_be_bytes(Wrap(length * 8))
    IN  /\ stage = "open"
        /\ compressed' =
              IF used + 1 > 56
              THEN (compressed \o Filled(marked, used + 1, 64)) \o Copied(Zeros(64), 56, bit_length)
              ELSE compressed \o Copied(Filled(marked, used + 1, 56), 56, bit_length)
        /\ stage' = "done"
        /\ UNCHANGED <<block, used, length, input, message>>

Next ==
    \/ \E part \in Seq(Byte) : Extend(part) \/ FillBlock(part) \/ StartBlock(part)
    \/ CompressInput \/ KeepRest
    \/ finish

Spec == Init /\ [][Next]_vars

-----------------------------------------------------------------------------
(* FIPS 180's padding, and nothing else, for every division of a message   *)
(* into parts: the message, one bit, the fewest zeros that make whole      *)
(* blocks of it with the length in bits at the end.  So digests of parts   *)
(* are digests of the message, also where a part, the mark or the length   *)
(* meets the end of a block.                                               *)
Padded(n) ==
    (message \o <<128>>) \o (Zeros(n) \o to_be_bytes(Wrap(Len(message) * 8)))
PaddedOnce ==
    stage = "done" =>
        \E n \in 0..63 : compressed = Padded(n) /\ Len(compressed) % 64 = 0
=============================================================================
