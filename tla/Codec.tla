-------------------------------- MODULE Codec --------------------------------
(***************************************************************************)
(* The decoding half of client.go: from the text of a reply to the value   *)
(* that a task sees.                                                       *)
(*                                                                         *)
(* A byte is a number below Byte (256 in the code), a word has Word bytes  *)
(* (32), a Go uint64 is the low Small bytes of a number (8) and an address *)
(* the last Addr bytes of a word (20): the code is the same for every      *)
(* size, and TLC looks at small ones.  A character of a reply is the value *)
(* of its digit, or NoDigit.                                               *)
(***************************************************************************)
EXTENDS Integers, Sequences, SequencesExt

CONSTANTS Byte, Word, Small, Addr, Digit    \* Digit * Digit = Byte: two digits a byte

ASSUME CodecAssumption ==
    /\ Digit \in Nat \ {0, 1} /\ Byte = Digit * Digit
    /\ Word \in Nat /\ Small \in 1..Word /\ Addr \in 1..Word

NoDigit == -1           \* hexNibble of a character that is no digit
Refused == <<-1>>       \* an error is returned instead of the values
Panic == <<-2>>         \* a slice beyond the end of the reply

\* big.Int.SetBytes: big-endian, of any length.
Number(bytes) ==
    LET upto[i \in 0..Len(bytes)] == IF i = 0 THEN 0 ELSE upto[i - 1] * Byte + bytes[i]
    IN upto[Len(bytes)]

\* Byte^n, in a form that can be reasoned about.
Pow(n) ==
    LET power[i \in 0..n] == IF i = 0 THEN 1 ELSE Byte * power[i - 1]
    IN power[n]
Uint64(n) == n % Pow(Small)

-----------------------------------------------------------------------------
(* Text to bytes.                                                           *)

\* Mutated form: what a reply of odd length says is read up to its last digit.
HexToBytesTruncates(text) ==
    IF NoDigit \in ToSet(text) THEN <<>>
    ELSE [i \in 1..(Len(text) \div 2) |-> Digit * text[2 * i - 1] + text[2 * i]]

\* nil, no bytes and no error, for an odd number of digits or a bad one.
HexToBytes(text) ==
    IF Len(text) % 2 = 1 \/ NoDigit \in ToSet(text) THEN <<>>
    ELSE [i \in 1..(Len(text) \div 2) |-> Digit * text[2 * i - 1] + text[2 * i]]

BytesToHex(bytes) ==
    [i \in 1..(2 * Len(bytes)) |->
        IF i % 2 = 1 THEN bytes[(i + 1) \div 2] \div Digit ELSE bytes[i \div 2] % Digit]

-----------------------------------------------------------------------------
(* Bytes to values.                                                         *)

GetUint(out) == Number(out)

\* Mutated form: the smallest number is taken for a positive one.
GetIntStrict(out) ==
    IF 2 * Number(out) > Pow(Word) THEN Number(out) - Pow(Word) ELSE Number(out)

\* Two's complement, if bit 255 is set.
GetInt(out) ==
    IF (2 * Number(out)) \div Pow(Word) % 2 = 1 THEN Number(out) - Pow(Word) ELSE Number(out)

GetBool(out) == out # <<>> /\ Last(out) # 0
GetCount(out) == Uint64(Number(out))

LatestUpdatedAt(out) ==
    IF Len(out) < 4 * Word THEN Refused
    ELSE <<Uint64(Number(SubSeq(out, 3 * Word + 1, 4 * Word)))>>

\* Mutated form: the address is taken from the left of its slot.
SlotLeft(body, i) == Number(SubSeq(body, (i - 1) * Word + 1, (i - 1) * Word + Addr))

\* common.BytesToAddress(slot[12:])
Slot(body, i) == Number(SubSeq(body, i * Word - Addr + 1, i * Word))

\* The length of the array and its slots, if the offset is inside the reply.
ArrayAt(out, offset) ==
    LET length == Uint64(Number(SubSeq(out, offset + 1, offset + Word)))
        body == SubSeq(out, offset + Word + 1, Len(out))
    IN IF Len(body) < Uint64(length * Word) THEN Refused
       ELSE IF Len(body) < length * Word THEN Panic
       ELSE [i \in 1..length |-> Slot(body, i)]

\* The sum and the product are those of uint64.  A slice that they wrongly let pass is
\* out of range; a length they wrongly let pass runs out of body.
DecodeAddressArray(out) ==
    LET offset == Uint64(Number(SubSeq(out, 1, Word)))
    IN IF Len(out) < 2 * Word THEN <<>>
       ELSE IF Len(out) < Uint64(offset + Word) THEN Refused
       ELSE IF Len(out) < offset + Word THEN Panic
       ELSE ArrayAt(out, offset)

-----------------------------------------------------------------------------
(* Values to bytes, for the call.                                           *)

Bytes(n, width) == [i \in 1..width |-> (n \div Pow(width - i)) % Byte]

PadUint(v) == Bytes(v, Word)

=============================================================================
