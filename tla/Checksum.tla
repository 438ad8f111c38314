------------------------------ MODULE Checksum ------------------------------
(***************************************************************************)
(* crc32_ieee of core/StateStore.cpp, one turn of its inner loop per step, *)
(* run on two payloads of one length side by side: the state that save     *)
(* reads for the checksum, and the one it reads again for the file.        *)
(* StateStore rests on their checksums differing whenever they do.         *)
(*                                                                         *)
(* A word is the set of the bits that are 1 in it, bit 0 the lowest.       *)
(***************************************************************************)
EXTENDS Integers, Sequences

CONSTANT Payloads   \* pairs of payloads

Octets == SUBSET (0..7)
Words  == SUBSET (0..31)
Sides  == {1, 2}

ASSUME ChecksumAssumption ==
  \A p \in Payloads :
    /\ p[1] \in Seq(Octets) /\ p[2] \in Seq(Octets)
    /\ Len(p[1]) = Len(p[2])

VARIABLES
  data,   \* the two payloads
  taken,  \* i of the outer loop: bytes taken in
  turn,   \* b of the inner loop, 8 when it has ended
  crc     \* crc of each payload

checksumVars == <<data, taken, turn, crc>>

Xor(v, w) == (v \ w) \cup (w \ v)
Not(v) == (0..31) \ v
ShiftRight(v) == {k - 1 : k \in v \ {0}}

Polynomial == {5, 8, 9, 15, 19, 20, 21, 23, 24, 26, 27, 29, 30, 31}   \* 0xEDB88320

ChecksumInit ==
  /\ data \in Payloads /\ taken = 0 /\ turn = 8
  /\ crc = [s \in Sides |-> 0..31]

TakeByte_Assign ==   \* mutant: crc = data[i]
  /\ turn = 8 /\ taken < Len(data[1])
  /\ crc' = [s \in Sides |-> data[s][taken + 1]]
  /\ taken' = taken + 1 /\ turn' = 0
  /\ UNCHANGED data

TakeByte ==
  /\ turn = 8 /\ taken < Len(data[1])
  /\ crc' = [s \in Sides |-> Xor(crc[s], data[s][taken + 1])]
  /\ taken' = taken + 1 /\ turn' = 0
  /\ UNCHANGED data

Turned_Straight(v) ==   \* mutant: 0x04C11DB7, the polynomial the other way round
  Xor(ShiftRight(v), IF 0 \in v THEN {31 - k : k \in Polynomial} ELSE {})

Turned(v) == Xor(ShiftRight(v), IF 0 \in v THEN Polynomial ELSE {})

TurnBit ==
  /\ turn < 8
  /\ crc' = [s \in Sides |-> Turned(crc[s])]
  /\ turn' = turn + 1
  /\ UNCHANGED <<data, taken>>

ChecksumStep == TakeByte \/ TurnBit

ChecksumSpec == ChecksumInit /\ [][ChecksumStep]_checksumVars

Summed == turn = 8 /\ taken = Len(data[1])

-----------------------------------------------------------------------------
(* CRC-32 of IEEE 802.3 as it is defined: the bits of the message, low bit *)
(* of each byte first, are the coefficients of a polynomial from the       *)
(* highest down, of which the first 32 are inverted; the inverted          *)
(* remainder of its division by Generator, highest coefficient in bit 0.   *)

Generator == {0, 1, 2, 4, 5, 7, 8, 10, 11, 12, 16, 22, 23, 26, 32}

Dividend(s) ==
  Xor(UNION {{8 * (Len(s) - j) + 39 - k : k \in s[j]} : j \in 1..Len(s)},
      {8 * Len(s) + k : k \in 0..31})

Reduced(e, top) ==   \* one turn of the division, at the coefficient top
  IF top \in e THEN Xor(e, {g + top - 32 : g \in Generator}) ELSE e

Division(s) ==   \* the coefficients after each number of turns
  LET divided[m \in Nat] ==
        IF m = 0 THEN Dividend(s) ELSE Reduced(divided[m - 1], 8 * Len(s) + 32 - m)
  IN divided

Remainder(s) == Division(s)[8 * Len(s)]

CRC32(s) == Not({31 - k : k \in Remainder(s)})

-----------------------------------------------------------------------------
(* Properties *)

(* Types: crc stays a word of 32 bits, and both loops in their bounds.     *)
ChecksumTypeOK ==
  /\ \A s \in Sides : data[s] \in Seq(Octets)
  /\ Len(data[1]) = Len(data[2])
  /\ taken \in 0..Len(data[1]) /\ turn \in 0..8
  /\ crc \in [Sides -> Words]

(* crc32_ieee computes the checksum it is named for, so that any other     *)
(* program can verify state.bin.                                           *)
IsCRC32 == Summed => \A s \in Sides : Not(crc[s]) = CRC32(data[s])

(* A file whose payload is not the state its checksum was made from does   *)
(* not load: the checksums of two states the program can hold differ.      *)
ToldApart == Summed /\ data[1] # data[2] => crc[1] # crc[2]
=============================================================================
