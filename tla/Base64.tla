------------------------------- MODULE Base64 -------------------------------
(***************************************************************************)
(* utils/Base64.cpp: base64_encode and base64_decode, one turn of a loop   *)
(* per step, on the bytes a caller encodes (Inputs) and on the texts a     *)
(* reader finds in a file (Texts), which need not come from an encoder.    *)
(*                                                                         *)
(* A character of a text is its place in kEncodeTable, Pad for '=', or     *)
(* Foreign for any other.                                                  *)
(***************************************************************************)
EXTENDS Integers, Sequences

CONSTANTS Inputs, Texts

Bytes   == 0..255
Pad     == 64
Foreign == 65
Symbols == 0..65

ASSUME CodecAssumption == Inputs \subseteq Seq(Bytes) /\ Texts \subseteq Seq(Symbols)

VARIABLES
  at,       \* "idle", "encode", "encoded", "decode" or "decoded"
  input,    \* the bytes to encode, or those a text to decode was made of
  text,
  i,        \* i of both loops
  ok,       \* ok of base64_decode
  output    \* out of base64_decode

codecVars == <<at, input, text, i, ok, output>>

EncodeInit == at = "encode" /\ input \in Inputs /\ text = <<>>
DecodeInit == at = "decode" /\ input = <<>> /\ text \in Texts

Init == (EncodeInit \/ DecodeInit) /\ i = 0 /\ ok = TRUE /\ output = <<>>

-----------------------------------------------------------------------------
(* base64_encode.  The bytes of a chunk do not overlap, so | is a sum.     *)

Chunk(a, b, c) == 65536 * a + 256 * b + c
Sixths(chunk) ==
  << (chunk \div 262144) % 64, (chunk \div 4096) % 64, (chunk \div 64) % 64, chunk % 64 >>
First4(chunk, n) == [k \in 1..4 |-> IF k <= n THEN Sixths(chunk)[k] ELSE Pad]

EncodeChunk ==
  /\ at = "encode" /\ i + 2 < Len(input)
  /\ text' = text \o First4(Chunk(input[i + 1], input[i + 2], input[i + 3]), 4)
  /\ i' = i + 3
  /\ UNCHANGED <<at, input, ok, output>>

EncodeRest ==
  LET remaining == Len(input) - i IN
  /\ at = "encode" /\ i + 2 >= Len(input)
  /\ text' = CASE remaining = 1 -> text \o First4(Chunk(input[i + 1], 0, 0), 2)
               [] remaining = 2 -> text \o First4(Chunk(input[i + 1], input[i + 2], 0), 3)
               [] OTHER -> text
  /\ at' = "encoded"
  /\ UNCHANGED <<input, i, ok, output>>

-----------------------------------------------------------------------------
(* base64_decode.  table[] is 0 for '=', wherever it stands, and -1 for a  *)
(* foreign character.                                                      *)

Value(c) == IF c = Pad THEN 0 ELSE c

Joined(j) ==
  262144 * Value(text[j]) + 4096 * Value(text[j + 1])
    + 64 * Value(text[j + 2]) + Value(text[j + 3])

Decoded(j) ==
  << (Joined(j) \div 65536) % 256 >>
  \o (IF text[j + 2] = Pad THEN <<>> ELSE << (Joined(j) \div 256) % 256 >>)
  \o (IF text[j + 3] = Pad THEN <<>> ELSE << Joined(j) % 256 >>)

(* The text just encoded is given to the decoder.                          *)
HandOver ==
  /\ at = "encoded"
  /\ at' = "decode" /\ i' = 0
  /\ UNCHANGED <<input, text, ok, output>>

Reject ==
  /\ at' = "decoded" /\ ok' = FALSE /\ output' = <<>>
  /\ UNCHANGED <<input, text, i>>

RejectLength == at = "decode" /\ Len(text) % 4 # 0 /\ Reject

HasForeign == \E j \in (i + 1)..(i + 4) : text[j] = Foreign

RejectBlock_KeepOutput ==   \* mutant: returns what it has decoded so far
  /\ at = "decode" /\ Len(text) % 4 = 0 /\ i < Len(text) /\ HasForeign
  /\ at' = "decoded" /\ ok' = FALSE
  /\ UNCHANGED <<input, text, i, output>>

RejectBlock ==
  at = "decode" /\ Len(text) % 4 = 0 /\ i < Len(text) /\ HasForeign /\ Reject

DecodeBlock_OnlyLastPad ==   \* mutant: looks for '=' in the last place only
  /\ at = "decode" /\ Len(text) % 4 = 0 /\ i < Len(text) /\ ~HasForeign
  /\ output' = output \o << (Joined(i + 1) \div 65536) % 256, (Joined(i + 1) \div 256) % 256 >>
                 \o (IF text[i + 4] = Pad THEN <<>> ELSE << Joined(i + 1) % 256 >>)
  /\ i' = i + 4
  /\ UNCHANGED <<at, input, text, ok>>

DecodeBlock ==
  /\ at = "decode" /\ Len(text) % 4 = 0 /\ i < Len(text) /\ ~HasForeign
  /\ output' = output \o Decoded(i + 1)
  /\ i' = i + 4
  /\ UNCHANGED <<at, input, text, ok>>

DecodeEnd ==
  /\ at = "decode" /\ Len(text) % 4 = 0 /\ i >= Len(text)
  /\ at' = "decoded"
  /\ UNCHANGED <<input, text, i, ok, output>>

CodecStep ==
  EncodeChunk \/ EncodeRest \/ RejectLength \/ RejectBlock \/ DecodeBlock \/ DecodeEnd

Spec == Init /\ [][CodecStep \/ HandOver]_codecVars

-----------------------------------------------------------------------------
(* The encoding of RFC 4648, place by place, which the standard engine of  *)
(* the Rust base64 crate writes and reads.                                 *)

Byte(s, k) == IF k <= Len(s) THEN s[k] ELSE 0

Sextet(s, j) ==
  LET m == 3 * ((j - 1) \div 4) IN
  CASE (j - 1) % 4 = 0 -> Byte(s, m + 1) \div 4
    [] (j - 1) % 4 = 1 -> 16 * (Byte(s, m + 1) % 4) + Byte(s, m + 2) \div 16
    [] (j - 1) % 4 = 2 -> 4 * (Byte(s, m + 2) % 16) + Byte(s, m + 3) \div 64
    [] (j - 1) % 4 = 3 -> Byte(s, m + 3) % 64

Standard(s) ==
  [j \in 1..(4 * ((Len(s) + 2) \div 3)) |->
     IF 6 * (j - 1) < 8 * Len(s) THEN Sextet(s, j) ELSE Pad]

-----------------------------------------------------------------------------
(* Properties *)

CodecTypeOK ==
  /\ at \in {"idle", "encode", "encoded", "decode", "decoded"}
  /\ input \in Seq(Bytes) /\ text \in Seq(Symbols) /\ output \in Seq(Bytes)
  /\ i \in Nat /\ ok \in BOOLEAN

(* base64_encode writes the standard encoding, which is what a Rust client *)
(* decodes the payloads of T lines as; and base64_decode gives back the    *)
(* bytes of every standard encoding: the payload of a command reaches its  *)
(* handler as the client gave it.                                          *)
CodecIsStandard ==
  /\ at = "encoded" => text = Standard(input)
  /\ at = "decoded" /\ text = Standard(input) => ok /\ output = input

(* A text is refused as a whole: pump_rx submits a command whose payload   *)
(* does not decode, and its handler must not see a part of the payload.    *)
(* Refused are a length that is no multiple of four and a foreign          *)
(* character; of the texts that are accepted all but two kinds are the     *)
(* standard encoding of what is returned: those with a '=' out of place,   *)
(* and those with bits behind the last byte, both of which the Rust crate  *)
(* refuses.                                                                *)
PadAstray(t) ==
  \E k \in 1..Len(t) :
    t[k] = Pad /\ (k + 1 < Len(t) \/ (k + 1 = Len(t) /\ t[k + 1] # Pad))

SpareBits(t) ==
  LET n == Len(t) IN
  /\ n > 0
  /\ \/ t[n] = Pad /\ t[n - 1] # Pad /\ t[n - 1] % 4 # 0
     \/ t[n] = Pad /\ t[n - 1] = Pad /\ t[n - 2] % 16 # 0

RefusedWhole ==
  at = "decoded" =>
    /\ ok <=> Len(text) % 4 = 0 /\ \A j \in 1..Len(text) : text[j] # Foreign
    /\ ~ok => output = <<>>
    /\ ok => text = Standard(output) \/ PadAstray(text) \/ SpareBits(text)
=============================================================================
