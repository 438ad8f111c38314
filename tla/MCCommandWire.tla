--------------------------- MODULE MCCommandWire ---------------------------
(* Values of the constants of CommandWire for TLC.                         *)
EXTENDS CommandWire

(* Bytes at the edges of the four characters of a chunk, and characters at *)
(* the ends of kEncodeTable.                                               *)
SomeBytes == {0, 3, 170, 255}
UpTo(S, n) == UNION {[1..k -> S] : k \in 0..n}
ShortInputs == UpTo(SomeBytes, 4)
LongText(a, b) == <<a, 16, 63, 16>> \o <<63, b, Pad, Pad>>
SomeTexts ==
  UpTo({0, 16, 63, Pad, Foreign}, 5)
    \cup {LongText(a, b) : a \in {0, Pad, Foreign}, b \in {16, 17, Pad, Foreign}}

Plain  == << Word(1) >>
Barred == << Word(1), Number(7) >>
SomeNames == {Plain, Barred}

(* In thousandths: 3, 1234.565 and -0.002; 1234575, 0 and 999999.5.        *)
SomeReadings == {<<3000, 1234565, -2>>, <<1234575000, 0, 999999500>>}

SentPayloads == {<<>>, <<123, 125>>}
Stamps == {[id |-> 7, issued |-> 0, ttl |-> 0], [id |-> 0, issued |-> 5, ttl |-> 9],
           [id |-> 8, issued |-> 5, ttl |-> 9]}
SomeSent ==
  {[id |-> s.id, command |-> c, domain |-> c % 8, priority |-> c % 4,
    authority |-> (c + 1) % 5, issued |-> s.issued, ttl |-> s.ttl, payload |-> p] :
     c \in ApiCommands, s \in Stamps, p \in SentPayloads}

(* Numbers around the width of the enumeration, and fields that are none.  *)
OddFields(c, d) ==
  {<<7, c, d, 1, 2, 0, 0>>, <<7, c, d, Junk, 2, 0, 0>>, <<TooBig, c, d, 1, 2, 0, 0>>,
   <<7, c, d, 1, 2>>}
OddLines ==
  {[fields |-> f, text |-> t, input |-> <<>>, of |-> {}] :
     f \in UNION {OddFields(c, d) : c \in {Junk, TooBig, 99, 102, 256, 704, 66240, 65535},
                                    d \in {0, 300}},
     t \in {<<>>, <<16, 16, 16, 16>>, <<16, Foreign, 16, 16>>, <<16, 16>>}}

(* The twelve bytes of a PersistentStateV1 that is calibrated or not, with *)
(* every authority and two bytes that are none; and other texts.           *)
Bits(number) == {k \in 0..7 : (number \div 2 ^ k) % 2 = 1}
OctetsOf(numbers) == [k \in 1..Len(numbers) |-> Bits(numbers[k])]
StateOf(calibrated, authority) ==
  OctetsOf(<<1, 0, 0, 0, 0, 0, 0, 0, calibrated, authority, 0, 0>>)
SomeStates ==
  {StateOf(calibrated, authority) : calibrated \in {0, 1}, authority \in (0..4) \cup {128, 255}}
Digits == OctetsOf(<<49, 50, 51, 52, 53, 54, 55, 56, 57>>)
SomePayloads ==
  (SomeStates \X SomeStates)
    \cup {<<OctetsOf(t), OctetsOf(u)>> : t \in [1..2 -> {0, 1, 255}], u \in [1..2 -> {0, 1, 255}]}
    \cup {<<Digits, Digits>>}

SomeMessages == {<<>>, <<"a">>, <<"a", "|", "a">>, <<"|">>}
=============================================================================
