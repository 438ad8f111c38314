-------------------------- MODULE CommandWireProofs --------------------------
(***************************************************************************)
(* What the files of the core say, for payloads, messages, frames and      *)
(* states of every size: the checksum of state.bin, the T line, the line   *)
(* of a command and that of its result.                                    *)
(*                                                                         *)
(* Two payloads that differ in one byte have different checksums.  One     *)
(* turn of the inner loop loses nothing: a word can be told from what it   *)
(* is turned into, because the polynomial has bit 31 and a word shifted    *)
(* right has not.  So once the words of two payloads differ, equal bytes   *)
(* keep them different.                                                    *)
(***************************************************************************)
EXTENDS CommandWire, Base64Proofs, DataLemmas

-----------------------------------------------------------------------------
(* Words *)

LEMMA XorType ==
  ASSUME NEW v \in Words, NEW w \in Words
  PROVE  Xor(v, w) \in Words
BY DEF Words, Xor

LEMMA XorInjective ==
  ASSUME NEW v \in Words, NEW w \in Words, NEW u \in Words,
         Xor(v, u) = Xor(w, u) \/ Xor(u, v) = Xor(u, w)
  PROVE  v = w
<1>1. ASSUME NEW k \in 0..31 PROVE k \in v <=> k \in w
  <2>1. (k \in Xor(v, u) <=> k \in Xor(w, u)) \/ (k \in Xor(u, v) <=> k \in Xor(u, w))
    OBVIOUS
  <2> QED BY <2>1 DEF Xor
<1> QED BY <1>1 DEF Words

LEMMA ShiftType ==
  ASSUME NEW v \in Words
  PROVE  ShiftRight(v) \in SUBSET (0..30)
BY SMT DEF Words, ShiftRight

LEMMA PolynomialType == Polynomial \in Words /\ 31 \in Polynomial
BY SMT DEF Polynomial, Words

(* A shift loses bit 0 alone.                                              *)
LEMMA ShiftInjective ==
  ASSUME NEW v \in Words, NEW w \in Words, ShiftRight(v) = ShiftRight(w), 0 \in v <=> 0 \in w
  PROVE  v = w
<1>1. ASSUME NEW x \in Words, NEW k \in 1..31 PROVE k \in x <=> k - 1 \in ShiftRight(x)
  BY SMT DEF Words, ShiftRight
<1>2. ASSUME NEW k \in 0..31 PROVE k \in v <=> k \in w
  <2>1. CASE k = 0
    BY <2>1
  <2>2. CASE k \in 1..31
    BY <1>1, <2>2
  <2> QED BY <2>1, <2>2
<1> QED BY <1>2 DEF Words

LEMMA TurnedType ==
  ASSUME NEW v \in Words
  PROVE  Turned(v) \in Words
<1>1. ShiftRight(v) \in Words /\ Polynomial \in Words /\ {} \in Words
  BY ShiftType, PolynomialType DEF Words
<1> QED BY <1>1, XorType DEF Turned

(* Bit 31 of a turned word is bit 0 of the word.                           *)
LEMMA TurnedTop ==
  ASSUME NEW v \in Words
  PROVE  31 \in Turned(v) <=> 0 \in v
<1>1. 31 \notin ShiftRight(v)
  BY ShiftType
<1> QED BY <1>1, PolynomialType DEF Turned, Xor

LEMMA TurnedInjective ==
  ASSUME NEW v \in Words, NEW w \in Words, Turned(v) = Turned(w)
  PROVE  v = w
<1>1. 0 \in v <=> 0 \in w
  BY TurnedTop
<1> DEFINE u == IF 0 \in v THEN Polynomial ELSE {}
<1>2. u \in Words /\ ShiftRight(v) \in Words /\ ShiftRight(w) \in Words
  BY ShiftType, PolynomialType DEF Words
<1>3. Xor(ShiftRight(v), u) = Xor(ShiftRight(w), u)
  BY <1>1 DEF Turned
<1> HIDE DEF u
<1>4. ShiftRight(v) = ShiftRight(w)
  BY <1>2, <1>3, XorInjective
<1> QED BY <1>1, <1>4, ShiftInjective

-----------------------------------------------------------------------------
(* Types *)

LEMMA ChecksumInitially == ChecksumInit => ChecksumTypeOK
<1> SUFFICES ASSUME ChecksumInit PROVE ChecksumTypeOK
  OBVIOUS
<1>1. data[1] \in Seq(Octets) /\ data[2] \in Seq(Octets) /\ Len(data[1]) = Len(data[2])
  BY ChecksumAssumption DEF ChecksumInit
<1>2. Len(data[1]) \in Nat
  BY <1>1
<1>3. crc \in [Sides -> Words]
  BY DEF ChecksumInit, Words
<1> QED BY <1>1, <1>2, <1>3 DEF ChecksumInit, ChecksumTypeOK, Sides

LEMMA TakeByteTypes ==
  ASSUME ChecksumTypeOK, TakeByte
  PROVE  /\ ChecksumTypeOK'
         /\ taken + 1 \in 1..Len(data[1])
         /\ \A s \in Sides : data[s][taken + 1] \in Words
<1>1. /\ \A s \in Sides : data[s] \in Seq(Octets) /\ crc[s] \in Words
      /\ taken \in Nat /\ Len(data[1]) \in Nat /\ Len(data[1]) = Len(data[2])
  BY DEF ChecksumTypeOK, Sides
<1>2. taken + 1 \in 1..Len(data[1]) /\ taken + 1 \in 0..Len(data[1])
  BY <1>1 DEF TakeByte
<1>3. ASSUME NEW s \in Sides PROVE data[s][taken + 1] \in Words
  <2>1. Len(data[s]) = Len(data[1])
    BY <1>1 DEF Sides
  <2>2. data[s][taken + 1] \in Octets
    BY <1>1, <1>2, <2>1
  <2> QED BY <2>2 DEF Octets, Words
<1>4. \A s \in Sides : Xor(crc[s], data[s][taken + 1]) \in Words
  BY <1>1, <1>3, XorType
<1>5. crc' \in [Sides -> Words]
  BY <1>4 DEF TakeByte
<1> QED BY <1>2, <1>3, <1>5 DEF ChecksumTypeOK, TakeByte

LEMMA TurnBitTypes ==
  ASSUME ChecksumTypeOK, TurnBit
  PROVE  ChecksumTypeOK' /\ \A s \in Sides : crc[s] \in Words
<1>1. \A s \in Sides : crc[s] \in Words /\ Turned(crc[s]) \in Words
  BY TurnedType DEF ChecksumTypeOK
<1>2. crc' \in [Sides -> Words]
  BY <1>1 DEF TurnBit
<1> QED BY <1>1, <1>2 DEF ChecksumTypeOK, TurnBit

(* The checksum stays a word of 32 bits, however long the payload is.      *)
THEOREM ChecksumTypes == ChecksumSpec => []ChecksumTypeOK
<1>1. ChecksumTypeOK /\ [ChecksumStep]_checksumVars => ChecksumTypeOK'
  BY TakeByteTypes, TurnBitTypes DEF ChecksumStep, checksumVars, ChecksumTypeOK
<1> QED BY <1>1, ChecksumInitially, PTL DEF ChecksumSpec

-----------------------------------------------------------------------------
(* Payloads that differ in one byte *)

(* While the threads run, only last_authority of the state is assigned.    *)
OneByteAtMost ==
  \A p \in Payloads : \A j, k \in 1..Len(p[1]) :
    p[1][j] # p[2][j] /\ p[1][k] # p[2][k] => j = k

Differ == \E j \in 1..taken : data[1][j] # data[2][j]

ApartInv ==
  /\ ChecksumTypeOK
  /\ data \in Payloads
  /\ Differ <=> crc[1] # crc[2]

LEMMA TakeByteApart ==
  ASSUME OneByteAtMost, ApartInv, TakeByte
  PROVE  ApartInv'
<1> DEFINE n == taken + 1
           x == data[1][n]
           y == data[2][n]
<1>1. /\ ChecksumTypeOK' /\ n \in 1..Len(data[1]) /\ x \in Words /\ y \in Words
      /\ crc[1] \in Words /\ crc[2] \in Words /\ taken \in Nat /\ Len(data[1]) \in Nat
  BY TakeByteTypes DEF ApartInv, ChecksumTypeOK, Sides
<1>2. crc'[1] = Xor(crc[1], x) /\ crc'[2] = Xor(crc[2], y) /\ taken' = n /\ data' = data
  BY DEF TakeByte, Sides
<1>3. Differ' <=> Differ \/ x # y
  <2>1. \A j : j \in 1..n <=> j \in 1..taken \/ j = n
    BY <1>1
  <2> QED BY <1>2, <2>1 DEF Differ
<1>4. ~(Differ /\ x # y)
  <2> SUFFICES ASSUME NEW j \in 1..taken, data[1][j] # data[2][j], x # y PROVE FALSE
    BY DEF Differ
  <2>1. j \in 1..Len(data[1]) /\ j # n
    BY <1>1
  <2> QED BY <1>1, <2>1 DEF OneByteAtMost, ApartInv
<1> HIDE DEF n, x, y
<1>5. CASE x = y
  <2>1. crc'[1] = crc'[2] <=> crc[1] = crc[2]
    BY <1>1, <1>2, <1>5, XorInjective
  <2> QED BY <1>1, <1>2, <1>3, <1>5, <2>1 DEF ApartInv
<1>6. CASE x # y
  <2>1. crc[1] = crc[2]
    BY <1>4, <1>6 DEF ApartInv
  <2>2. crc'[1] # crc'[2]
    BY <1>1, <1>2, <1>6, <2>1, XorInjective
  <2> QED BY <1>1, <1>2, <1>3, <1>6, <2>2 DEF ApartInv
<1> QED BY <1>5, <1>6

LEMMA TurnBitApart ==
  ASSUME ApartInv, TurnBit
  PROVE  ApartInv'
<1>1. ChecksumTypeOK' /\ crc[1] \in Words /\ crc[2] \in Words
  BY TurnBitTypes DEF ApartInv, Sides
<1>2. crc'[1] = Turned(crc[1]) /\ crc'[2] = Turned(crc[2]) /\ taken' = taken /\ data' = data
  BY DEF TurnBit, Sides
<1>3. crc'[1] = crc'[2] <=> crc[1] = crc[2]
  BY <1>1, <1>2, TurnedInjective
<1> QED BY <1>1, <1>2, <1>3 DEF ApartInv, Differ

(* If the state changes by one assignment to last_authority between the    *)
(* two reads of save, the checksum in the file is not that of its payload, *)
(* so that load refuses the file: for a state of every size.               *)
THEOREM ToldApartHolds ==
  ASSUME OneByteAtMost
  PROVE  ChecksumSpec => []ToldApart
<1>1. ChecksumInit => ApartInv
  <2> SUFFICES ASSUME ChecksumInit PROVE ApartInv
    OBVIOUS
  <2>1. crc[1] = crc[2] /\ ~Differ
    BY DEF ChecksumInit, Sides, Differ
  <2> QED BY <2>1, ChecksumInitially DEF ChecksumInit, ApartInv
<1>2. ApartInv /\ [ChecksumStep]_checksumVars => ApartInv'
  <2> SUFFICES ASSUME ApartInv, [ChecksumStep]_checksumVars PROVE ApartInv'
    OBVIOUS
  <2>1. CASE TakeByte
    BY <2>1, TakeByteApart
  <2>2. CASE TurnBit
    BY <2>2, TurnBitApart
  <2>3. CASE UNCHANGED checksumVars
    BY <2>3 DEF checksumVars, ApartInv, ChecksumTypeOK, Differ
  <2> QED BY <2>1, <2>2, <2>3 DEF ChecksumStep
<1>3. ApartInv => ToldApart
  <2> SUFFICES ASSUME ApartInv, Summed, data[1] # data[2] PROVE crc[1] # crc[2]
    BY DEF ToldApart
  <2>1. data[1] \in Seq(Octets) /\ data[2] \in Seq(Octets) /\ Len(data[1]) = Len(data[2])
    BY DEF ApartInv, ChecksumTypeOK, Sides
  <2>2. \E j \in 1..Len(data[1]) : data[1][j] # data[2][j]
    BY <2>1, SeqEqual
  <2> QED BY <2>2 DEF ApartInv, Differ, Summed
<1> QED BY <1>1, <1>2, <1>3, PTL DEF ChecksumSpec

-----------------------------------------------------------------------------
(* The checksum is CRC-32.  After m turns the coefficients of the division *)
(* are those of the bytes not yet taken, and above them those of crc, bit  *)
(* 0 the highest.                                                          *)

Mirror(base, v) == {base - k : k \in v}
Ahead(s, n) == UNION {Mirror(8 * (Len(s) - j) + 39, s[j]) : j \in (n + 1)..Len(s)}
Turns == 8 * taken + turn - 8

Dividing(s, v) == Division(s)[Turns] = Xor(Ahead(s, taken), Mirror(8 * Len(s) + 31 - Turns, v))

DivisionInv ==
  /\ ChecksumTypeOK
  /\ taken = 0 => turn = 8
  /\ \A s \in Sides : Dividing(data[s], crc[s])

LEMMA XorIn ==
  ASSUME NEW v, NEW w, NEW x
  PROVE  x \in Xor(v, w) <=> ~ (x \in v <=> x \in w)
BY DEF Xor

LEMMA MirrorIn ==
  ASSUME NEW base \in Int, NEW v \in SUBSET Int, NEW x \in Int
  PROVE  x \in Mirror(base, v) <=> base - x \in v
BY DEF Mirror

LEMMA MirrorType ==
  ASSUME NEW base \in Int, NEW v \in SUBSET Int
  PROVE  Mirror(base, v) \in SUBSET Int
BY DEF Mirror

LEMMA SetEqual ==
  ASSUME NEW v \in SUBSET Int, NEW w \in SUBSET Int, \A x \in Int : x \in v <=> x \in w
  PROVE  v = w
OBVIOUS

LEMMA XorInts ==
  ASSUME NEW v \in SUBSET Int, NEW w \in SUBSET Int
  PROVE  Xor(v, w) \in SUBSET Int
BY DEF Xor

LEMMA ByteOf ==
  ASSUME NEW s \in Seq(Octets), NEW j \in 1..Len(s)
  PROVE  s[j] \in SUBSET (0..7) /\ Len(s) \in Nat /\ j \in Int
BY ElementOfSeq DEF Octets

LEMMA AheadIn ==
  ASSUME NEW s \in Seq(Octets), NEW n \in Nat, NEW x \in Int
  PROVE  x \in Ahead(s, n) <=>
           \E j \in (n + 1)..Len(s) : 8 * (Len(s) - j) + 39 - x \in s[j]
<1> DEFINE F(j) == Mirror(8 * (Len(s) - j) + 39, s[j])
<1>1. ASSUME NEW j \in (n + 1)..Len(s)
      PROVE  x \in F(j) <=> 8 * (Len(s) - j) + 39 - x \in s[j]
  <2>1. j \in 1..Len(s)
    OBVIOUS
  <2>2. s[j] \in SUBSET Int /\ Len(s) \in Int /\ j \in Int
    BY <2>1, ByteOf
  <2>3. PICK a \in Int : a = 8 * (Len(s) - j)
    BY <2>2
  <2>4. x \in Mirror(a + 39, s[j]) <=> (a + 39) - x \in s[j]
    BY <2>2, MirrorIn
  <2>5. (a + 39) - x = a + 39 - x
    OBVIOUS
  <2>6. x \in Mirror(a + 39, s[j]) <=> a + 39 - x \in s[j]
    BY <2>4, <2>5
  <2> QED BY <2>3, <2>6, Zenon
<1>2. Ahead(s, n) = UNION {F(j) : j \in (n + 1)..Len(s)}
  BY DEF Ahead
<1> HIDE DEF F
<1> QED BY <1>1, <1>2

LEMMA AheadType ==
  ASSUME NEW s \in Seq(Octets), NEW n \in Nat
  PROVE  Ahead(s, n) \in SUBSET Int
<1>1. ASSUME NEW j \in (n + 1)..Len(s)
      PROVE  Mirror(8 * (Len(s) - j) + 39, s[j]) \in SUBSET Int
  BY ByteOf, MirrorType
<1> QED BY <1>1 DEF Ahead

LEMMA GeneratorMirrors ==
  /\ Generator \in SUBSET (0..32) /\ 32 \in Generator
  /\ \A g \in 0..31 : g \in Generator <=> 31 - g \in Polynomial
BY SMT DEF Generator, Polynomial

LEMMA DividendType ==
  ASSUME NEW s \in Seq(Octets)
  PROVE  /\ Dividend(s) = Xor(Ahead(s, 0), {8 * Len(s) + k : k \in 0..31})
         /\ Dividend(s) \in SUBSET Int
<1>1. Len(s) \in Nat
  OBVIOUS
<1>2. Dividend(s) = Xor(Ahead(s, 0), {8 * Len(s) + k : k \in 0..31})
  <2> DEFINE F(j) == {8 * (Len(s) - j) + 39 - k : k \in s[j]}
             G(j) == Mirror(8 * (Len(s) - j) + 39, s[j])
  <2>1. ASSUME NEW j \in 1..Len(s) PROVE F(j) = G(j)
    <3>1. s[j] \in SUBSET Int /\ j \in Int
      BY ByteOf
    <3>2. \A a, k \in Int : a + 39 - k = (a + 39) - k
      OBVIOUS
    <3>3. 8 * (Len(s) - j) \in Int
      BY <1>1, <3>1
    <3>4. \A k \in s[j] : 8 * (Len(s) - j) + 39 - k = (8 * (Len(s) - j) + 39) - k
      BY <3>1, <3>2, <3>3
    <3> QED BY <3>4 DEF Mirror
  <2>2. (0 + 1)..Len(s) = 1..Len(s)
    OBVIOUS
  <2>3. Ahead(s, 0) = UNION {G(j) : j \in (0 + 1)..Len(s)}
    BY DEF Ahead
  <2>4. Dividend(s) = Xor(UNION {F(j) : j \in 1..Len(s)}, {8 * Len(s) + k : k \in 0..31})
    BY DEF Dividend
  <2>5. UNION {F(j) : j \in 1..Len(s)} = UNION {G(j) : j \in 1..Len(s)}
    <3> HIDE DEF F, G
    <3> QED BY <2>1
  <2> HIDE DEF F, G
  <2> QED BY <2>2, <2>3, <2>4, <2>5
<1>3. \A k \in 0..31 : 8 * Len(s) + k \in Int
  BY <1>1
<1>4. {8 * Len(s) + k : k \in 0..31} \in SUBSET Int
  BY <1>3
<1> QED BY <1>2, <1>4, <1>3, AheadType, XorInts

LEMMA ReducedType ==
  ASSUME NEW e \in SUBSET Int, NEW top \in Int
  PROVE  Reduced(e, top) \in SUBSET Int
<1>1. {g + top - 32 : g \in Generator} \in SUBSET Int
  BY GeneratorMirrors
<1> QED BY <1>1, XorInts DEF Reduced

LEMMA DivisionTurns ==
  ASSUME NEW s \in Seq(Octets)
  PROVE  /\ Division(s) \in [Nat -> SUBSET Int]
         /\ Division(s)[0] = Dividend(s)
         /\ \A m \in Nat : Division(s)[m + 1] = Reduced(Division(s)[m], 8 * Len(s) + 31 - m)
<1> DEFINE S == SUBSET Int
           L == Len(s)
           step == [p \in Nat \X S |-> Reduced(p[2], 8 * L + 31 - p[1])]
           Def(g) == [m \in Nat |-> IF m = 0 THEN Dividend(s)
                                    ELSE Reduced(g[m - 1], 8 * L + 32 - m)]
<1>1. L \in Nat /\ Dividend(s) \in S
  <2>1. L \in Nat
    OBVIOUS
  <2> QED BY <2>1, DividendType
<1>2. step \in [Nat \X S -> S]
  <2>1. \A p \in Nat \X S : p[2] \in S /\ 8 * L + 31 - p[1] \in Int
    BY <1>1
  <2> QED BY <2>1, ReducedType
<1>3. PICK f : Unrolls(f, S, Dividend(s), step)
  <2> HIDE DEF S, step
  <2> QED BY <1>1, <1>2, Recursion
<1>4. f \in [Nat -> S] /\ f[0] = Dividend(s)
      /\ \A m \in Nat : f[m + 1] = Reduced(f[m], 8 * L + 31 - m)
  BY <1>3 DEF Unrolls
<1>5. f = Def(f)
  <2>1. ASSUME NEW m \in Nat, m # 0 PROVE f[m] = Reduced(f[m - 1], 8 * L + 32 - m)
    <3>1. m - 1 \in Nat /\ (m - 1) + 1 = m /\ 8 * L + 31 - (m - 1) = 8 * L + 32 - m
      BY <1>1, <2>1
    <3> QED BY <1>4, <3>1
  <2> QED BY <1>4, <2>1
<1>6. Division(s) = CHOOSE g : g = Def(g)
  BY DEF Division
<1>7. Division(s) = Def(Division(s))
  <2> HIDE DEF Def
  <2> QED BY <1>5, <1>6
<1> DEFINE D == Division(s)
<1>8. D = [m \in Nat |-> IF m = 0 THEN Dividend(s) ELSE Reduced(D[m - 1], 8 * L + 32 - m)]
  BY <1>7
<1> HIDE DEF D, step, Def
<1>9. D[0] = Dividend(s)
  BY <1>8
<1>10. ASSUME NEW m \in Nat PROVE D[m + 1] = Reduced(D[m], 8 * L + 31 - m)
  <2>1. m + 1 \in Nat /\ m + 1 # 0 /\ (m + 1) - 1 = m /\ 8 * L + 32 - (m + 1) = 8 * L + 31 - m
    BY <1>1
  <2>2. D[m + 1] = Reduced(D[(m + 1) - 1], 8 * L + 32 - (m + 1))
    BY <1>8, <2>1
  <2> QED BY <2>1, <2>2
<1>11. D \in [Nat -> S]
  <2> DEFINE P == {m \in Nat : D[m] \in S}
  <2>1. 0 \in P
    BY <1>1, <1>9
  <2>2. \A m \in Nat : m \in P => m + 1 \in P
    <3> HIDE DEF S
    <3>1. ASSUME NEW m \in Nat, D[m] \in S PROVE D[m + 1] \in S
      <4>1. 8 * L + 31 - m \in Int
        BY <1>1
      <4> QED BY <1>10, <3>1, <4>1, ReducedType DEF S
    <3> QED BY <3>1
  <2>3. Nat \subseteq P
    <3> HIDE DEF P
    <3> QED BY <2>1, <2>2, Induction
  <2> HIDE DEF S
  <2> QED BY <1>8, <2>3
<1> QED BY <1>9, <1>10, <1>11 DEF D

LEMMA DivisionInit == ChecksumInit => DivisionInv
<1> SUFFICES ASSUME ChecksumInit PROVE DivisionInv
  OBVIOUS
<1>1. ChecksumTypeOK /\ taken = 0 /\ turn = 8 /\ Turns = 0
  BY ChecksumInitially DEF ChecksumInit, Turns
<1>2. ASSUME NEW s \in Sides PROVE Dividing(data[s], crc[s])
  <2>1. data[s] \in Seq(Octets) /\ crc[s] = 0..31
    BY <1>1, <1>2 DEF ChecksumTypeOK, ChecksumInit
  <2> DEFINE L == Len(data[s])
  <2>2. L \in Nat
    BY <2>1
  <2> HIDE DEF L
  <2>3. {8 * L + k : k \in 0..31} = Mirror(8 * L + 31, 0..31)
    <3>1. \A x \in Int : x \in {8 * L + k : k \in 0..31} <=> x \in Mirror(8 * L + 31, 0..31)
      <4> SUFFICES ASSUME NEW x \in Int
                   PROVE  x \in {8 * L + k : k \in 0..31} <=> x \in Mirror(8 * L + 31, 0..31)
        OBVIOUS
      <4>1. x \in Mirror(8 * L + 31, 0..31) <=> 8 * L + 31 - x \in 0..31
        BY <2>2, MirrorIn
      <4>2. x \in {8 * L + k : k \in 0..31} <=> x - 8 * L \in 0..31
        BY <2>2
      <4> QED BY <2>2, <4>1, <4>2
    <3>2. {8 * L + k : k \in 0..31} \in SUBSET Int
      <4>1. \A k \in 0..31 : 8 * L + k \in Int
        BY <2>2
      <4> QED BY <4>1
    <3>3. Mirror(8 * L + 31, 0..31) \in SUBSET Int
      BY <2>2, MirrorType
    <3> QED BY <3>1, <3>2, <3>3
  <2>4. Division(data[s])[0] = Dividend(data[s])
    BY <2>1, DivisionTurns
  <2>5. Dividend(data[s]) = Xor(Ahead(data[s], 0), {8 * L + k : k \in 0..31})
    BY <2>1, DividendType DEF L
  <2>6. 8 * L + 31 - 0 = 8 * L + 31
    BY <2>2
  <2> QED BY <1>1, <2>1, <2>3, <2>4, <2>5, <2>6 DEF Dividing, L
<1> QED BY <1>1, <1>2 DEF DivisionInv

(* The bits of a byte taken in leave those ahead and enter crc: the        *)
(* coefficients are the same.                                              *)
LEMMA TakingKeeps ==
  ASSUME NEW s \in Seq(Octets), NEW n \in 1..Len(s), NEW v \in Words
  PROVE  Xor(Ahead(s, n - 1), Mirror(8 * Len(s) + 39 - 8 * n, v))
           = Xor(Ahead(s, n), Mirror(8 * Len(s) + 39 - 8 * n, Xor(v, s[n])))
<1> DEFINE L == Len(s)
           base == 8 * L + 39 - 8 * n
<1>1. L \in Nat /\ base \in Int /\ n \in Nat /\ n - 1 \in Nat
  OBVIOUS
<1>2. s[n] \in SUBSET (0..7) /\ s[n] \in SUBSET Int /\ v \in SUBSET Int
  BY ByteOf DEF Words
<1>3. Xor(v, s[n]) \in SUBSET Int
  BY <1>2, XorInts
<1>4. ASSUME NEW x \in Int
      PROVE  x \in Xor(Ahead(s, n - 1), Mirror(base, v))
               <=> x \in Xor(Ahead(s, n), Mirror(base, Xor(v, s[n])))
  <2>1. x \in Mirror(base, v) <=> base - x \in v
    BY <1>1, <1>2, MirrorIn
  <2>2. x \in Mirror(base, Xor(v, s[n])) <=> ~ (base - x \in v <=> base - x \in s[n])
    BY <1>1, <1>3, MirrorIn, XorIn
  <2>3. x \in Ahead(s, n) <=> \E j \in (n + 1)..L : 8 * (L - j) + 39 - x \in s[j]
    BY <1>1, AheadIn
  <2>4. x \in Ahead(s, n - 1) <=> \E j \in n..L : 8 * (L - j) + 39 - x \in s[j]
    <3>1. (n - 1) + 1 = n
      BY <1>1
    <3> QED BY <1>1, <3>1, AheadIn
  <2>5. 8 * (L - n) + 39 - x = base - x
    BY <1>1
  <2>6. x \in Ahead(s, n - 1) <=> x \in Ahead(s, n) \/ base - x \in s[n]
    <3>1. \A j : j \in n..L <=> j = n \/ j \in (n + 1)..L
      BY <1>1
    <3> HIDE DEF base, L
    <3> QED BY <2>3, <2>4, <2>5, <3>1
  <2>7. ~ (x \in Ahead(s, n) /\ base - x \in s[n])
    <3> SUFFICES ASSUME NEW j \in (n + 1)..L, 8 * (L - j) + 39 - x \in s[j], base - x \in s[n]
                 PROVE  FALSE
      BY <2>3
    <3>1. j \in 1..L /\ j >= n + 1
      BY <1>1
    <3>2. 8 * (L - j) + 39 - x \in 0..7 /\ base - x \in 0..7
      BY <1>2, <3>1, ByteOf
    <3> QED BY <1>1, <3>1, <3>2
  <2> HIDE DEF base, L
  <2> QED BY <2>1, <2>2, <2>6, <2>7, XorIn
<1>5. /\ Xor(Ahead(s, n - 1), Mirror(base, v)) \in SUBSET Int
      /\ Xor(Ahead(s, n), Mirror(base, Xor(v, s[n]))) \in SUBSET Int
  BY <1>1, <1>2, <1>3, AheadType, MirrorType, XorInts
<1> DEFINE before == Xor(Ahead(s, n - 1), Mirror(base, v))
           after == Xor(Ahead(s, n), Mirror(base, Xor(v, s[n])))
<1>6. before = after
  <2>1. (\A x \in Int : x \in before <=> x \in after) /\ before \in SUBSET Int /\ after \in SUBSET Int
    BY <1>4, <1>5
  <2> HIDE DEF before, after
  <2> QED BY <2>1, SetEqual
<1> QED BY <1>6

LEMMA TakeByteDivision ==
  ASSUME DivisionInv, TakeByte
  PROVE  DivisionInv'
<1>1. /\ ChecksumTypeOK' /\ taken + 1 \in 1..Len(data[1]) /\ taken \in Nat
      /\ turn = 8 /\ turn' = 0 /\ taken' = taken + 1 /\ data' = data
      /\ \A s \in Sides : crc'[s] = Xor(crc[s], data[s][taken + 1])
  BY TakeByteTypes DEF DivisionInv, ChecksumTypeOK, TakeByte
<1>2. Turns = 8 * taken /\ Turns' = 8 * taken
  BY <1>1 DEF Turns
<1>3. ASSUME NEW s \in Sides PROVE Dividing(data[s], crc[s])'
  <2>1. data[s] \in Seq(Octets) /\ crc[s] \in Words /\ Len(data[s]) = Len(data[1])
        /\ Len(data[s]) \in Nat
    BY <1>3 DEF DivisionInv, ChecksumTypeOK, Sides
  <2> DEFINE n == taken + 1
             L == Len(data[s])
  <2>2. n \in 1..L /\ n - 1 = taken /\ 8 * L + 31 - 8 * taken = 8 * L + 39 - 8 * n
    <3>1. L = Len(data[1]) /\ L \in Nat /\ n \in 1..Len(data[1]) /\ n = taken + 1 /\ taken \in Nat
      BY <1>1, <2>1
    <3>2. n \in 1..L
      <4> HIDE DEF L, n
      <4> QED BY <3>1
    <3> HIDE DEF L, n
    <3>3. n - 1 = taken
      BY <3>1
    <3>4. \A a, b, c \in Nat : b = c + 1 => 8 * a + 31 - 8 * c = 8 * a + 39 - 8 * b
      OBVIOUS
    <3>5. L \in Nat /\ n \in Nat /\ taken \in Nat /\ n = taken + 1
      BY <3>1
    <3>6. 8 * L + 31 - 8 * taken = 8 * L + 39 - 8 * n
      BY <3>4, <3>5
    <3> QED BY <3>2, <3>3, <3>6
  <2>3. Xor(Ahead(data[s], n - 1), Mirror(8 * L + 39 - 8 * n, crc[s]))
           = Xor(Ahead(data[s], n), Mirror(8 * L + 39 - 8 * n, Xor(crc[s], data[s][n])))
    BY <2>1, <2>2, TakingKeeps
  <2>4. Division(data[s])[8 * taken] = Xor(Ahead(data[s], taken), Mirror(8 * L + 31 - 8 * taken, crc[s]))
    BY <1>2, <1>3 DEF DivisionInv, Dividing
  <2>5. Division(data[s])[8 * taken]
          = Xor(Ahead(data[s], n), Mirror(8 * L + 31 - 8 * taken, crc'[s]))
    <3> HIDE DEF n, L
    <3>1. crc'[s] = Xor(crc[s], data[s][n])
      BY <1>1 DEF n
    <3> QED BY <2>2, <2>3, <2>4, <3>1
  <2> QED BY <1>1, <1>2, <2>5 DEF Dividing
<1> QED BY <1>1, <1>3 DEF DivisionInv

(* A turn of the loop is a turn of the division.                           *)
LEMMA TurningReduces ==
  ASSUME NEW s \in Seq(Octets), NEW n \in Nat, NEW m \in Nat, m < 8 * n, NEW v \in Words
  PROVE  Reduced(Xor(Ahead(s, n), Mirror(8 * Len(s) + 31 - m, v)), 8 * Len(s) + 31 - m)
           = Xor(Ahead(s, n), Mirror(8 * Len(s) + 30 - m, Turned(v)))
<1> DEFINE top == 8 * Len(s) + 31 - m
           A == Ahead(s, n)
           e == Xor(A, Mirror(top, v))
<1>1. top \in Int /\ Len(s) \in Nat /\ v \in SUBSET Int /\ top - 1 = 8 * Len(s) + 30 - m
  BY DEF Words
<1>2. A \in SUBSET Int /\ Mirror(top, v) \in SUBSET Int /\ e \in SUBSET Int
  BY <1>1, AheadType, MirrorType, XorInts
<1>3. Turned(v) \in SUBSET Int
  <2>1. \A w \in Words : w \in SUBSET Int
    BY DEF Words
  <2> QED BY <2>1, TurnedType
<1>4. top \notin A
  <2> SUFFICES ASSUME NEW j \in (n + 1)..Len(s), 8 * (Len(s) - j) + 39 - top \in s[j] PROVE FALSE
    BY <1>1, AheadIn
  <2>1. j \in 1..Len(s) /\ j >= n + 1
    OBVIOUS
  <2>2. 8 * (Len(s) - j) + 39 - top \in 0..7
    BY <2>1, ByteOf
  <2>3. 8 * (Len(s) - j) + 39 - top = 8 + m - 8 * j
    BY <1>1
  <2> QED BY <2>1, <2>2, <2>3
<1> HIDE DEF A
<1>5. top \in e <=> 0 \in v
  <2>1. top - top = 0
    BY <1>1
  <2>2. top \in Mirror(top, v) <=> 0 \in v
    BY <1>1, <2>1, MirrorIn
  <2> QED BY <1>4, <2>2, XorIn
<1>6. ASSUME NEW x \in Int
      PROVE  x \in Reduced(e, top) <=> x \in Xor(A, Mirror(top - 1, Turned(v)))
  <2> DEFINE k == top - x
             w == {g + top - 32 : g \in Generator}
  <2>1. k \in Int /\ (top - 1) - x = k - 1
    BY <1>1
  <2>2. x \in Mirror(top, v) <=> k \in v
    BY <1>1, MirrorIn
  <2>3. x \in Mirror(top - 1, Turned(v)) <=> k - 1 \in Turned(v)
    BY <1>1, <1>3, <2>1, MirrorIn
  <2>4. x \in w <=> 32 - k \in Generator
    <3>1. Generator \in SUBSET Int
      BY GeneratorMirrors
    <3> QED BY <1>1, <3>1
  <2>5. x \in e <=> ~ (x \in A <=> k \in v)
    BY <2>2, XorIn
  <2>6. k - 1 \in ShiftRight(v) <=> k \in v /\ k # 0
    <3>1. \A b \in v : b \in Int
      BY <1>1
    <3> HIDE DEF k
    <3> QED BY <2>1, <3>1 DEF ShiftRight
  <2>7. k - 1 \in Polynomial <=> 32 - k \in Generator /\ k # 0
    <3> HIDE DEF k
    <3>1. CASE 32 - k \in 0..31
      <4>1. 31 - (32 - k) = k - 1 /\ k # 0
        BY <2>1, <3>1
      <4> QED BY <3>1, <4>1, GeneratorMirrors
    <3>2. CASE ~ (32 - k \in 0..31)
      <4>1. k - 1 \notin 0..31
        BY <2>1, <3>2
      <4>2. k - 1 \notin Polynomial
        BY <4>1, PolynomialType DEF Words
      <4>3. 32 - k \in Generator => k = 0
        <5>1. 32 - k \in Generator => 32 - k \in 0..32
          BY GeneratorMirrors
        <5> QED BY <2>1, <3>2, <5>1
      <4> QED BY <4>2, <4>3
    <3> QED BY <3>1, <3>2
  <2>8. k = 0 => x = top
    <3> HIDE DEF top
    <3> QED BY <1>1
  <2> HIDE DEF k
  <2>9. CASE 0 \in v
    <3>1. x \in Reduced(e, top) <=> ~ (x \in e <=> x \in w)
      <4>1. Reduced(e, top) = Xor(e, w)
        BY <1>5, <2>9 DEF Reduced
      <4> HIDE DEF e, w
      <4> QED BY <4>1, XorIn
    <3>2. k - 1 \in Turned(v) <=> ~ (k - 1 \in ShiftRight(v) <=> k - 1 \in Polynomial)
      <4>1. Turned(v) = Xor(ShiftRight(v), Polynomial)
        BY <2>9 DEF Turned
      <4> QED BY <4>1, XorIn
    <3>3. x \in Xor(A, Mirror(top - 1, Turned(v))) <=> ~ (x \in A <=> k - 1 \in Turned(v))
      BY <2>3, XorIn
    <3>4. k = 0 => 32 - k \in Generator /\ k \in v /\ x \notin A
      <4> SUFFICES ASSUME k = 0 PROVE 32 - k \in Generator /\ k \in v /\ x \notin A
        OBVIOUS
      <4>1. 32 - k = 32
        OBVIOUS
      <4>2. 32 - k \in Generator
        BY <4>1, GeneratorMirrors
      <4>3. x \notin A
        BY <1>4, <2>8, Zenon
      <4> QED BY <2>9, <4>2, <4>3
    <3> HIDE DEF e, w
    <3> QED BY <2>4, <2>5, <2>6, <2>7, <3>1, <3>2, <3>3, <3>4
  <2>10. CASE 0 \notin v
    <3>1. Reduced(e, top) = e
      BY <1>5, <2>10 DEF Reduced
    <3>2. Turned(v) = Xor(ShiftRight(v), {})
      BY <2>10 DEF Turned
    <3>3. k - 1 \in Turned(v) <=> k - 1 \in ShiftRight(v)
      BY <3>2, XorIn
    <3>4. x \in Xor(A, Mirror(top - 1, Turned(v))) <=> ~ (x \in A <=> k - 1 \in Turned(v))
      BY <2>3, XorIn
    <3>5. k = 0 => k \notin v
      BY <2>10
    <3> HIDE DEF e
    <3> QED BY <2>5, <2>6, <3>1, <3>3, <3>4, <3>5
  <2> QED BY <2>9, <2>10
<1>7. Reduced(e, top) \in SUBSET Int /\ Xor(A, Mirror(top - 1, Turned(v))) \in SUBSET Int
  <2>1. top - 1 \in Int
    BY <1>1
  <2> QED BY <1>1, <1>2, <1>3, <2>1, ReducedType, MirrorType, XorInts
<1>8. Reduced(e, top) = Xor(A, Mirror(top - 1, Turned(v)))
  <2> HIDE DEF e, top
  <2> QED BY <1>6, <1>7, SetEqual
<1> QED BY <1>1, <1>8 DEF A

LEMMA TurnBitDivision ==
  ASSUME DivisionInv, TurnBit
  PROVE  DivisionInv'
<1>1. /\ ChecksumTypeOK' /\ taken \in Nat /\ turn \in 0..7 /\ turn' = turn + 1
      /\ taken' = taken /\ data' = data /\ taken # 0
      /\ \A s \in Sides : crc'[s] = Turned(crc[s]) /\ crc[s] \in Words
  BY TurnBitTypes DEF DivisionInv, ChecksumTypeOK, TurnBit
<1>2. Turns \in Nat /\ Turns < 8 * taken /\ Turns' = Turns + 1
  BY <1>1 DEF Turns
<1>3. ASSUME NEW s \in Sides PROVE Dividing(data[s], crc[s])'
  <2>1. data[s] \in Seq(Octets) /\ Len(data[s]) \in Nat /\ crc[s] \in Words
    BY <1>1, <1>3 DEF DivisionInv, ChecksumTypeOK
  <2> DEFINE D == Division(data[s])
             L == Len(data[s])
  <2>2. D[Turns] = Xor(Ahead(data[s], taken), Mirror(8 * L + 31 - Turns, crc[s]))
    BY <1>3 DEF DivisionInv, Dividing
  <2>3. D[Turns + 1] = Reduced(D[Turns], 8 * L + 31 - Turns)
    BY <1>2, <2>1, DivisionTurns
  <2>4. D[Turns + 1] = Xor(Ahead(data[s], taken), Mirror(8 * L + 30 - Turns, Turned(crc[s])))
    <3>1. Reduced(Xor(Ahead(data[s], taken), Mirror(8 * L + 31 - Turns, crc[s])), 8 * L + 31 - Turns)
            = Xor(Ahead(data[s], taken), Mirror(8 * L + 30 - Turns, Turned(crc[s])))
      BY <1>1, <1>2, <2>1, TurningReduces
    <3> HIDE DEF D, L
    <3> QED BY <2>2, <2>3, <3>1
  <2>5. 8 * L + 31 - (Turns + 1) = 8 * L + 30 - Turns
    BY <1>2, <2>1
  <2> QED BY <1>1, <1>2, <1>3, <2>4, <2>5 DEF Dividing
<1> QED BY <1>1, <1>3 DEF DivisionInv

(* What crc32_ieee computes is the CRC-32 of IEEE 802.3, for a payload of  *)
(* every length and content: any other program can verify state.bin.       *)
THEOREM IsCRC32Holds == ChecksumSpec => []IsCRC32
<1>1. DivisionInv /\ [ChecksumStep]_checksumVars => DivisionInv'
  <2> SUFFICES ASSUME DivisionInv, [ChecksumStep]_checksumVars PROVE DivisionInv'
    OBVIOUS
  <2>1. CASE UNCHANGED checksumVars
    BY <2>1 DEF checksumVars, DivisionInv, ChecksumTypeOK, Dividing, Turns
  <2> QED BY <2>1, TakeByteDivision, TurnBitDivision DEF ChecksumStep
<1>2. DivisionInv => IsCRC32
  <2> SUFFICES ASSUME DivisionInv, Summed, NEW s \in Sides PROVE Not(crc[s]) = CRC32(data[s])
    BY DEF IsCRC32
  <2>1. /\ data[s] \in Seq(Octets) /\ crc[s] \in SUBSET (0..31) /\ taken = Len(data[s])
        /\ turn = 8 /\ Len(data[s]) \in Nat
    BY DEF DivisionInv, ChecksumTypeOK, Summed, Sides, Words
  <2>2. Turns = 8 * Len(data[s]) /\ 8 * Len(data[s]) + 31 - Turns = 31
    BY <2>1 DEF Turns
  <2>3. Ahead(data[s], taken) = {}
    <3>1. (taken + 1)..Len(data[s]) = {}
      BY <2>1
    <3> QED BY <3>1 DEF Ahead
  <2>4. Remainder(data[s]) = Mirror(31, crc[s])
    <3>1. Remainder(data[s]) = Xor({}, Mirror(31, crc[s]))
      BY <2>2, <2>3 DEF DivisionInv, Dividing, Remainder
    <3> QED BY <3>1 DEF Xor
  <2>5. {31 - k : k \in Mirror(31, crc[s])} = crc[s]
    <3>1. PICK v : v = crc[s]
      OBVIOUS
    <3>2. \A k \in v : k \in Int /\ 31 - (31 - k) = k
      <4>1. v \in SUBSET (0..31)
        BY <2>1, <3>1
      <4> QED BY <4>1
    <3>3. {31 - k : k \in Mirror(31, v)} = v
      BY <3>2 DEF Mirror
    <3> QED BY <3>1, <3>3
  <2> QED BY <2>4, <2>5 DEF CRC32
<1> QED BY <1>1, <1>2, DivisionInit, PTL DEF ChecksumSpec

-----------------------------------------------------------------------------
(* A T line.  Each of its joints is five parts, or more when the name has a*)
(* '|', and each of its sensors three.                                     *)

Kinds == {"integer", "double", "joint", "word", "text", "binary"}
Values == Int \cup {Rounded(p) : p \in Int}
Parts == Kinds \X Values
WordParts == {"word"} \X Nat
NameParts == {"integer", "double", "word"} \X Nat
Blobs == {"text", "binary"} \X Nat

Frames == [timestamp : Nat, ids : Seq(WordParts), types : Seq(WordParts), payloads : Seq(Blobs)]
JointTypes == [id : {"joint"} \X Nat, name : Seq(NameParts),
               position : Int, velocity : Int, load : Int]
JointLists == Seq(JointTypes)

Sensors(f) == [k \in 1..SensorCount(f) |-> <<f.ids[k], f.types[k], f.payloads[k]>>]
Leading(f, js) == << Word(0), Number(f.timestamp), Number(Len(js)) >>
JointsOf(js) == FlattenSeq([k \in 1..Len(js) |-> JointParts(js[k])])

(* A printed reading is a number, and reads back as what it was rounded to.*)
LEMMA PrintedType ==
  ASSUME NEW p \in Int
  PROVE  /\ Printed(p) \in Parts /\ Printed(p)[1] \in {"integer", "double"}
         /\ Reading(Printed(p)) = Rounded(p)
<1>1. PICK x : x = Rounded(p)
  OBVIOUS
<1>2. x \in Values
  BY <1>1 DEF Values
<1>3. CASE Plainly(x)
  <2>1. Printed(p) = Number(x \div Unit)
    BY <1>1, <1>3 DEF Printed
  <2>2. x \in Nat /\ x % Unit = 0 /\ Unit \in Nat \ {0}
    BY <1>3, TelemetryAssumption, SMT DEF Plainly
  <2>3. PICK u : u = Unit
    OBVIOUS
  <2>4. x \div u \in Int /\ u * (x \div u) = x
    BY <2>2, <2>3
  <2> QED BY <1>1, <2>1, <2>3, <2>4 DEF Number, Reading, IsInteger, Parts, Kinds, Values
<1>4. CASE ~Plainly(x)
  <2>1. Printed(p) = <<"double", x>>
    BY <1>1, <1>4 DEF Printed
  <2> QED BY <1>1, <1>2, <2>1 DEF Reading, IsInteger, Parts, Kinds
<1> QED BY <1>3, <1>4

(* Holds(S): a set that has whatever publish_telemetry writes of joints,   *)
(* but for their ids.                                                      *)
Holds(S) == NameParts \subseteq S /\ \A p \in Int : Printed(p) \in S

LEMMA PartsHold == Holds(Parts)
<1>1. NameParts \subseteq Parts
  BY DEF NameParts, Parts, Kinds, Values
<1> QED BY <1>1, PrintedType DEF Holds

LEMMA JointPartsType ==
  ASSUME NEW j \in JointTypes, NEW S, Holds(S), j.id \in S
  PROVE  /\ JointParts(j) \in Seq(S)
         /\ Len(j.name) = 1 =>
              /\ Len(JointParts(j)) = 5
              /\ JointParts(j)[1] = j.id /\ JointParts(j)[2] = j.name[1]
              /\ JointParts(j)[3] = Printed(j.position)
              /\ JointParts(j)[4] = Printed(j.velocity)
              /\ JointParts(j)[5] = Printed(j.load)
<1> DEFINE a == <<j.id>>
           n == j.name
           c == << Printed(j.position), Printed(j.velocity), Printed(j.load) >>
           d == a \o n
           e == d \o c
<1>1. a \in Seq(S) /\ Len(a) = 1 /\ a[1] = j.id
  OBVIOUS
<1>2. n \in Seq(S)
  <2>1. n \in Seq(NameParts) /\ NameParts \subseteq S
    BY DEF JointTypes, Holds
  <2> QED BY <2>1, SeqMonotonic
<1>3. /\ c \in Seq(S) /\ Len(c) = 3 /\ c[1] = Printed(j.position)
      /\ c[2] = Printed(j.velocity) /\ c[3] = Printed(j.load)
  <2>1. j.position \in Int /\ j.velocity \in Int /\ j.load \in Int
    BY DEF JointTypes
  <2>2. Printed(j.position) \in S /\ Printed(j.velocity) \in S /\ Printed(j.load) \in S
    BY <2>1 DEF Holds
  <2> QED BY <2>2
<1>4. JointParts(j) = e
  BY DEF JointParts
<1> HIDE DEF a, n, c
<1>5. d \in Seq(S) /\ Joins(d, a, n, 1, Len(n)) /\ Len(n) \in Nat
  <2>1. Len(n) \in Nat
    BY <1>2
  <2> QED BY <1>1, <1>2, <2>1, Concatenated
<1>6. Len(d) = 1 + Len(n) /\ 1 + Len(n) \in Nat
  BY <1>5 DEF Joins
<1> HIDE DEF d
<1>7. e \in Seq(S) /\ Joins(e, d, c, 1 + Len(n), 3)
  BY <1>3, <1>5, <1>6, Concatenated
<1> HIDE DEF e
<1>8. ASSUME Len(n) = 1
      PROVE  Len(e) = 5 /\ e[1] = a[1] /\ e[2] = n[1] /\ e[3] = c[1] /\ e[4] = c[2] /\ e[5] = c[3]
  <2>1. d[1] = a[1] /\ d[2] = n[1]
    BY <1>5, <1>8 DEF Joins
  <2>2. Len(e) = 5 /\ \A k \in 1..2 : e[k] = d[k]
    BY <1>7, <1>8 DEF Joins
  <2>3. \A k \in 1..3 : e[2 + k] = c[k]
    BY <1>7, <1>8 DEF Joins
  <2> QED BY <2>1, <2>2, <2>3
<1> QED BY <1>1, <1>3, <1>4, <1>7, <1>8 DEF n

LEMMA JointListsType ==
  ASSUME NEW js \in JointLists
  PROVE  Len(js) \in Nat /\ \A k \in 1..Len(js) : js[k] \in JointTypes /\ js[k].id \in Parts
<1>1. Len(js) \in Nat /\ \A k \in 1..Len(js) : js[k] \in JointTypes
  BY DEF JointLists
<1>2. \A j \in JointTypes : j.id \in {"joint"} \X Nat
  BY DEF JointTypes
<1>3. {"joint"} \X Nat \subseteq Parts
  BY DEF Parts, Kinds, Values
<1> QED BY <1>1, <1>2, <1>3

(* The joints of a line, one after the other.                              *)
LEMMA JointsOfType ==
  ASSUME NEW js \in JointLists, NEW S, Holds(S), \A k \in 1..Len(js) : js[k].id \in S
  PROVE  /\ JointsOf(js) \in Seq(S)
         /\ js = <<>> => Len(JointsOf(js)) = 0
<1> DEFINE s == [k \in 1..Len(js) |-> JointParts(js[k])]
<1>1. Len(js) \in Nat /\ \A k \in 1..Len(js) : js[k] \in JointTypes
  BY DEF JointLists
<1>2. \A k \in 1..Len(js) : JointParts(js[k]) \in Seq(S)
  BY <1>1, JointPartsType
<1>3. s \in Seq(Seq(S)) /\ Len(s) = Len(js)
  BY <1>1, <1>2
<1>4. js = <<>> => FlattenSeq(s) = <<>>
  <2> SUFFICES ASSUME js = <<>> PROVE FlattenSeq(s) = <<>>
    OBVIOUS
  <2>1. s = <<>>
    BY <1>3
  <2> HIDE DEF s
  <2> QED BY <2>1 DEF FlattenSeq
<1>5. JointsOf(js) = FlattenSeq(s)
  BY DEF JointsOf
<1> HIDE DEF s
<1>6. FlattenSeq(s) \in Seq(S)
  BY <1>3, FlattenType
<1> QED BY <1>4, <1>5, <1>6

OnePart(js) == \A k \in 1..Len(js) : Len(js[k].name) = 1

JointAt(b, k, j) ==
  /\ b[5 * k - 4] = j.id /\ b[5 * k - 3] = j.name[1] /\ b[5 * k - 2] = Printed(j.position)
  /\ b[5 * k - 1] = Printed(j.velocity) /\ b[5 * k] = Printed(j.load)

LEMMA JointsByFives ==
  ASSUME NEW js \in JointLists, OnePart(js)
  PROVE  /\ Len(JointsOf(js)) = 5 * Len(js)
         /\ \A k \in 1..Len(js) : JointAt(JointsOf(js), k, js[k])
<1> DEFINE s == [k \in 1..Len(js) |-> JointParts(js[k])]
<1>1. Len(js) \in Nat /\ \A k \in 1..Len(js) : js[k] \in JointTypes /\ js[k].id \in Parts
  BY JointListsType
<1>2. ASSUME NEW k \in 1..Len(js)
      PROVE  /\ JointParts(js[k]) \in Seq(Parts) /\ Len(JointParts(js[k])) = 5
             /\ JointParts(js[k])[1] = js[k].id /\ JointParts(js[k])[2] = js[k].name[1]
             /\ JointParts(js[k])[3] = Printed(js[k].position)
             /\ JointParts(js[k])[4] = Printed(js[k].velocity)
             /\ JointParts(js[k])[5] = Printed(js[k].load)
  <2>1. Len(js[k].name) = 1
    BY DEF OnePart
  <2> QED BY <1>1, <2>1, PartsHold, JointPartsType
<1>3. /\ s \in Seq(Seq(Parts)) /\ Len(s) = Len(js)
      /\ \A k \in 1..Len(js) : s[k] = JointParts(js[k])
  BY <1>1, <1>2
<1>4. JointsOf(js) = FlattenSeq(s)
  BY DEF JointsOf
<1> HIDE DEF s
<1>5. /\ FlattenSeq(s) \in Seq(Parts) /\ Len(FlattenSeq(s)) = 5 * Len(js)
      /\ \A k \in 1..Len(js) : \A r \in 1..5 : FlattenSeq(s)[5 * k - 5 + r] = s[k][r]
  <2>1. \A k \in 1..Len(s) : Len(s[k]) = 5
    BY <1>2, <1>3
  <2> QED BY <1>3, <2>1, FlattenEqual
<1>6. ASSUME NEW k \in 1..Len(js) PROVE JointAt(FlattenSeq(s), k, js[k])
  <2>1. /\ 5 * k - 5 + 1 = 5 * k - 4 /\ 5 * k - 5 + 2 = 5 * k - 3 /\ 5 * k - 5 + 3 = 5 * k - 2
        /\ 5 * k - 5 + 4 = 5 * k - 1 /\ 5 * k - 5 + 5 = 5 * k
    BY <1>1
  <2>2. \A r \in 1..5 : FlattenSeq(s)[5 * k - 5 + r] = JointParts(js[k])[r]
    BY <1>3, <1>5
  <2>3. /\ FlattenSeq(s)[5 * k - 5 + 1] = JointParts(js[k])[1]
        /\ FlattenSeq(s)[5 * k - 5 + 2] = JointParts(js[k])[2]
        /\ FlattenSeq(s)[5 * k - 5 + 3] = JointParts(js[k])[3]
        /\ FlattenSeq(s)[5 * k - 5 + 4] = JointParts(js[k])[4]
        /\ FlattenSeq(s)[5 * k - 5 + 5] = JointParts(js[k])[5]
    BY <2>2
  <2> QED BY <1>2, <2>1, <2>3 DEF JointAt
<1> QED BY <1>4, <1>5, <1>6

LEMMA SensorsType ==
  ASSUME NEW f \in Frames
  PROVE  /\ SensorCount(f) \in Nat
         /\ \A k \in 1..SensorCount(f) :
              f.ids[k] \in WordParts /\ f.types[k] \in WordParts /\ f.payloads[k] \in Blobs
         /\ FlattenSeq(Sensors(f)) \in Seq(Parts)
         /\ Len(FlattenSeq(Sensors(f))) = 3 * SensorCount(f)
         /\ \A k \in 1..SensorCount(f) :
              /\ FlattenSeq(Sensors(f))[3 * k - 2] = f.ids[k]
              /\ FlattenSeq(Sensors(f))[3 * k - 1] = f.types[k]
              /\ FlattenSeq(Sensors(f))[3 * k] = f.payloads[k]
<1> DEFINE m == SensorCount(f)
<1>1. f.ids \in Seq(WordParts) /\ f.types \in Seq(WordParts) /\ f.payloads \in Seq(Blobs)
  BY DEF Frames
<1>2. Len(f.ids) \in Nat /\ Len(f.types) \in Nat /\ Len(f.payloads) \in Nat
  BY <1>1
<1>3. m \in Nat /\ m <= Len(f.ids) /\ m <= Len(f.types) /\ m <= Len(f.payloads)
  BY <1>2 DEF SensorCount, SmallerOf
<1> HIDE DEF m
<1>4. ASSUME NEW k \in 1..m
      PROVE  f.ids[k] \in WordParts /\ f.types[k] \in WordParts /\ f.payloads[k] \in Blobs
  <2>1. k \in 1..Len(f.ids) /\ k \in 1..Len(f.types) /\ k \in 1..Len(f.payloads)
    BY <1>2, <1>3
  <2> QED BY <1>1, <2>1, ElementOfSeq
<1> DEFINE T(k) == <<f.ids[k], f.types[k], f.payloads[k]>>
           s == [k \in 1..m |-> T(k)]
<1>5. WordParts \subseteq Parts /\ Blobs \subseteq Parts
  BY DEF WordParts, Blobs, Parts, Kinds, Values
<1>6. \A k \in 1..m : T(k) \in Seq(Parts) /\ Len(T(k)) = 3
  BY <1>4, <1>5
<1>7. s \in Seq(Seq(Parts)) /\ Len(s) = m /\ \A k \in 1..m : s[k] = T(k)
  <2> HIDE DEF T
  <2> QED BY <1>3, <1>6
<1>8. Sensors(f) = s
  BY DEF Sensors, m
<1> HIDE DEF s
<1>9. /\ FlattenSeq(s) \in Seq(Parts) /\ Len(FlattenSeq(s)) = 3 * m
      /\ \A k \in 1..m : \A r \in 1..3 : FlattenSeq(s)[3 * k - 3 + r] = s[k][r]
  <2>1. \A k \in 1..Len(s) : Len(s[k]) = 3
    BY <1>6, <1>7
  <2> QED BY <1>7, <2>1, FlattenEqual
<1>10. ASSUME NEW k \in 1..m
       PROVE  /\ FlattenSeq(s)[3 * k - 2] = f.ids[k] /\ FlattenSeq(s)[3 * k - 1] = f.types[k]
              /\ FlattenSeq(s)[3 * k] = f.payloads[k]
  <2>1. 3 * k - 3 + 1 = 3 * k - 2 /\ 3 * k - 3 + 2 = 3 * k - 1 /\ 3 * k - 3 + 3 = 3 * k
    BY <1>3
  <2>2. s[k][1] = f.ids[k] /\ s[k][2] = f.types[k] /\ s[k][3] = f.payloads[k]
    BY <1>7
  <2>3. FlattenSeq(s)[3 * k - 3 + 1] = s[k][1] /\ FlattenSeq(s)[3 * k - 3 + 2] = s[k][2]
        /\ FlattenSeq(s)[3 * k - 3 + 3] = s[k][3]
    BY <1>9
  <2> QED BY <2>1, <2>2, <2>3
<1> QED BY <1>3, <1>4, <1>8, <1>9, <1>10 DEF m

LineIs(T, f, js, count, p) ==   \* p: the parts of its joints
  LET m == SensorCount(f) IN
  /\ T \in Seq(Parts) /\ Len(T) = 4 + p + 3 * m
  /\ T[1] = Word(0) /\ T[2] = Number(f.timestamp) /\ T[3] = Number(Len(js))
  /\ \A k \in 1..p : T[3 + k] = JointsOf(js)[k]
  /\ T[4 + p] = Number(count)
  /\ \A k \in 1..(3 * m) : T[4 + p + k] = FlattenSeq(Sensors(f))[k]

LEMMA LineParts ==
  ASSUME NEW f \in Frames, NEW js \in JointLists, NEW count \in Nat,
         NEW p \in Nat, p = Len(JointsOf(js))
  PROVE  LineIs(Line(f, js, count), f, js, count, p)
<1> DEFINE a == Leading(f, js)
           b == JointsOf(js)
           c == << Number(count) >>
           d == FlattenSeq(Sensors(f))
           m == SensorCount(f)
           ab == a \o b
           abc == ab \o c
           T == abc \o d
<1>1. Line(f, js, count) = T
  BY DEF Line, Leading, JointsOf, Sensors
<1>2. a \in Seq(Parts) /\ Len(a) = 3 /\ a[1] = Word(0) /\ a[2] = Number(f.timestamp)
      /\ a[3] = Number(Len(js))
  <2>1. f.timestamp \in Nat /\ Len(js) \in Nat
    BY DEF Frames, JointLists
  <2>2. Word(0) \in Parts /\ Number(f.timestamp) \in Parts /\ Number(Len(js)) \in Parts
    BY <2>1 DEF Word, Number, Parts, Kinds, Values
  <2> QED BY <2>2 DEF Leading
<1>3. b \in Seq(Parts) /\ Len(b) = p
  BY JointListsType, PartsHold, JointsOfType
<1>4. c \in Seq(Parts) /\ Len(c) = 1 /\ c[1] = Number(count)
  BY DEF Number, Parts, Kinds, Values
<1>5. d \in Seq(Parts) /\ Len(d) = 3 * m /\ m \in Nat /\ 3 * m \in Nat
  BY SensorsType
<1> HIDE DEF a, b, c, d, m
<1>6. /\ ab \in Seq(Parts) /\ Len(ab) = 3 + p
      /\ \A k \in 1..3 : ab[k] = a[k]
      /\ \A k \in 1..p : ab[3 + k] = b[k]
  <2>1. ab \in Seq(Parts) /\ Joins(ab, a, b, 3, p)
    BY <1>2, <1>3, Concatenated
  <2> HIDE DEF ab
  <2> QED BY <2>1 DEF Joins
<1> HIDE DEF ab
<1>7. /\ abc \in Seq(Parts) /\ Len(abc) = 3 + p + 1
      /\ \A k \in 1..(3 + p) : abc[k] = ab[k]
      /\ abc[3 + p + 1] = c[1]
  <2>1. 3 + p \in Nat /\ 1 \in 1..1
    OBVIOUS
  <2>2. abc \in Seq(Parts) /\ Joins(abc, ab, c, 3 + p, 1)
    BY <1>4, <1>6, <2>1, Concatenated
  <2> HIDE DEF abc
  <2> QED BY <2>1, <2>2 DEF Joins
<1> HIDE DEF abc
<1>8. /\ T \in Seq(Parts) /\ Len(T) = 4 + p + 3 * m
      /\ \A k \in 1..(4 + p) : T[k] = abc[k]
      /\ \A k \in 1..(3 * m) : T[4 + p + k] = d[k]
  <2>1. 4 + p \in Nat /\ Len(abc) = 4 + p
    BY <1>7
  <2>2. T \in Seq(Parts) /\ Joins(T, abc, d, 4 + p, 3 * m)
    BY <1>5, <1>7, <2>1, Concatenated
  <2> HIDE DEF T
  <2> QED BY <2>1, <2>2 DEF Joins
<1> HIDE DEF T
<1>9. T[1] = a[1] /\ T[2] = a[2] /\ T[3] = a[3]
  <2>1. \A k \in 1..3 : k \in 1..(4 + p) /\ k \in 1..(3 + p)
    OBVIOUS
  <2>2. \A k \in 1..3 : T[k] = a[k]
    BY <1>6, <1>7, <1>8, <2>1
  <2> QED BY <2>2
<1>10. \A k \in 1..p : T[3 + k] = b[k]
  <2>1. \A k \in 1..p : 3 + k \in 1..(4 + p) /\ 3 + k \in 1..(3 + p)
    OBVIOUS
  <2> QED BY <1>6, <1>7, <1>8, <2>1
<1>11. T[4 + p] = c[1]
  <2>1. 4 + p \in 1..(4 + p) /\ 3 + p + 1 = 4 + p
    OBVIOUS
  <2> QED BY <1>7, <1>8, <2>1
<1> QED BY <1>1, <1>2, <1>4, <1>8, <1>9, <1>10, <1>11 DEF b, d, m, LineIs

-----------------------------------------------------------------------------
(* What the client makes of a line: exactly the frame it was made from,    *)
(* when no name holds a '|'.                                               *)

AllText(f) == \A k \in 1..SensorCount(f) : f.payloads[k][1] = "text"

ReadBack(j) ==
  [j EXCEPT !.position = Rounded(@), !.velocity = Rounded(@), !.load = Rounded(@)]

Published(f, js) ==
  [timestamp |-> f.timestamp,
   joints |-> [k \in 1..Len(js) |-> ReadBack(js[k])],
   payloads |-> [k \in 1..SensorCount(f) |-> <<f.ids[k], f.types[k], f.payloads[k]>>]]

LEMMA ParsedLine ==
  ASSUME NEW f \in Frames, NEW js \in JointLists, OnePart(js)
  PROVE  Parsed(Line(f, js, SensorCount(f))) = IF AllText(f) THEN {Published(f, js)} ELSE {}
<1> DEFINE T == Line(f, js, SensorCount(f))
           m == SensorCount(f)
           n == Len(js)
<1>1. /\ m \in Nat /\ n \in Nat /\ Len(JointsOf(js)) = 5 * n
      /\ \A k \in 1..n : js[k] \in JointTypes /\ Len(js[k].name) = 1 /\ JointAt(JointsOf(js), k, js[k])
  BY SensorsType, JointsByFives DEF JointLists, OnePart
<1>2. 5 * n \in Nat /\ 5 * n = Len(JointsOf(js))
  BY <1>1
<1>3. /\ Len(T) = 4 + 5 * n + 3 * m
      /\ T[2] = Number(f.timestamp) /\ T[3] = Number(n)
      /\ \A k \in 1..(5 * n) : T[3 + k] = JointsOf(js)[k]
      /\ T[4 + 5 * n] = Number(m)
      /\ \A k \in 1..(3 * m) : T[4 + 5 * n + k] = FlattenSeq(Sensors(f))[k]
  <2>1. LineIs(T, f, js, m, 5 * n)
    BY <1>1, <1>2, LineParts
  <2> HIDE DEF T, m, n
  <2> QED BY <2>1 DEF LineIs, m, n
<1>4. T[3][2] = n /\ T[4 + 5 * n][2] = m /\ T[2][2] = f.timestamp /\ IsInteger(T[4 + 5 * n])
  BY <1>3 DEF Number, IsInteger
<1> DEFINE J(k) == 5 * k - 1
           S(k) == 5 * n + 3 * k + 2
<1> HIDE DEF T
<1>5. ASSUME NEW k \in 1..n
      PROVE  /\ T[J(k)] = js[k].id /\ T[J(k) + 1] = js[k].name[1]
             /\ T[J(k) + 2] = Printed(js[k].position)
             /\ T[J(k) + 3] = Printed(js[k].velocity)
             /\ T[J(k) + 4] = Printed(js[k].load)
  <2>1. /\ J(k) = 3 + (5 * k - 4) /\ J(k) + 1 = 3 + (5 * k - 3) /\ J(k) + 2 = 3 + (5 * k - 2)
        /\ J(k) + 3 = 3 + (5 * k - 1) /\ J(k) + 4 = 3 + 5 * k
        /\ 5 * k - 4 \in 1..(5 * n) /\ 5 * k - 3 \in 1..(5 * n) /\ 5 * k - 2 \in 1..(5 * n)
        /\ 5 * k - 1 \in 1..(5 * n) /\ 5 * k \in 1..(5 * n)
    <3>1. n \in Nat
      BY <1>1
    <3> HIDE DEF n
    <3> QED BY <3>1
  <2>2. JointAt(JointsOf(js), k, js[k])
    BY <1>1
  <2> HIDE DEF J, n
  <2> QED BY <1>3, <2>1, <2>2 DEF JointAt
<1>6. ASSUME NEW k \in 1..m
      PROVE  T[S(k)] = f.ids[k] /\ T[S(k) + 1] = f.types[k] /\ T[S(k) + 2] = f.payloads[k]
  <2>1. /\ S(k) = 4 + 5 * n + (3 * k - 2) /\ S(k) + 1 = 4 + 5 * n + (3 * k - 1)
        /\ S(k) + 2 = 4 + 5 * n + 3 * k
        /\ 3 * k - 2 \in 1..(3 * m) /\ 3 * k - 1 \in 1..(3 * m) /\ 3 * k \in 1..(3 * m)
    <3>1. n \in Nat /\ m \in Nat
      BY <1>1
    <3> HIDE DEF n, m
    <3> QED BY <3>1
  <2>2. /\ FlattenSeq(Sensors(f))[3 * k - 2] = f.ids[k]
        /\ FlattenSeq(Sensors(f))[3 * k - 1] = f.types[k]
        /\ FlattenSeq(Sensors(f))[3 * k] = f.payloads[k]
    BY SensorsType
  <2> HIDE DEF S, m, n
  <2> QED BY <1>3, <2>1, <2>2
<1> DEFINE whole == /\ Len(T) >= 4 + 5 * n
                    /\ \A k \in 1..n : \A r \in 2..4 : IsDouble(T[J(k) + r])
                    /\ IsInteger(T[4 + 5 * n])
                    /\ Len(T) >= 4 + 5 * n + 3 * m
                    /\ \A k \in 1..m : T[S(k) + 2][1] = "text"
           joint(k) == [id |-> T[J(k)], name |-> <<T[J(k) + 1]>>,
                        position |-> Reading(T[J(k) + 2]),
                        velocity |-> Reading(T[J(k) + 3]),
                        load |-> Reading(T[J(k) + 4])]
           read == [timestamp |-> T[2][2],
                    joints |-> [k \in 1..n |-> joint(k)],
                    payloads |-> [k \in 1..m |-> <<T[S(k)], T[S(k) + 1], T[S(k) + 2]>>]]
<1>7. Parsed(T) = IF ~whole THEN {} ELSE {read}
  BY <1>4 DEF Parsed
<1>8. whole <=> AllText(f)
  <2>1. Len(T) >= 4 + 5 * n /\ Len(T) >= 4 + 5 * n + 3 * m
    BY <1>1, <1>3
  <2>2. \A k \in 1..n : \A r \in 2..4 : IsDouble(T[J(k) + r])
    <3> SUFFICES ASSUME NEW k \in 1..n
                 PROVE  IsDouble(T[J(k) + 2]) /\ IsDouble(T[J(k) + 3]) /\ IsDouble(T[J(k) + 4])
      <4> HIDE DEF J, n
      <4>1. \A r \in 2..4 : r = 2 \/ r = 3 \/ r = 4
        OBVIOUS
      <4> QED BY <4>1
    <3>1. js[k].position \in Int /\ js[k].velocity \in Int /\ js[k].load \in Int
      BY <1>1 DEF JointTypes
    <3> QED BY <1>5, <3>1, PrintedType DEF IsDouble
  <2>3. (\A k \in 1..m : T[S(k) + 2][1] = "text") <=> AllText(f)
    BY <1>6 DEF AllText
  <2> QED BY <1>4, <2>1, <2>2, <2>3
<1>9. read = Published(f, js)
  <2>1. ASSUME NEW k \in 1..n
        PROVE  joint(k) = ReadBack(js[k])
    <3>1. PICK j \in JointTypes : j = js[k]
      BY <1>1
    <3>2. /\ j.position \in Int /\ j.velocity \in Int /\ j.load \in Int
          /\ j.name \in Seq(NameParts) /\ Len(j.name) = 1
      BY <1>1, <3>1 DEF JointTypes
    <3>3. <<j.name[1]>> = j.name
      BY <3>2
    <3>4. /\ Reading(Printed(j.position)) = Rounded(j.position)
          /\ Reading(Printed(j.velocity)) = Rounded(j.velocity)
          /\ Reading(Printed(j.load)) = Rounded(j.load)
      BY <3>2, PrintedType
    <3>5. joint(k) = [id |-> j.id, name |-> j.name, position |-> Rounded(j.position),
                      velocity |-> Rounded(j.velocity), load |-> Rounded(j.load)]
      BY <1>5, <3>1, <3>3, <3>4
    <3>6. ReadBack(j) = [id |-> j.id, name |-> j.name, position |-> Rounded(j.position),
                         velocity |-> Rounded(j.velocity), load |-> Rounded(j.load)]
      <4> DEFINE a == [j EXCEPT !.position = Rounded(j.position)]
                 b == [a EXCEPT !.velocity = Rounded(j.velocity)]
      <4>1. j = [id |-> j.id, name |-> j.name, position |-> j.position,
                 velocity |-> j.velocity, load |-> j.load]
        BY DEF JointTypes
      <4>2. a = [id |-> j.id, name |-> j.name, position |-> Rounded(j.position),
                 velocity |-> j.velocity, load |-> j.load]
        BY <4>1
      <4> HIDE DEF a
      <4>3. b = [id |-> j.id, name |-> j.name, position |-> Rounded(j.position),
                 velocity |-> Rounded(j.velocity), load |-> j.load]
        BY <4>2
      <4>4. a.velocity = j.velocity /\ a.load = j.load /\ b.load = j.load
        BY <4>2, <4>3
      <4>5. ReadBack(j) = [b EXCEPT !.load = Rounded(j.load)]
        BY DEF ReadBack, a
      <4> HIDE DEF b
      <4> QED BY <4>3, <4>5
    <3> QED BY <3>1, <3>5, <3>6
  <2>2. \A k \in 1..m : <<T[S(k)], T[S(k) + 1], T[S(k) + 2]>> = <<f.ids[k], f.types[k], f.payloads[k]>>
    BY <1>6
  <2> HIDE DEF S, joint
  <2> QED BY <1>4, <2>1, <2>2 DEF Published
<1> HIDE DEF whole, read
<1> QED BY <1>7, <1>8, <1>9 DEF T

(* Every payload of a line is one of its sensors', and every id one of its *)
(* joints'.                                                                *)
LEMMA LineFresh ==
  ASSUME NEW f \in Frames, NEW js \in JointLists, NEW n \in Nat,
         \A k \in 1..SensorCount(f) : f.payloads[k][2] = n,
         \A k \in 1..Len(js) : js[k].id = JointId(n)
  PROVE  LET T == Line(f, js, SensorCount(f)) IN
         \A k \in 1..Len(T) :
           /\ T[k][1] \in {"text", "binary"} => SensorCount(f) > 0 /\ T[k][2] = n
           /\ T[k][1] = "joint" => js # <<>> /\ T[k][2] = n
<1> DEFINE T == Line(f, js, SensorCount(f))
           m == SensorCount(f)
           b == JointsOf(js)
           d == FlattenSeq(Sensors(f))
           S == {x \in Parts : /\ x[1] \notin {"text", "binary"}
                               /\ x[1] = "joint" => x[2] = n}
<1>1. /\ m \in Nat
      /\ \A k \in 1..m : /\ f.ids[k] \in WordParts /\ f.types[k] \in WordParts /\ f.payloads[k] \in Blobs
                         /\ d[3 * k - 2] = f.ids[k] /\ d[3 * k - 1] = f.types[k] /\ d[3 * k] = f.payloads[k]
  BY SensorsType
<1>2. b \in Seq(S) /\ (js = <<>> => Len(b) = 0)
  <2>1. Holds(S)
    <3>1. NameParts \subseteq S
      BY DEF NameParts, Parts, Kinds, Values
    <3>2. \A p \in Int : Printed(p) \in S
      BY PrintedType
    <3> HIDE DEF S
    <3> QED BY <3>1, <3>2 DEF Holds
  <2>2. JointId(n) \in S
    BY DEF JointId, Parts, Kinds, Values
  <2> HIDE DEF S
  <2> QED BY <2>1, <2>2, JointsOfType
<1>3. PICK p \in Nat : /\ p = Len(b) /\ (js = <<>> => p = 0)
                       /\ \A k \in 1..p : b[k] \in S
  <2>1. Len(b) \in Nat /\ \A k \in 1..Len(b) : b[k] \in S
    <3> HIDE DEF S, b
    <3> QED BY <1>2, ElementOfSeq
  <2> QED BY <1>2, <2>1
<1>4. /\ Len(T) = 4 + p + 3 * m
      /\ T[1] = Word(0) /\ T[2] = Number(f.timestamp) /\ T[3] = Number(Len(js))
      /\ \A k \in 1..p : T[3 + k] = b[k]
      /\ T[4 + p] = Number(m)
      /\ \A k \in 1..(3 * m) : T[4 + p + k] = d[k]
  <2>1. LineIs(T, f, js, m, p)
    BY <1>1, <1>3, LineParts
  <2> HIDE DEF T
  <2> QED BY <2>1 DEF LineIs
<1> HIDE DEF T, m, b, d
<1>5. ASSUME NEW k \in 1..(4 + p + 3 * m), T[k][1] \in {"text", "binary", "joint"}
      PROVE  /\ T[k][1] = "joint" => p > 0
             /\ T[k][1] # "joint" => m > 0
             /\ T[k][2] = n
  <2>1. k \notin {1, 2, 3} /\ k # 4 + p
    BY <1>4, <1>5 DEF Word, Number
  <2>2. CASE k \in 4..(3 + p)
    <3>1. k - 3 \in 1..p /\ 3 + (k - 3) = k /\ p > 0
      BY <1>3, <2>2
    <3>2. T[k] \in S
      <4> HIDE DEF S
      <4> QED BY <1>3, <1>4, <3>1
    <3> QED BY <1>5, <3>1, <3>2
  <2>3. CASE ~ (k \in 4..(3 + p))
    <3>1. PICK r \in 1..(3 * m) : k = 4 + p + r
      <4>1. k - (4 + p) \in 1..(3 * m) /\ k = 4 + p + (k - (4 + p))
        BY <1>1, <1>3, <2>1, <2>3
      <4> QED BY <4>1
    <3>2. PICK j \in 1..m : r \in {3 * j - 2, 3 * j - 1, 3 * j}
      <4> DEFINE j == (r + 2) \div 3
      <4>1. j \in 1..m /\ r \in {3 * j - 2, 3 * j - 1, 3 * j}
        BY <1>1
      <4> HIDE DEF j
      <4> QED BY <4>1
    <3>3. T[k] = d[r]
      BY <1>4, <3>1
    <3>4. f.ids[j][1] = "word" /\ f.types[j][1] = "word" /\ f.payloads[j][1] \in {"text", "binary"}
      BY <1>1 DEF WordParts, Blobs
    <3>5. r = 3 * j
      BY <1>1, <1>5, <3>2, <3>3, <3>4
    <3>6. T[k] = f.payloads[j]
      BY <1>1, <3>3, <3>5
    <3>7. m > 0
      BY <1>1, <3>2
    <3> QED BY <3>4, <3>6, <3>7 DEF m
  <2> QED BY <2>2, <2>3
<1>6. p > 0 => js # <<>>
  BY <1>3
<1> QED BY <1>4, <1>5, <1>6 DEF T, m

-----------------------------------------------------------------------------
(* The loop of sensor_thread                                               *)

SensorInv ==
  /\ cycle \in Nat /\ frame \in Frames /\ joints \in JointLists
  /\ sensor \in {"off", "read", "clear", "publish", "poll"}
  /\ sensor \in {"clear", "publish", "poll"} =>
       /\ has.frame => \A k \in 1..SensorCount(frame) : frame.payloads[k][2] = cycle
       /\ has.joints => \A k \in 1..Len(joints) : joints[k].id = JointId(cycle)
  /\ sensor \in {"publish", "poll"} =>
       (~has.frame => SensorCount(frame) = 0) /\ (~has.joints => joints = <<>>)
  /\ sensor = "poll" \/ (sensor = "read" /\ written # <<>>) =>
       written = Line(frame, joints, SensorCount(frame))
  /\ sensor = "read" /\ written # <<>> => polled = Parsed(written)

LEMMA ReadFramesType ==
  ASSUME NEW n \in Nat, NEW f \in ReadFrames(n)
  PROVE  f \in Frames /\ \A k \in 1..SensorCount(f) : f.payloads[k][2] = n
<1>1. PICK a \in Counts, b \in Counts, c \in Counts, kind \in {"text", "binary"} :
        f = [timestamp |-> n, ids |-> [k \in 1..a |-> Word(n)],
             types |-> [k \in 1..b |-> Word(n)], payloads |-> [k \in 1..c |-> <<kind, n>>]]
  BY DEF ReadFrames
<1>2. a \in Nat /\ b \in Nat /\ c \in Nat
  <2>1. Counts \subseteq Nat
    BY TelemetryAssumption, SMT
  <2> QED BY <2>1
<1>3. f.timestamp = n /\ f.ids = [k \in 1..a |-> Word(n)] /\ f.types = [k \in 1..b |-> Word(n)]
      /\ f.payloads = [k \in 1..c |-> <<kind, n>>]
  BY <1>1
<1>4. Word(n) \in WordParts /\ <<kind, n>> \in Blobs
  BY DEF Word, WordParts, Blobs
<1>5. f.ids \in Seq(WordParts) /\ f.types \in Seq(WordParts) /\ f.payloads \in Seq(Blobs) /\ Len(f.payloads) = c
  <2>1. \A x \in WordParts : \A d \in Nat : [k \in 1..d |-> x] \in Seq(WordParts)
    OBVIOUS
  <2>2. \A x \in Blobs : \A d \in Nat : [k \in 1..d |-> x] \in Seq(Blobs) /\ Len([k \in 1..d |-> x]) = d
    OBVIOUS
  <2> QED BY <1>2, <1>3, <1>4, <2>1, <2>2
<1>6. f \in Frames
  BY <1>1, <1>3, <1>5 DEF Frames
<1>7. SensorCount(f) \in Nat /\ SensorCount(f) <= c
  <2>1. Len(f.ids) \in Nat /\ Len(f.types) \in Nat /\ Len(f.payloads) = c
    BY <1>5
  <2> QED BY <1>2, <2>1 DEF SensorCount, SmallerOf
<1>8. \A k \in 1..SensorCount(f) : f.payloads[k][2] = n
  <2> SUFFICES ASSUME NEW k \in 1..SensorCount(f) PROVE f.payloads[k][2] = n
    OBVIOUS
  <2>1. k \in 1..c
    BY <1>2, <1>7
  <2> QED BY <1>3, <2>1
<1> QED BY <1>6, <1>8

LEMMA ReadJointsType ==
  ASSUME NEW n \in Nat, NEW js \in ReadJoints(n)
  PROVE  js \in JointLists /\ \A k \in 1..Len(js) : js[k].id = JointId(n)
<1> DEFINE Them == {[id |-> JointId(n), name |-> name,
                     position |-> r[1], velocity |-> r[2], load |-> r[3]] :
                      name \in Names, r \in Readings}
<1>1. PICK c \in JointCounts : js \in [1..c -> Them]
  BY DEF ReadJoints
<1>2. c \in Nat
  <2>1. JointCounts \subseteq Nat
    BY TelemetryAssumption, SMT
  <2> QED BY <2>1
<1>3. ASSUME NEW j \in Them PROVE j \in JointTypes /\ j.id = JointId(n)
  <2>1. PICK name \in Names, r \in Readings :
          j = [id |-> JointId(n), name |-> name,
               position |-> r[1], velocity |-> r[2], load |-> r[3]]
    OBVIOUS
  <2>2. name \in Seq(NameParts) /\ r \in Int \X Int \X Int
    <3>1. Names \subseteq Seq({"integer", "double", "word"} \X Nat) /\ Readings \subseteq Int \X Int \X Int
      BY TelemetryAssumption, SMT
    <3> QED BY <3>1 DEF NameParts
  <2>3. r[1] \in Int /\ r[2] \in Int /\ r[3] \in Int /\ JointId(n) \in {"joint"} \X Nat
    BY <2>2 DEF JointId
  <2> QED BY <2>1, <2>2, <2>3 DEF JointTypes
<1> HIDE DEF Them
<1>4. js \in Seq(Them) /\ Len(js) = c
  BY <1>1, <1>2
<1>5. Them \subseteq JointTypes
  BY <1>3
<1>6. js \in Seq(JointTypes)
  BY <1>4, <1>5, SeqMonotonic
<1>7. \A k \in 1..Len(js) : js[k] \in Them
  BY <1>4
<1> QED BY <1>3, <1>6, <1>7 DEF JointLists

LEMMA NoSensors ==
  ASSUME NEW t \in Nat
  PROVE  /\ [EmptyFrame EXCEPT !.timestamp = t] \in Frames
         /\ SensorCount([EmptyFrame EXCEPT !.timestamp = t]) = 0
<1> DEFINE f == [EmptyFrame EXCEPT !.timestamp = t]
<1>1. f = [timestamp |-> t, ids |-> <<>>, types |-> <<>>, payloads |-> <<>>]
  BY DEF EmptyFrame
<1>2. f.ids = <<>> /\ f.types = <<>> /\ f.payloads = <<>>
  BY <1>1
<1>3. SensorCount(f) = 0
  BY <1>2 DEF SensorCount, SmallerOf
<1>4. f \in Frames
  <2>1. t \in Nat /\ <<>> \in Seq(WordParts) /\ <<>> \in Seq(Blobs)
    OBVIOUS
  <2> HIDE DEF f
  <2> QED BY <1>1, <2>1 DEF Frames
<1> QED BY <1>3, <1>4

LEMMA SensorInit ==
  ASSUME TelemetryInit, sensor \in {"off", "read"}
  PROVE  SensorInv
<1>1. frame \in Frames
  <2>1. EmptyFrame \in Frames
    BY DEF EmptyFrame, Frames
  <2> QED BY <2>1 DEF TelemetryInit
<1> QED BY <1>1 DEF TelemetryInit, SensorInv, JointLists

LEMMA SensorStep == SensorInv /\ [TelemetryStep]_telemetryVars => SensorInv'
<1> SUFFICES ASSUME SensorInv, [TelemetryStep]_telemetryVars PROVE SensorInv'
  OBVIOUS
<1>1. CASE ReadSensors
  <2>1. cycle' \in Nat /\ cycle' = cycle + 1 /\ sensor' = "clear"
    BY <1>1 DEF ReadSensors, SensorInv
  <2>2. frame' \in Frames /\ (has'.frame => \A k \in 1..SensorCount(frame') : frame'.payloads[k][2] = cycle')
    <3>1. ASSUME frame' \in ReadFrames(cycle')
          PROVE  frame' \in Frames /\ \A k \in 1..SensorCount(frame') : frame'.payloads[k][2] = cycle'
      BY <2>1, <3>1, ReadFramesType
    <3>2. [frame EXCEPT !.timestamp = cycle + 1] \in Frames
      BY <2>1 DEF SensorInv, Frames
    <3> QED BY <1>1, <2>1, <3>1, <3>2 DEF ReadSensors
  <2>3. /\ joints' \in JointLists
        /\ has'.joints => \A k \in 1..Len(joints') : joints'[k].id = JointId(cycle')
    <3>1. ASSUME joints' \in ReadJoints(cycle')
          PROVE  joints' \in JointLists /\ \A k \in 1..Len(joints') : joints'[k].id = JointId(cycle')
      BY <2>1, <3>1, ReadJointsType
    <3> QED BY <1>1, <2>1, <3>1 DEF ReadSensors, SensorInv
  <2> QED BY <2>1, <2>2, <2>3 DEF SensorInv
<1>2. CASE ClearStale
  <2>1. sensor = "clear" /\ sensor' = "publish" /\ cycle' = cycle /\ has' = has
    BY <1>2 DEF ClearStale
  <2>2. /\ frame' \in Frames
        /\ has.frame => frame' = frame
        /\ ~has.frame => SensorCount(frame') = 0
    <3>1. frame.timestamp \in Nat
      BY DEF SensorInv, Frames
    <3> QED BY <1>2, <3>1, NoSensors DEF ClearStale, SensorInv
  <2>3. /\ joints' \in JointLists
        /\ has.joints => joints' = joints
        /\ ~has.joints => joints' = <<>>
    BY <1>2 DEF ClearStale, SensorInv, JointLists
  <2> QED BY <2>1, <2>2, <2>3 DEF SensorInv
<1>3. CASE PublishTelemetry
  <2>1. /\ sensor = "publish" /\ UNCHANGED <<cycle, frame, joints, has>>
        /\ \/ written' = Line(frame, joints, SensorCount(frame)) /\ sensor' = "poll"
           \/ written' = <<>> /\ sensor' = "read"
    BY <1>3 DEF PublishTelemetry
  <2> QED BY <2>1 DEF SensorInv
<1>4. CASE PollTelemetry
  BY <1>4 DEF PollTelemetry, SensorInv
<1>5. CASE UNCHANGED telemetryVars
  BY <1>5 DEF telemetryVars, SensorInv
<1> QED BY <1>1, <1>2, <1>3, <1>4, <1>5 DEF TelemetryStep

LEMMA SensorSurvives == SensorInv => TelemetrySurvives
<1> SUFFICES ASSUME SensorInv, sensor = "read", written # <<>>, OnePart(joints)
             PROVE  polled = IF AllText(frame) THEN {AsPublished} ELSE {}
  BY DEF TelemetrySurvives, OnePart, AllText
<1>1. polled = Parsed(Line(frame, joints, SensorCount(frame))) /\ frame \in Frames /\ joints \in JointLists
  BY DEF SensorInv
<1>2. AsPublished = Published(frame, joints)
  BY DEF AsPublished, Published, ReadBack
<1> QED BY <1>1, <1>2, ParsedLine

LEMMA SensorFresh == SensorInv => FrameFresh
<1> SUFFICES ASSUME SensorInv, sensor = "poll", NEW k \in 1..Len(written)
             PROVE  /\ written[k][1] \in {"text", "binary"} => has.frame /\ written[k][2] = cycle
                    /\ written[k][1] = "joint" => has.joints /\ written[k][2] = cycle
  BY DEF FrameFresh
<1>1. /\ written = Line(frame, joints, SensorCount(frame))
      /\ frame \in Frames /\ joints \in JointLists /\ cycle \in Nat
      /\ has.frame => \A h \in 1..SensorCount(frame) : frame.payloads[h][2] = cycle
      /\ ~has.frame => SensorCount(frame) = 0
      /\ has.joints => \A h \in 1..Len(joints) : joints[h].id = JointId(cycle)
      /\ ~has.joints => joints = <<>>
  <2>1. sensor = "poll" \/ (sensor = "read" /\ written # <<>>) =>
          written = Line(frame, joints, SensorCount(frame))
    BY DEF SensorInv
  <2>2. frame \in Frames /\ joints \in JointLists /\ cycle \in Nat
    BY DEF SensorInv
  <2>3. /\ has.frame => \A h \in 1..SensorCount(frame) : frame.payloads[h][2] = cycle
        /\ has.joints => \A h \in 1..Len(joints) : joints[h].id = JointId(cycle)
    BY DEF SensorInv
  <2>4. (~has.frame => SensorCount(frame) = 0) /\ (~has.joints => joints = <<>>)
    BY DEF SensorInv
  <2> QED BY <2>1, <2>2, <2>3, <2>4
<1>2. /\ \A h \in 1..SensorCount(frame) : frame.payloads[h][2] = cycle
      /\ \A h \in 1..Len(joints) : joints[h].id = JointId(cycle)
  BY <1>1
<1>3. /\ written[k][1] \in {"text", "binary"} => SensorCount(frame) > 0 /\ written[k][2] = cycle
      /\ written[k][1] = "joint" => joints # <<>> /\ written[k][2] = cycle
  BY <1>1, <1>2, LineFresh
<1> QED BY <1>1, <1>3

-----------------------------------------------------------------------------
(* The enumerations                                                        *)

LEMMA StatusesReadBack ==
  \A s \in DOMAIN CommandStatus : StatusFromU16(CommandStatus[s]) = s
<1>1. DOMAIN CommandStatus = {"None", "Received", "Accepted", "Rejected", "Running",
                             "Succeeded", "Failed", "Aborted", "Preempted", "Expired"}
  BY DEF CommandStatus
<1>2. /\ CommandStatus["None"] = 0 /\ CommandStatus["Received"] = 1
      /\ CommandStatus["Accepted"] = 2 /\ CommandStatus["Rejected"] = 3
      /\ CommandStatus["Running"] = 4 /\ CommandStatus["Succeeded"] = 5
      /\ CommandStatus["Failed"] = 6 /\ CommandStatus["Aborted"] = 7
      /\ CommandStatus["Preempted"] = 8 /\ CommandStatus["Expired"] = 9
  BY DEF CommandStatus
<1>3. /\ StatusFromU16(0) = "None" /\ StatusFromU16(1) = "Received"
      /\ StatusFromU16(2) = "Accepted" /\ StatusFromU16(3) = "Rejected"
      /\ StatusFromU16(4) = "Running" /\ StatusFromU16(5) = "Succeeded"
      /\ StatusFromU16(6) = "Failed" /\ StatusFromU16(7) = "Aborted"
      /\ StatusFromU16(8) = "Preempted" /\ StatusFromU16(9) = "Expired"
  BY DEF StatusFromU16
<1> QED BY <1>1, <1>2, <1>3

LEMMA ReasonsReadBack ==
  \A s \in DOMAIN RejectReason : RejectFromU16(RejectReason[s]) = s
<1>1. DOMAIN RejectReason = {"None", "NotAuthorized", "InvalidPayload", "Unsupported", "Unsafe",
                            "Busy", "PreconditionsFail", "Timeout", "StaleCommand"}
  BY DEF RejectReason
<1>2. /\ RejectReason["None"] = 0 /\ RejectReason["NotAuthorized"] = 1
      /\ RejectReason["InvalidPayload"] = 2 /\ RejectReason["Unsupported"] = 3
      /\ RejectReason["Unsafe"] = 4 /\ RejectReason["Busy"] = 5
      /\ RejectReason["PreconditionsFail"] = 6 /\ RejectReason["Timeout"] = 7
      /\ RejectReason["StaleCommand"] = 8
  BY DEF RejectReason
<1>3. /\ RejectFromU16(0) = "None" /\ RejectFromU16(1) = "NotAuthorized"
      /\ RejectFromU16(2) = "InvalidPayload" /\ RejectFromU16(3) = "Unsupported"
      /\ RejectFromU16(4) = "Unsafe" /\ RejectFromU16(5) = "Busy"
      /\ RejectFromU16(6) = "PreconditionsFail" /\ RejectFromU16(7) = "Timeout"
      /\ RejectFromU16(8) = "StaleCommand"
  BY DEF RejectFromU16
<1> QED BY <1>1, <1>2, <1>3

(* Every command of the Rust API has a handler.                            *)
LEMMA ApiCommandsHandled ==
  \A c \in ApiCommands : \E name \in Registered : UgvCommand[name] = c
<1> DEFINE Handled == {UgvCommand[name] : name \in Registered}
<1>1. /\ UgvCommand["FollowPath"] = 100 /\ UgvCommand["GoTo"] = 101 /\ UgvCommand["Stop"] = 102
      /\ UgvCommand["HoldPosition"] = 103 /\ UgvCommand["Anchor"] = 104
      /\ UgvCommand["ReplanTo"] = 105 /\ UgvCommand["Loiter"] = 106
      /\ UgvCommand["ReturnToBase"] = 107 /\ UgvCommand["FollowTarget"] = 108
      /\ UgvCommand["Evade"] = 109 /\ UgvCommand["Dock"] = 110
  BY DEF UgvCommand
<1>2. /\ UgvCommand["SetSpeedLimit"] = 200 /\ UgvCommand["SetStance"] = 201
      /\ UgvCommand["AlignHeading"] = 202 /\ UgvCommand["FaceTarget"] = 203
      /\ UgvCommand["Stabilize"] = 204 /\ UgvCommand["ScanArea"] = 300
      /\ UgvCommand["Observe"] = 301 /\ UgvCommand["FocusSensor"] = 302
      /\ UgvCommand["TrackEntity"] = 303 /\ UgvCommand["CalibrateSensors"] = 304
  BY DEF UgvCommand
<1>3. /\ UgvCommand["Sentinel"] = 400 /\ UgvCommand["SecureArea"] = 401
      /\ UgvCommand["Escort"] = 402 /\ UgvCommand["Checkpoint"] = 403
      /\ UgvCommand["Investigate"] = 404 /\ UgvCommand["Shadow"] = 405
      /\ UgvCommand["ExecuteMission"] = 500 /\ UgvCommand["AbortMission"] = 501
      /\ UgvCommand["PauseMission"] = 502 /\ UgvCommand["ResumeMission"] = 503
      /\ UgvCommand["Wait"] = 504 /\ UgvCommand["HandoffControl"] = 505
  BY DEF UgvCommand
<1>4. /\ UgvCommand["Signal"] = 600 /\ UgvCommand["Broadcast"] = 601
      /\ UgvCommand["Acknowledge"] = 602 /\ UgvCommand["RequestAssistance"] = 603
      /\ UgvCommand["EmergencyStop"] = 700 /\ UgvCommand["SafeMode"] = 701
      /\ UgvCommand["SelfCheck"] = 702 /\ UgvCommand["Recover"] = 703
      /\ UgvCommand["Shutdown"] = 704 /\ UgvCommand["Reboot"] = 705
      /\ UgvCommand["SetRuleset"] = 800 /\ UgvCommand["SetOwnership"] = 801
      /\ UgvCommand["LockCommandSet"] = 802 /\ UgvCommand["UnlockCommandSet"] = 803
  BY DEF UgvCommand
<1>5. \A name \in {"FollowPath", "GoTo", "Stop", "HoldPosition", "Anchor", "ReplanTo", "Loiter",
                  "ReturnToBase", "FollowTarget", "Evade", "Dock", "SetSpeedLimit", "SetStance",
                  "AlignHeading", "FaceTarget", "Stabilize", "ScanArea", "Observe", "FocusSensor",
                  "TrackEntity", "CalibrateSensors", "Sentinel", "SecureArea", "Escort",
                  "Checkpoint", "Investigate", "Shadow", "ExecuteMission", "AbortMission",
                  "PauseMission", "ResumeMission", "Wait", "HandoffControl", "Signal", "Broadcast",
                  "Acknowledge", "RequestAssistance", "EmergencyStop", "SafeMode", "SelfCheck",
                  "Recover", "Shutdown", "Reboot", "SetRuleset", "SetOwnership",
                  "LockCommandSet", "UnlockCommandSet"} : name \in Registered
  BY DEF Registered, ByHand, Stubbed
<1>6. \A name \in Registered : UgvCommand[name] \in Handled
  OBVIOUS
<1> HIDE DEF Handled
<1>7. ASSUME NEW c \in 100..110 PROVE c \in Handled
  <2>1. c \in {100, 101, 102, 103, 104, 105, 106, 107, 108, 109, 110}
    OBVIOUS
  <2> QED BY <1>1, <1>5, <1>6, <2>1
<1>8. ASSUME NEW c \in (200..204) \cup (300..304) PROVE c \in Handled
  <2>1. c \in {200, 201, 202, 203, 204, 300, 301, 302, 303, 304}
    OBVIOUS
  <2> QED BY <1>2, <1>5, <1>6, <2>1
<1>9. ASSUME NEW c \in (400..405) \cup (500..505) PROVE c \in Handled
  <2>1. c \in {400, 401, 402, 403, 404, 405, 500, 501, 502, 503, 504, 505}
    OBVIOUS
  <2> QED BY <1>3, <1>5, <1>6, <2>1
<1>10. ASSUME NEW c \in (600..603) \cup (700..705) \cup (800..803) PROVE c \in Handled
  <2>1. c \in {600, 601, 602, 603, 700, 701, 702, 703, 704, 705, 800, 801, 802, 803}
    OBVIOUS
  <2> QED BY <1>4, <1>5, <1>6, <2>1
<1>11. \A c \in ApiCommands : c \in Handled
  BY <1>7, <1>8, <1>9, <1>10 DEF ApiCommands
<1> QED BY <1>11 DEF Handled

(* The fields of a client's line fit the width of their enumerations.      *)
LEMMA CutKeeps ==
  ASSUME NEW e \in Envelopes
  PROVE  /\ Cut(e.command, U16) = e.command /\ Cut(e.domain, U8) = e.domain
         /\ Cut(e.priority, U8) = e.priority /\ Cut(e.authority, U8) = e.authority
<1>1. e.command \in 0..999
  BY DEF Envelopes, ApiCommands
<1>2. Numbers(CommandDomain) \subseteq 0..9 /\ Numbers(CommandPriority) \subseteq 0..9
      /\ Numbers(CommandAuthority) \subseteq 0..9
  BY DEF Numbers, CommandDomain, CommandPriority, CommandAuthority
<1>3. e.domain \in 0..9 /\ e.priority \in 0..9 /\ e.authority \in 0..9
  BY <1>2 DEF Envelopes
<1> QED BY <1>1, <1>3 DEF Cut, U8, U16

-----------------------------------------------------------------------------
(* The journey of a command line and that of its result                    *)

Answered == {"result", "published", "polled"}
AllResults ==
  [status : DOMAIN CommandStatus, reason : DOMAIN RejectReason, message : Seq(Letters)]

LineTyped ==
  /\ line.fields \in Seq(Fields) /\ line.text \in Seq(Symbols) /\ line.input \in Seq(Bytes)
  /\ \A e \in line.of : e \in Envelopes /\ line = LineOf(e)

Readable == Len(line.fields) >= 7 /\ ~Unreadable
OnTheWay == input = line.input /\ text = line.text

(* Once submitted, the envelope is the one the line was made of, and a     *)
(* line of seven numbers stands behind it.                                 *)
Arrived ==
  /\ Readable /\ env.id = line.fields[1] /\ env.command = Cut(line.fields[2], U16)
  /\ \A e \in line.of : env = e

LineInv ==
  /\ leg \in {"codec", "telemetry", "state", "line", "payload", "dropped", "refused",
              "queued"} \cup Answered
  /\ LineTyped
  /\ leg \in {"codec", "telemetry", "state", "line"} => at # "decode" \/ leg = "codec"
  /\ leg = "line" => at = "idle" /\ i = 0 /\ ok = TRUE /\ output = <<>> /\ OnTheWay
  /\ leg = "dropped" => Malformed \/ Unreadable
  /\ leg = "payload" =>
       /\ Readable /\ OnTheWay /\ env = Envelope(line.fields)
       /\ at \in {"decode", "decoded"}
  /\ leg \in {"refused", "queued"} => Arrived
  /\ leg = "refused" => env.id = 0
  /\ leg \in Answered => Arrived \/ (line = NoLine /\ ran = "none")
  /\ ran # "none" => leg \in Answered /\ ran \in Registered /\ UgvCommand[ran] = env.command
  /\ leg \in Answered /\ line.of # {} => ran # "none" \/ result.reason = "StaleCommand"

ResultInv ==
  /\ leg \in Answered => result \in AllResults
  /\ leg \in {"published", "polled"} =>
       resultLine = <<env.id, CommandStatus[result.status], RejectReason[result.reason],
                      Spelled(result.message)>>
  /\ leg = "polled" => event = [result EXCEPT !.message = Spelled(@)]

LEMMA LineOfType ==
  ASSUME NEW e \in Envelopes
  PROVE  /\ LineOf(e).fields \in Seq(Fields) /\ LineOf(e).text \in Seq(Symbols)
         /\ LineOf(e).input = e.payload /\ e.payload \in Seq(Bytes) /\ LineOf(e).of = {e}
         /\ LineOf(e).text = Standard(e.payload)
         /\ Len(LineOf(e).fields) = 7
         /\ LineOf(e).fields[1] = e.id /\ LineOf(e).fields[2] = e.command
         /\ LineOf(e).fields[3] = e.domain /\ LineOf(e).fields[4] = e.priority
         /\ LineOf(e).fields[5] = e.authority /\ LineOf(e).fields[6] = e.issued
         /\ LineOf(e).fields[7] = e.ttl
         /\ \A k \in 1..7 : LineOf(e).fields[k] \in Nat
<1>1. /\ e.id \in Nat /\ e.issued \in Nat /\ e.ttl \in Nat /\ e.payload \in Seq(Bytes)
      /\ e.command \in Nat /\ e.domain \in Nat /\ e.authority \in Nat /\ e.priority \in Nat
  <2>1. e.command \in Nat
    <3>1. e.command \in ApiCommands
      BY DEF Envelopes
    <3>2. ApiCommands \subseteq Nat
      BY DEF ApiCommands
    <3> QED BY <3>1, <3>2
  <2>2. Numbers(CommandDomain) \subseteq Nat /\ Numbers(CommandPriority) \subseteq Nat
        /\ Numbers(CommandAuthority) \subseteq Nat
    BY DEF Numbers, CommandDomain, CommandPriority, CommandAuthority
  <2> QED BY <2>1, <2>2 DEF Envelopes
<1> DEFINE f == <<e.id, e.command, e.domain, e.priority, e.authority, e.issued, e.ttl>>
<1>2. LineOf(e).fields = f /\ LineOf(e).text = Standard(e.payload)
      /\ LineOf(e).input = e.payload /\ LineOf(e).of = {e}
  BY DEF LineOf
<1>3. f \in Seq(Nat) /\ Len(f) = 7 /\ \A k \in 1..7 : f[k] \in Nat
  BY <1>1
<1>4. f \in Seq(Fields)
  <2>1. Nat \subseteq Fields
    BY DEF Fields
  <2> HIDE DEF f
  <2> QED BY <1>3, <2>1, SeqMonotonic
<1>5. f[1] = e.id /\ f[2] = e.command /\ f[3] = e.domain /\ f[4] = e.priority
      /\ f[5] = e.authority /\ f[6] = e.issued /\ f[7] = e.ttl
  OBVIOUS
<1>6. Standard(e.payload) \in Seq(Symbols)
  BY <1>1, StandardType
<1> HIDE DEF f
<1> QED BY <1>1, <1>2, <1>3, <1>4, <1>5, <1>6

LEMMA LineOfReadable ==
  ASSUME NEW e \in Envelopes, line = LineOf(e)
  PROVE  Readable
<1>1. Len(line.fields) = 7 /\ \A k \in 1..7 : line.fields[k] \in Nat
  BY LineOfType
<1> QED BY <1>1 DEF Readable, Unreadable, Junk, TooBig

LEMMA SpelledType ==
  ASSUME NEW m \in Seq(Letters)
  PROVE  FirstPart(Spelled(m)) = Spelled(m)
<1>1. Len(m) \in Nat
  OBVIOUS
<1>2. Len(Spelled(m)) = Len(m) /\ \A k \in 1..Len(m) : Spelled(m)[k] # "|"
  BY <1>1 DEF Spelled
<1>3. {k \in 1..Len(Spelled(m)) : Spelled(m)[k] = "|"} = {}
  BY <1>2
<1> QED BY <1>3 DEF FirstPart

LEMMA WireInitially == WireInit => CodecInv /\ LineInv /\ ResultInv /\ SensorInv
<1> SUFFICES ASSUME WireInit PROVE CodecInv /\ LineInv /\ ResultInv /\ SensorInv
  OBVIOUS
<1>1. /\ NoLine.fields = <<>> /\ NoLine.text = <<>> /\ NoLine.input = <<>> /\ NoLine.of = {}
      /\ <<>> \in Seq(Fields) /\ <<>> \in Seq(Symbols) /\ <<>> \in Seq(Bytes)
  BY DEF NoLine
<1>2. leg \in {"codec", "line", "result", "telemetry", "state"}
      /\ env = NoEnvelope /\ ran = "none"
  BY DEF WireInit
<1>3. ASSUME leg = "line"
      PROVE  LineTyped
  <2>1. CASE line \in Lines
    <3>1. Lines \subseteq [fields : Seq(Fields), text : Seq(Symbols), input : {<<>>}, of : {{}}]
      BY WireAssumption
    <3>2. line \in [fields : Seq(Fields), text : Seq(Symbols), input : {<<>>}, of : {{}}]
      BY <2>1, <3>1
    <3>3. line.fields \in Seq(Fields) /\ line.text \in Seq(Symbols) /\ line.input = <<>> /\ line.of = {}
      BY <3>2
    <3> QED BY <1>1, <3>3 DEF LineTyped
  <2>2. CASE line \in {LineOf(e) : e \in Sent}
    <3>1. PICK e \in Sent : line = LineOf(e)
      BY <2>2
    <3>2. e \in Envelopes
      BY WireAssumption
    <3> QED BY <3>1, <3>2, LineOfType DEF LineTyped
  <2> QED BY <1>3, <2>1, <2>2 DEF WireInit
<1>4. leg # "line" => line = NoLine
  BY DEF WireInit, AtRest
<1>5. LineTyped
  <2>1. line = NoLine => LineTyped
    BY <1>1 DEF LineTyped
  <2> QED BY <1>3, <1>4, <2>1
<1>6. leg = "line" => CodecIdle /\ OnTheWay
  BY DEF WireInit, OnTheWay
<1>7. leg \notin {"codec", "line"} => CodecIdle /\ input = <<>> /\ text = <<>>
  BY <1>2 DEF WireInit, AtRest
<1>8. CodecInv
  <2>1. CASE leg = "codec"
    <3>1. Init
      BY <2>1 DEF WireInit
    <3> QED BY <3>1, CodecInitially
  <2>2. CASE leg # "codec"
    <3>1. CodecIdle /\ input \in Seq(Bytes) /\ text \in Seq(Symbols)
      BY <1>1, <1>5, <1>6, <1>7, <2>2 DEF LineTyped, OnTheWay
    <3> QED BY <1>1, <3>1 DEF CodecIdle, CodecInv, CodecTypeOK, CodecIsStandard, RefusedWhole
  <2> QED BY <2>1, <2>2
<1>9. LineInv
  <2>1. leg \in {"telemetry", "state", "line"} => at # "decode"
    BY <1>6, <1>7 DEF CodecIdle
  <2>2. leg = "line" => at = "idle" /\ i = 0 /\ ok = TRUE /\ output = <<>> /\ OnTheWay
    BY <1>6 DEF CodecIdle
  <2>3. leg \in Answered => line = NoLine
    BY <1>4 DEF Answered
  <2> QED BY <1>1, <1>2, <1>5, <2>1, <2>2, <2>3 DEF LineInv, Answered
<1>10. ResultInv
  <2>1. leg = "result" => result \in Results
    BY DEF WireInit
  <2>2. Messages \subseteq Seq(Letters)
    BY WireAssumption
  <2>3. Results \subseteq AllResults
    BY <2>2 DEF Results, AllResults
  <2> QED BY <1>2, <2>1, <2>3 DEF ResultInv, Answered
<1>11. SensorInv
  <2>1. sensor \in {"off", "read"} /\ TelemetryInit
    BY DEF WireInit
  <2> QED BY <2>1, SensorInit
<1> QED BY <1>8, <1>9, <1>10, <1>11

LEMMA ReadLineArrives ==
  ASSUME CodecInv, LineInv, ResultInv, ReadLine
  PROVE  CodecInv' /\ LineInv' /\ ResultInv'
<1>1. /\ leg = "line" /\ ~Malformed /\ ~Unreadable /\ env' = Envelope(line.fields)
      /\ leg' = "payload" /\ at' = "decode"
      /\ UNCHANGED <<line, ran, result, resultLine, event, input, text, i, ok, output>>
  BY DEF ReadLine, Parse
<1>2. at = "idle" /\ i = 0 /\ ok = TRUE /\ output = <<>> /\ OnTheWay /\ LineTyped /\ ran = "none"
  BY <1>1 DEF LineInv, Answered
<1>3. Len(line.fields) \in Nat
  BY <1>2 DEF LineTyped
<1>4. Readable
  BY <1>1, <1>3 DEF Readable, Malformed
<1>5. CodecInv'
  <2>1. input \in Seq(Bytes) /\ text \in Seq(Symbols) /\ output \in Seq(Bytes)
    BY DEF CodecInv, CodecTypeOK
  <2>2. Len(input) \in Nat /\ Len(text) \in Nat
    BY <2>1
  <2>3. Decoding(0)'
    <3>1. 4 * 0 = 0 /\ 3 * 0 = 0 /\ 0 <= Len(text) /\ 0 <= Len(input) /\ Len(<<>>) = 0
      BY <2>2
    <3>2. Undone(0)'
      BY <1>1, <1>2, NothingDone, Zenon DEF Undone
    <3> QED BY <1>1, <1>2, <3>1, <3>2 DEF Decoding
  <2> QED BY <1>1, <1>2, <2>1, <2>3, 0 \in Nat
       DEF CodecInv, CodecTypeOK, CodecIsStandard, RefusedWhole
<1>6. LineTyped' /\ Readable' /\ OnTheWay'
  BY <1>1, <1>2, <1>4 DEF LineTyped, Readable, Unreadable, OnTheWay
<1>7. LineInv'
  BY <1>1, <1>2, <1>6 DEF LineInv, Answered
<1>8. ResultInv'
  BY <1>1 DEF ResultInv, Answered
<1> QED BY <1>5, <1>7, <1>8

LEMMA SubmitArrives ==
  ASSUME CodecInv, LineInv, ResultInv, Submit
  PROVE  LineInv' /\ ResultInv'
<1>1. /\ leg = "payload" /\ at = "decoded" /\ env' = [env EXCEPT !.payload = output]
      /\ leg' = IF env.id = 0 THEN "refused" ELSE "queued"
      /\ UNCHANGED <<line, ran, result, resultLine, event, at, input, text, i, ok, output>>
  BY DEF Submit, codecVars
<1>2. Readable /\ OnTheWay /\ LineTyped /\ env = Envelope(line.fields) /\ ran = "none"
  BY <1>1 DEF LineInv, Answered
<1>3. env' = [Envelope(line.fields) EXCEPT !.payload = output]
  BY <1>1, <1>2
<1>4. env'.id = line.fields[1] /\ env'.command = Cut(line.fields[2], U16) /\ env'.id = env.id
  BY <1>2, <1>3 DEF Envelope
<1>5. ASSUME NEW e \in line.of PROVE env' = e
  <2>1. e \in Envelopes /\ line = LineOf(e)
    BY <1>2 DEF LineTyped
  <2>2. input = e.payload /\ text = Standard(e.payload)
    BY <1>2, <2>1, LineOfType DEF OnTheWay
  <2>3. output = e.payload
    BY <1>1, <2>2 DEF CodecInv, CodecIsStandard
  <2>4. /\ line.fields[1] = e.id /\ Cut(line.fields[2], U16) = e.command
        /\ Cut(line.fields[3], U8) = e.domain /\ Cut(line.fields[4], U8) = e.priority
        /\ Cut(line.fields[5], U8) = e.authority /\ line.fields[6] = e.issued
        /\ line.fields[7] = e.ttl
    BY <2>1, LineOfType, CutKeeps
  <2>5. env' = [id |-> e.id, command |-> e.command, domain |-> e.domain,
                priority |-> e.priority, authority |-> e.authority,
                issued |-> e.issued, ttl |-> e.ttl, payload |-> e.payload]
    BY <1>3, <2>3, <2>4 DEF Envelope
  <2> QED BY <2>1, <2>5 DEF Envelopes
<1>6. Arrived'
  BY <1>1, <1>2, <1>4, <1>5 DEF Arrived, Readable, Unreadable
<1>7. LineTyped'
  BY <1>1, <1>2 DEF LineTyped
<1>8. LineInv'
  BY <1>1, <1>2, <1>4, <1>6, <1>7 DEF LineInv, Answered
<1>9. ResultInv'
  BY <1>1 DEF ResultInv, Answered
<1> QED BY <1>8, <1>9

LEMMA ProcessOneAnswers ==
  ASSUME LineInv, ResultInv, ProcessOne
  PROVE  LineInv' /\ ResultInv'
<1>1. /\ leg = "queued" /\ leg' = "result"
      /\ UNCHANGED <<line, env, resultLine, event, at, input, text, i, ok, output>>
  BY DEF ProcessOne, codecVars
<1>2. Arrived /\ LineTyped /\ ran = "none"
  BY <1>1 DEF LineInv, Answered
<1>3. Arrived' /\ LineTyped'
  BY <1>1, <1>2 DEF Arrived, Readable, Unreadable, LineTyped
<1>4. /\ result' \in AllResults
      /\ ran' # "none" => ran' \in Registered /\ UgvCommand[ran'] = env.command
      /\ line.of # {} => ran' # "none" \/ result'.reason = "StaleCommand"
  <2>1. /\ NoResult \in AllResults
        /\ "Rejected" \in DOMAIN CommandStatus /\ "StaleCommand" \in DOMAIN RejectReason
        /\ "Unsupported" \in DOMAIN RejectReason
    BY DEF NoResult, AllResults, CommandStatus, RejectReason
  <2>2. CASE /\ result' = [NoResult EXCEPT !.status = "Rejected", !.reason = "StaleCommand"]
             /\ UNCHANGED ran
    BY <1>2, <2>1, <2>2 DEF AllResults
  <2>3. CASE /\ \A name \in Registered : UgvCommand[name] # env.command
             /\ result' = [NoResult EXCEPT !.status = "Rejected", !.reason = "Unsupported"]
             /\ UNCHANGED ran
    <3>1. line.of = {}
      <4> SUFFICES ASSUME NEW e \in line.of PROVE FALSE
        OBVIOUS
      <4>1. env = e /\ e \in Envelopes
        BY <1>2 DEF Arrived, LineTyped
      <4>2. env.command \in ApiCommands
        BY <4>1 DEF Envelopes
      <4> QED BY <2>3, <4>2, ApiCommandsHandled
    <3> QED BY <1>2, <2>1, <2>3, <3>1 DEF AllResults
  <2>4. ASSUME NEW name \in Registered, UgvCommand[name] = env.command, ran' = name,
               result' \in [status : HandlerStatuses(name), reason : DOMAIN RejectReason,
                            message : Messages]
        PROVE  /\ result' \in AllResults /\ ran' \in Registered
               /\ UgvCommand[ran'] = env.command /\ ran' # "none"
    <3>1. HandlerStatuses(name) \subseteq DOMAIN CommandStatus
      BY DEF HandlerStatuses, CommandStatus
    <3>2. Messages \subseteq Seq(Letters)
      BY WireAssumption
    <3>3. name # "none"
      BY DEF Registered, ByHand, Stubbed
    <3> QED BY <2>4, <3>1, <3>2, <3>3 DEF AllResults
  <2> QED BY <2>2, <2>3, <2>4 DEF ProcessOne
<1>5. LineInv'
  BY <1>1, <1>3, <1>4 DEF LineInv, Answered
<1>6. ResultInv'
  BY <1>1, <1>4 DEF ResultInv, Answered
<1> QED BY <1>5, <1>6

LEMMA PublishPollKeep ==
  ASSUME LineInv, ResultInv, PublishResult \/ PollResult
  PROVE  LineInv' /\ ResultInv'
<1>1. /\ leg \in {"result", "published"} /\ leg' \in {"published", "polled"}
      /\ UNCHANGED <<line, env, ran, result, at, input, text, i, ok, output>>
  BY DEF PublishResult, PollResult, codecVars
<1>2. LineInv'
  BY <1>1 DEF LineInv, Answered, LineTyped, Arrived, Readable, Unreadable, OnTheWay, Malformed
<1>3. ResultInv'
  <2>1. result \in AllResults
    BY <1>1 DEF ResultInv, Answered
  <2>2. CASE PublishResult
    BY <2>1, <2>2 DEF PublishResult, ResultInv, Answered
  <2>3. CASE PollResult
    <3>1. /\ leg = "published" /\ leg' = "polled" /\ UNCHANGED <<env, result, resultLine>>
          /\ event' = [status |-> StatusFromU16(resultLine[2]),
                       reason |-> RejectFromU16(resultLine[3]),
                       message |-> FirstPart(resultLine[4])]
      BY <2>3 DEF PollResult
    <3>2. resultLine = <<env.id, CommandStatus[result.status], RejectReason[result.reason],
                         Spelled(result.message)>>
      BY <3>1 DEF ResultInv
    <3>3. /\ result.status \in DOMAIN CommandStatus /\ result.reason \in DOMAIN RejectReason
          /\ result.message \in Seq(Letters)
      BY <2>1 DEF AllResults
    <3>4. event' = [status |-> result.status, reason |-> result.reason,
                    message |-> Spelled(result.message)]
      BY <3>1, <3>2, <3>3, StatusesReadBack, ReasonsReadBack, SpelledType
    <3>5. [result EXCEPT !.message = Spelled(@)]
            = [status |-> result.status, reason |-> result.reason,
               message |-> Spelled(result.message)]
      BY <2>1 DEF AllResults
    <3> QED BY <2>1, <3>1, <3>2, <3>4, <3>5 DEF ResultInv, Answered
  <2> QED BY <2>2, <2>3
<1> QED BY <1>2, <1>3

LEMMA DropKeeps ==
  ASSUME LineInv, ResultInv, Drop
  PROVE  LineInv' /\ ResultInv'
<1>1. /\ leg = "line" /\ leg' = "dropped" /\ (Malformed \/ Unreadable)
      /\ UNCHANGED <<line, env, ran, result, resultLine, event, at, input, text, i, ok, output>>
  BY DEF Drop, codecVars
<1>2. LineTyped' /\ (Malformed \/ Unreadable)'
  BY <1>1 DEF LineInv, LineTyped, Malformed, Unreadable
<1> QED BY <1>1, <1>2 DEF LineInv, ResultInv, Answered

LEMMA CodecLegs ==
  ASSUME LineInv, ResultInv, leg \in {"codec", "payload"}, CodecStep \/ (leg = "codec" /\ HandOver),
         UNCHANGED ownVars
  PROVE  LineInv' /\ ResultInv'
<1>1. UNCHANGED <<leg, line, env, ran, result, resultLine, event>>
  BY DEF ownVars
<1>2. UNCHANGED <<input>> /\ (leg = "payload" => at' \in {"decode", "decoded"} /\ UNCHANGED text)
  BY DEF LineInv, CodecStep, HandOver, EncodeChunk, EncodeRest, RejectLength, RejectBlock, Reject,
         DecodeBlock, DecodeEnd
<1>3. LineInv'
  BY <1>1, <1>2 DEF LineInv, Answered, LineTyped, Arrived, Readable, Unreadable, OnTheWay, Malformed
<1> QED BY <1>1, <1>3 DEF ResultInv, Answered

LEMMA OtherLegs ==
  ASSUME LineInv, ResultInv, UNCHANGED <<ownVars, codecVars>>
  PROVE  LineInv' /\ ResultInv'
BY DEF ownVars, codecVars, LineInv, ResultInv, Answered, LineTyped, Arrived, Readable, Unreadable,
       OnTheWay, Malformed

WireInv == CodecInv /\ LineInv /\ ResultInv /\ SensorInv

LEMMA WireStep == WireInv /\ [WireNext]_wireVars => WireInv'
<1> SUFFICES ASSUME WireInv, [WireNext]_wireVars PROVE WireInv'
  OBVIOUS
<1>1. CodecInv /\ LineInv /\ ResultInv /\ SensorInv
  BY DEF WireInv
<1>2. [TelemetryStep]_telemetryVars
  BY DEF WireNext, wireVars, otherVars, ReadLine, Submit, Drop, ProcessOne, PublishResult, PollResult
<1>3. SensorInv'
  BY <1>1, <1>2, SensorStep
<1>4. CASE ReadLine
  BY <1>1, <1>3, <1>4, ReadLineArrives DEF WireInv
<1>5. ASSUME ~ReadLine PROVE [CodecStep \/ HandOver]_codecVars
  BY <1>5 DEF WireNext, wireVars, Submit, Drop, ProcessOne, PublishResult, PollResult
<1>6. CASE ~ReadLine
  <2>1. CodecInv'
    BY <1>1, <1>5, <1>6, CodecInvStep
  <2>2. LineInv' /\ ResultInv'
    <3>1. CASE Submit
      BY <1>1, <3>1, SubmitArrives
    <3>2. CASE ProcessOne
      BY <1>1, <3>2, ProcessOneAnswers
    <3>3. CASE PublishResult \/ PollResult
      BY <1>1, <3>3, PublishPollKeep
    <3>4. CASE Drop
      BY <1>1, <3>4, DropKeeps
    <3>5. CASE \/ leg = "codec" /\ (CodecStep \/ HandOver) /\ UNCHANGED <<ownVars, otherVars>>
               \/ leg = "payload" /\ CodecStep /\ UNCHANGED <<ownVars, otherVars>>
      BY <1>1, <3>5, CodecLegs
    <3>6. CASE \/ leg = "telemetry" /\ TelemetryStep /\ UNCHANGED <<ownVars, codecVars, checksumVars>>
               \/ leg = "state" /\ ChecksumStep /\ UNCHANGED <<ownVars, codecVars, telemetryVars>>
               \/ UNCHANGED wireVars
      BY <1>1, <3>6, OtherLegs DEF wireVars
    <3> QED BY <1>6, <3>1, <3>2, <3>3, <3>4, <3>5, <3>6 DEF WireNext
  <2> QED BY <1>3, <2>1, <2>2 DEF WireInv
<1> QED BY <1>4, <1>6

LEMMA WireInvHolds == WireSpec => []WireInv
<1>1. WireInit => WireInv
  BY WireInitially DEF WireInv
<1> QED BY <1>1, WireStep, PTL DEF WireSpec

(* What a client sends, of every size and content, is what the router is   *)
(* given; only an empty payload is dropped and only an id of 0 refused.    *)
THEOREM ParsedAsSentHolds == WireSpec => []ParsedAsSent
<1>1. WireInv => ParsedAsSent
  <2> SUFFICES ASSUME WireInv, NEW e \in line.of
               PROVE  /\ Queued => env = e
                      /\ leg = "dropped" => e.payload = <<>>
                      /\ leg = "refused" => e.id = 0
    BY DEF ParsedAsSent
  <2>1. LineInv /\ e \in Envelopes /\ line = LineOf(e) /\ line # NoLine
    <3>1. line.of # {} /\ NoLine.of = {}
      BY DEF NoLine
    <3> QED BY <3>1 DEF WireInv, LineInv, LineTyped
  <2>2. Queued => env = e
    BY <2>1 DEF Queued, LineInv, Answered, Arrived
  <2>3. leg = "dropped" => e.payload = <<>>
    <3> SUFFICES ASSUME leg = "dropped" PROVE e.payload = <<>>
      OBVIOUS
    <3>1. Readable
      BY <2>1, LineOfReadable
    <3>2. line.text = <<>>
      <4>1. Len(line.fields) = 7
        BY <2>1, LineOfType
      <4> QED BY <2>1, <3>1, <4>1 DEF LineInv, Malformed, Readable
    <3>3. Standard(e.payload) = <<>> /\ e.payload \in Seq(Bytes)
      BY <2>1, <3>2, LineOfType
    <3>4. Len(e.payload) \in Nat /\ Len(Standard(e.payload)) = 0
      BY <3>3
    <3>5. 4 * ((Len(e.payload) + 2) \div 3) = 0
      BY <3>3, <3>4, StandardType
    <3>6. Len(e.payload) = 0
      <4>1. \A n \in Nat : 4 * ((n + 2) \div 3) = 0 => n = 0
        OBVIOUS
      <4> QED BY <3>4, <3>5, <4>1
    <3> QED BY <3>3, <3>6
  <2>4. leg = "refused" => e.id = 0
    BY <2>1 DEF LineInv, Arrived
  <2> QED BY <2>2, <2>3, <2>4
<1> QED BY <1>1, WireInvHolds, PTL

(* A handler runs for the number of its own command only, whatever anyone  *)
(* writes to commands.in; and every command of the Rust API has one.       *)
THEOREM RightHandlerHolds == WireSpec => []RightHandler
<1>1. WireInv => RightHandler
  <2> SUFFICES ASSUME WireInv PROVE RightHandler
    OBVIOUS
  <2>1. LineInv
    BY DEF WireInv
  <2>2. ASSUME ran # "none"
        PROVE  line.fields[2] >= 0 /\ Cut(line.fields[2], U16) = UgvCommand[ran]
    <3>1. Arrived /\ UgvCommand[ran] = env.command
      BY <2>1, <2>2 DEF LineInv
    <3>2. line.fields[2] >= 0
      <4>1. 2 \in 1..Len(line.fields) /\ line.fields \in Seq(Fields)
        BY <2>1, <3>1 DEF LineInv, LineTyped, Arrived, Readable
      <4>2. line.fields[2] \in Fields /\ line.fields[2] \notin {Junk, TooBig}
        BY <3>1, <4>1 DEF Arrived, Readable, Unreadable
      <4> QED BY <4>2 DEF Fields
    <3> QED BY <3>1, <3>2 DEF Arrived
  <2> QED BY <2>1, <2>2 DEF RightHandler, LineInv, Answered
<1> QED BY <1>1, WireInvHolds, PTL

(* A client polls the status, the reason and the message the core gave.    *)
THEOREM ResultSurvivesHolds == WireSpec => []ResultSurvives
<1>1. WireInv => ResultSurvives
  BY DEF WireInv, ResultInv, ResultSurvives
<1> QED BY <1>1, WireInvHolds, PTL

(* A client reads the frame the core published, whatever the sensors and   *)
(* drives read, however many turns they take.                              *)
THEOREM TelemetrySurvivesHolds == WireSpec => []TelemetrySurvives
<1>1. WireInv => TelemetrySurvives
  BY SensorSurvives DEF WireInv
<1> QED BY <1>1, WireInvHolds, PTL

(* And nothing of an earlier turn or of a read that failed is in it.       *)
THEOREM FrameFreshHolds == WireSpec => []FrameFresh
<1>1. WireInv => FrameFresh
  BY SensorFresh DEF WireInv
<1> QED BY <1>1, WireInvHolds, PTL
=============================================================================
