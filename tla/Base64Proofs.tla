---------------------------- MODULE Base64Proofs ----------------------------
(***************************************************************************)
(* base64_encode and base64_decode are the standard encoding and its       *)
(* inverse, for inputs and texts of every length: each loop is shown to    *)
(* keep a prefix of its result right, one block per turn.                  *)
(***************************************************************************)
EXTENDS Base64, SequenceTheorems, TLAPS

-----------------------------------------------------------------------------
(* Bits: four sextets hold three bytes *)

LEMMA ChunkOfSextets ==
  ASSUME NEW a \in Bytes, NEW b \in Bytes, NEW c \in Bytes, NEW w, NEW x, NEW y, NEW z,
         w = a \div 4, x = 16 * (a % 4) + b \div 16, y = 4 * (b % 16) + c \div 64, z = c % 64
  PROVE  262144 * w + 4096 * x + 64 * y + z = Chunk(a, b, c)
BY SMT DEF Bytes, Chunk

LEMMA SextetsOfChunk ==
  ASSUME NEW a \in Bytes, NEW b \in Bytes, NEW c \in Bytes
  PROVE  Sixths(Chunk(a, b, c)) =
           << a \div 4, 16 * (a % 4) + b \div 16, 4 * (b % 16) + c \div 64, c % 64 >>
<1> DEFINE n == Chunk(a, b, c)
<1>1. n \in Int
  BY SMT DEF Bytes, Chunk
<1>2. (n \div 262144) % 64 = a \div 4
  BY SMT DEF Bytes, Chunk
<1>3. (n \div 4096) % 64 = 16 * (a % 4) + b \div 16
  <2>1. n \div 4096 = 16 * a + b \div 16
    BY SMT DEF Bytes, Chunk
  <2>2. (16 * a + b \div 16) % 64 = 16 * (a % 4) + b \div 16
    BY SMT DEF Bytes
  <2> QED BY <2>1, <2>2
<1>4. (n \div 64) % 64 = 4 * (b % 16) + c \div 64
  BY SMT DEF Bytes, Chunk
<1>5. n % 64 = c % 64
  BY SMT DEF Bytes, Chunk
<1> HIDE DEF n
<1> QED BY <1>1, <1>2, <1>3, <1>4, <1>5, SMT DEF Sixths, n

LEMMA BytesOfChunk ==
  ASSUME NEW a \in Bytes, NEW b \in Bytes, NEW c \in Bytes
  PROVE  /\ Chunk(a, b, c) \in Int
         /\ (Chunk(a, b, c) \div 65536) % 256 = a
         /\ (Chunk(a, b, c) \div 256) % 256 = b
         /\ Chunk(a, b, c) % 256 = c
<1>1. Chunk(a, b, c) \in Int /\ Chunk(a, b, c) \div 65536 = a
  BY SMT DEF Bytes, Chunk
<1>2. Chunk(a, b, c) \div 256 = 256 * a + b
  BY SMT DEF Bytes, Chunk
<1>3. a % 256 = a /\ (256 * a + b) % 256 = b
  BY SMT DEF Bytes
<1>4. Chunk(a, b, c) % 256 = c
  BY SMT DEF Bytes, Chunk
<1> QED BY <1>1, <1>2, <1>3, <1>4

LEMMA SextetRange ==
  ASSUME NEW a \in Bytes, NEW b \in Bytes
  PROVE  /\ a \div 4 \in 0..63 /\ 16 * (a % 4) + b \div 16 \in 0..63
         /\ 4 * (a % 16) + b \div 64 \in 0..63 /\ a % 64 \in 0..63
BY SMT DEF Bytes

-----------------------------------------------------------------------------
(* The standard encoding, block by block *)

LEMMA ByteType ==
  ASSUME NEW s \in Seq(Bytes), NEW k \in Int, 0 < k
  PROVE  Byte(s, k) \in Bytes
BY SMT, LenProperties, ElementOfSeq DEF Byte, Bytes

LEMMA SextetAt ==
  ASSUME NEW s, NEW j \in Nat, NEW m \in Nat, (j - 1) \div 4 = m
  PROVE  /\ (j - 1) % 4 = 0 => Sextet(s, j) = Byte(s, 3 * m + 1) \div 4
         /\ (j - 1) % 4 = 1 => Sextet(s, j) = 16 * (Byte(s, 3 * m + 1) % 4) + Byte(s, 3 * m + 2) \div 16
         /\ (j - 1) % 4 = 2 => Sextet(s, j) = 4 * (Byte(s, 3 * m + 2) % 16) + Byte(s, 3 * m + 3) \div 64
         /\ (j - 1) % 4 = 3 => Sextet(s, j) = Byte(s, 3 * m + 3) % 64
<1> DEFINE r == (j - 1) % 4
<1>1. (r = 0 => r # 1 /\ r # 2 /\ r # 3) /\ (r = 1 => r # 2 /\ r # 3) /\ (r = 2 => r # 3)
  BY SMT
<1> HIDE DEF r
<1>2. r = 0 => Sextet(s, j) = Byte(s, 3 * m + 1) \div 4
  BY <1>1, Zenon DEF Sextet, r
<1>3. r = 1 => Sextet(s, j) = 16 * (Byte(s, 3 * m + 1) % 4) + Byte(s, 3 * m + 2) \div 16
  BY <1>1, Zenon DEF Sextet, r
<1>4. r = 2 => Sextet(s, j) = 4 * (Byte(s, 3 * m + 2) % 16) + Byte(s, 3 * m + 3) \div 64
  BY <1>1, Zenon DEF Sextet, r
<1>5. r = 3 => Sextet(s, j) = Byte(s, 3 * m + 3) % 64
  BY <1>1, Zenon DEF Sextet, r
<1> QED BY <1>2, <1>3, <1>4, <1>5 DEF r

LEMMA SextetType ==
  ASSUME NEW s \in Seq(Bytes), NEW j \in Nat \ {0}
  PROVE  Sextet(s, j) \in 0..63
<1> DEFINE m == (j - 1) \div 4
           p == Byte(s, 3 * m + 1)
           q == Byte(s, 3 * m + 2)
           r == Byte(s, 3 * m + 3)
<1>1. m \in Nat /\ (j - 1) % 4 \in 0..3
  BY SMT
<1>2. p \in Bytes /\ q \in Bytes /\ r \in Bytes
  BY <1>1, ByteType, SMT
<1>3. /\ (j - 1) % 4 = 0 => Sextet(s, j) = p \div 4
      /\ (j - 1) % 4 = 1 => Sextet(s, j) = 16 * (p % 4) + q \div 16
      /\ (j - 1) % 4 = 2 => Sextet(s, j) = 4 * (q % 16) + r \div 64
      /\ (j - 1) % 4 = 3 => Sextet(s, j) = r % 64
  BY <1>1, SextetAt
<1>4. (j - 1) % 4 = 0 \/ (j - 1) % 4 = 1 \/ (j - 1) % 4 = 2 \/ (j - 1) % 4 = 3
  BY <1>1, SMT
<1> HIDE DEF p, q, r
<1>5. p \div 4 \in 0..63 /\ 16 * (p % 4) + q \div 16 \in 0..63
  BY <1>2, SMT DEF Bytes
<1>6. 4 * (q % 16) + r \div 64 \in 0..63 /\ r % 64 \in 0..63
  BY <1>2, SMT DEF Bytes
<1> QED BY <1>3, <1>4, <1>5, <1>6, Zenon

LEMMA StandardType ==
  ASSUME NEW s \in Seq(Bytes)
  PROVE  /\ Len(s) \in Nat
         /\ Standard(s) \in Seq(Symbols)
         /\ Len(Standard(s)) = 4 * ((Len(s) + 2) \div 3)
         /\ Len(Standard(s)) \in Nat
         /\ Len(Standard(s)) % 4 = 0
         /\ \A j \in 1..Len(Standard(s)) : Standard(s)[j] # Foreign
<1> DEFINE last == 4 * ((Len(s) + 2) \div 3)
<1>1. Len(s) \in Nat /\ last \in Nat /\ last % 4 = 0
  BY SMT, LenProperties
<1> HIDE DEF last
<1>2. Standard(s) = [j \in 1..last |-> IF 6 * (j - 1) < 8 * Len(s) THEN Sextet(s, j) ELSE Pad]
  BY DEF Standard, last
<1>3. \A j \in 1..last : Standard(s)[j] \in 0..64
  <2>1. \A j \in 1..last : j \in Nat \ {0} /\ Sextet(s, j) \in 0..63
    BY <1>1, SextetType, SMT
  <2> QED BY <1>1, <1>2, <2>1, SMT DEF Pad
<1>4. Standard(s) \in [1..last -> Symbols]
  BY <1>2, <1>3, SMT DEF Symbols
<1>5. Standard(s) \in Seq(Symbols) /\ Len(Standard(s)) = last
  BY <1>1, <1>4, SMT
<1>6. \A j \in 1..last : Standard(s)[j] # Foreign
  BY <1>3, 65 \notin 0..64, Zenon DEF Foreign
<1> QED BY <1>1, <1>5, <1>6, Zenon DEF last

BlockStands(s, m) ==
  /\ Standard(s)[4 * m + 1] = Byte(s, 3 * m + 1) \div 4
  /\ Standard(s)[4 * m + 2] = 16 * (Byte(s, 3 * m + 1) % 4) + Byte(s, 3 * m + 2) \div 16
  /\ Standard(s)[4 * m + 3] =
       IF 3 * m + 2 <= Len(s)
       THEN 4 * (Byte(s, 3 * m + 2) % 16) + Byte(s, 3 * m + 3) \div 64 ELSE Pad
  /\ Standard(s)[4 * m + 4] = IF 3 * m + 3 <= Len(s) THEN Byte(s, 3 * m + 3) % 64 ELSE Pad

LEMMA StandardBlock ==
  ASSUME NEW s \in Seq(Bytes), NEW m \in Nat, 3 * m < Len(s)
  PROVE  4 * m + 4 <= Len(Standard(s)) /\ BlockStands(s, m)
<1> DEFINE n == Len(s)
           last == 4 * ((n + 2) \div 3)
<1>1. n \in Nat /\ Len(Standard(s)) = last /\ last \in Nat
  BY StandardType
<1>2. 4 * m + 4 <= last
  BY <1>1, SMT
<1>3. Standard(s) = [j \in 1..last |-> IF 6 * (j - 1) < 8 * n THEN Sextet(s, j) ELSE Pad]
  BY DEF Standard
<1> HIDE DEF last, n
<1>4. 4 * m + 1 \in 1..last /\ 4 * m + 2 \in 1..last /\ 4 * m + 3 \in 1..last /\ 4 * m + 4 \in 1..last
  BY <1>1, <1>2, SMT
<1>5. Sextet(s, 4 * m + 1) = Byte(s, 3 * m + 1) \div 4
  <2>1. 4 * m + 1 \in Nat /\ ((4 * m + 1) - 1) \div 4 = m /\ ((4 * m + 1) - 1) % 4 = 0
    BY SMT
  <2> QED BY <2>1, SextetAt, Zenon
<1>6. Sextet(s, 4 * m + 2) = 16 * (Byte(s, 3 * m + 1) % 4) + Byte(s, 3 * m + 2) \div 16
  <2>1. 4 * m + 2 \in Nat /\ ((4 * m + 2) - 1) \div 4 = m /\ ((4 * m + 2) - 1) % 4 = 1
    BY SMT
  <2> QED BY <2>1, SextetAt, Zenon
<1>7. Sextet(s, 4 * m + 3) = 4 * (Byte(s, 3 * m + 2) % 16) + Byte(s, 3 * m + 3) \div 64
  <2>1. 4 * m + 3 \in Nat /\ ((4 * m + 3) - 1) \div 4 = m /\ ((4 * m + 3) - 1) % 4 = 2
    BY SMT
  <2> QED BY <2>1, SextetAt, Zenon
<1>8. Sextet(s, 4 * m + 4) = Byte(s, 3 * m + 3) % 64
  <2>1. 4 * m + 4 \in Nat /\ ((4 * m + 4) - 1) \div 4 = m /\ ((4 * m + 4) - 1) % 4 = 3
    BY SMT
  <2> QED BY <2>1, SextetAt, Zenon
<1>9. /\ 6 * ((4 * m + 1) - 1) < 8 * n /\ 6 * ((4 * m + 2) - 1) < 8 * n
      /\ (6 * ((4 * m + 3) - 1) < 8 * n) <=> (3 * m + 2 <= n)
      /\ (6 * ((4 * m + 4) - 1) < 8 * n) <=> (3 * m + 3 <= n)
  BY <1>1, SMT DEF n
<1>10. Standard(s)[4 * m + 1] = Sextet(s, 4 * m + 1) /\ Standard(s)[4 * m + 2] = Sextet(s, 4 * m + 2)
  BY <1>3, <1>4, <1>9, Zenon
<1>11. Standard(s)[4 * m + 3] = IF 3 * m + 2 <= n THEN Sextet(s, 4 * m + 3) ELSE Pad
  BY <1>3, <1>4, <1>9, Zenon
<1>12. Standard(s)[4 * m + 4] = IF 3 * m + 3 <= n THEN Sextet(s, 4 * m + 4) ELSE Pad
  BY <1>3, <1>4, <1>9, Zenon
<1> QED BY <1>1, <1>2, <1>5, <1>6, <1>7, <1>8, <1>10, <1>11, <1>12, Zenon DEF BlockStands, n, last

-----------------------------------------------------------------------------
(* One turn of each loop *)

(* Four characters made from bytes of the input are the next four of its   *)
(* encoding.                                                               *)
LEMMA EncodedBlock ==
  ASSUME NEW s \in Seq(Bytes), NEW m \in Nat, 3 * m < Len(s),
         NEW n \in 2..4, n = IF 3 * m + 3 <= Len(s) THEN 4 ELSE IF 3 * m + 2 <= Len(s) THEN 3 ELSE 2
  PROVE  LET block == First4(Chunk(Byte(s, 3 * m + 1), Byte(s, 3 * m + 2), Byte(s, 3 * m + 3)), n)
         IN  /\ block \in Seq(Symbols) /\ Len(block) = 4
             /\ \A k \in 1..4 : block[k] = Standard(s)[4 * m + k]
<1> DEFINE a == Byte(s, 3 * m + 1)
           b == Byte(s, 3 * m + 2)
           c == Byte(s, 3 * m + 3)
           six == Sixths(Chunk(a, b, c))
           block == [k \in 1..4 |-> IF k <= n THEN six[k] ELSE Pad]
<1>1. a \in Bytes /\ b \in Bytes /\ c \in Bytes
  BY ByteType, SMT
<1>2. six = << a \div 4, 16 * (a % 4) + b \div 16, 4 * (b % 16) + c \div 64, c % 64 >>
  BY <1>1, SextetsOfChunk
<1>3. /\ Standard(s)[4 * m + 1] = a \div 4
      /\ Standard(s)[4 * m + 2] = 16 * (a % 4) + b \div 16
      /\ Standard(s)[4 * m + 3] = IF 3 * m + 2 <= Len(s) THEN 4 * (b % 16) + c \div 64 ELSE Pad
      /\ Standard(s)[4 * m + 4] = IF 3 * m + 3 <= Len(s) THEN c % 64 ELSE Pad
  BY StandardBlock DEF BlockStands
<1>4. Len(s) \in Nat /\ 4 * m + 4 <= Len(Standard(s)) /\ Standard(s) \in Seq(Symbols)
  BY StandardType, StandardBlock
<1>5. First4(Chunk(a, b, c), n) = block
  BY DEF First4
<1> HIDE DEF a, b, c, six
<1>6. six[1] = a \div 4 /\ six[2] = 16 * (a % 4) + b \div 16 /\ six[3] = 4 * (b % 16) + c \div 64 /\ six[4] = c % 64
  BY <1>2, SMT
<1>7. block[1] = Standard(s)[4 * m + 1] /\ block[2] = Standard(s)[4 * m + 2]
  BY <1>3, <1>6, SMT
<1>8. block[3] = Standard(s)[4 * m + 3] /\ block[4] = Standard(s)[4 * m + 4]
  BY <1>3, <1>4, <1>6, SMT
<1>9. \A k \in 1..4 : block[k] = Standard(s)[4 * m + k]
  <2>1. \A k \in 1..4 : k = 1 \/ k = 2 \/ k = 3 \/ k = 4
    BY SMT
  <2> QED BY <1>7, <1>8, <2>1, Zenon
<1>10. \A k \in 1..4 : Standard(s)[4 * m + k] \in Symbols
  <2>1. \A k \in 1..4 : 4 * m + k \in 1..Len(Standard(s))
    BY <1>4, SMT
  <2> QED BY <1>4, <2>1, ElementOfSeq, Zenon
<1>11. block \in [1..4 -> Symbols]
  <2> HIDE DEF block
  <2>1. block = [k \in 1..4 |-> block[k]]
    BY DEF block
  <2> QED BY <1>9, <1>10, <2>1, Zenon
<1>12. block \in Seq(Symbols) /\ Len(block) = 4
  BY <1>11, SMT
<1> QED BY <1>5, <1>9, <1>12 DEF a, b, c

LEMMA TwoBytes ==
  ASSUME NEW a \in Bytes, NEW b \in Bytes
  PROVE  /\ << a >> \o << b >> \in Seq(Bytes) /\ Len(<< a >> \o << b >>) = 2
         /\ (<< a >> \o << b >>)[1] = a /\ (<< a >> \o << b >>)[2] = b
<1>1. << a >> \in Seq(Bytes) /\ << b >> \in Seq(Bytes)
  OBVIOUS
<1> QED BY <1>1, ConcatProperties

LEMMA ThreeBytes ==
  ASSUME NEW a \in Bytes, NEW b \in Bytes, NEW c \in Bytes
  PROVE  /\ (<< a >> \o << b >>) \o << c >> \in Seq(Bytes)
         /\ Len((<< a >> \o << b >>) \o << c >>) = 3
         /\ ((<< a >> \o << b >>) \o << c >>)[1] = a
         /\ ((<< a >> \o << b >>) \o << c >>)[2] = b
         /\ ((<< a >> \o << b >>) \o << c >>)[3] = c
<1> DEFINE two == << a >> \o << b >>
           one == << c >>
           d == two \o one
<1>1. two \in Seq(Bytes) /\ Len(two) = 2 /\ two[1] = a /\ two[2] = b
  BY TwoBytes
<1>2. one \in Seq(Bytes) /\ Len(one) = 1 /\ one[1] = c
  OBVIOUS
<1> HIDE DEF two, one
<1>3. /\ d \in Seq(Bytes) /\ Len(d) = Len(two) + Len(one)
      /\ \A k \in 1..(Len(two) + Len(one)) : d[k] = IF k <= Len(two) THEN two[k] ELSE one[k - Len(two)]
  BY <1>1, <1>2, ConcatProperties, Zenon
<1> HIDE DEF d
<1>4. Len(d) = 3 /\ d[1] = a /\ d[2] = b /\ d[3] = c
  BY <1>1, <1>2, <1>3, SMT
<1> QED BY <1>3, <1>4 DEF d, two, one

(* A block of an encoding decodes to the bytes it was made from.           *)
LEMMA DecodedBlock ==
  ASSUME NEW s \in Seq(Bytes), NEW m \in Nat, text = Standard(s), 4 * m < Len(text)
  PROVE  /\ 3 * m < Len(s)
         /\ Decoded(4 * m + 1) \in Seq(Bytes)
         /\ Len(Decoded(4 * m + 1)) = IF 3 * m + 3 <= Len(s) THEN 3 ELSE Len(s) - 3 * m
         /\ \A k \in 1..Len(Decoded(4 * m + 1)) : Decoded(4 * m + 1)[k] = s[3 * m + k]
<1> DEFINE a == Byte(s, 3 * m + 1)
           b == Byte(s, 3 * m + 2)
           c == Byte(s, 3 * m + 3)
           w == a \div 4
           x == 16 * (a % 4) + b \div 16
           y == 4 * (b % 16) + c \div 64
           z == c % 64
           two == 3 * m + 2 <= Len(s)
           three == 3 * m + 3 <= Len(s)
           j == 4 * m + 1
<1>1. Len(s) \in Nat /\ 3 * m < Len(s)
  BY StandardType, SMT
<1>2. a \in Bytes /\ b \in Bytes /\ c \in Bytes
  BY ByteType, SMT
<1>3. /\ text[j] = w /\ text[j + 1] = x
      /\ text[j + 2] = IF two THEN y ELSE Pad
      /\ text[j + 3] = IF three THEN z ELSE Pad
  <2>1. j + 1 = 4 * m + 2 /\ j + 2 = 4 * m + 3 /\ j + 3 = 4 * m + 4
    BY SMT
  <2>2. /\ Standard(s)[4 * m + 1] = w /\ Standard(s)[4 * m + 2] = x
        /\ Standard(s)[4 * m + 3] = IF two THEN y ELSE Pad
        /\ Standard(s)[4 * m + 4] = IF three THEN z ELSE Pad
    BY <1>1, StandardBlock, SMTT(60) DEF BlockStands
  <2> QED BY <2>1, <2>2, Zenon
<1>4. /\ ~two => b = 0 /\ c = 0
      /\ ~three => c = 0
      /\ a = s[3 * m + 1]
      /\ two => b = s[3 * m + 2]
      /\ three => c = s[3 * m + 3]
      /\ three => two
      /\ ~two => Len(s) - 3 * m = 1
      /\ two /\ ~three => Len(s) - 3 * m = 2
  BY <1>1, SMT DEF Byte
<1>5. w \in 0..63 /\ x \in 0..63 /\ y \in 0..63 /\ z \in 0..63
  BY <1>2, SextetRange, Zenon
<1>6. (b = 0 /\ c = 0 => y = 0) /\ (c = 0 => z = 0)
  <2>1. 4 * (0 % 16) + 0 \div 64 = 0 /\ 0 % 64 = 0
    BY SMT
  <2> HIDE DEF b, c
  <2> QED BY <2>1, Zenon
<1>7. /\ w = a \div 4 /\ x = 16 * (a % 4) + b \div 16
      /\ y = 4 * (b % 16) + c \div 64 /\ z = c % 64
  OBVIOUS
<1> HIDE DEF a, b, c, w, x, y, z, two, three, j
<1>8. w # Pad /\ x # Pad /\ y # Pad /\ z # Pad
  BY <1>5, 64 \notin 0..63, Zenon DEF Pad
<1>9. (text[j + 2] = Pad <=> ~two) /\ (text[j + 3] = Pad <=> ~three)
  BY <1>3, <1>8, Zenon
<1>10. Value(text[j]) = w /\ Value(text[j + 1]) = x /\ Value(text[j + 2]) = y /\ Value(text[j + 3]) = z
  <2>1. CASE three
    BY <2>1, <1>3, <1>4, <1>8, Zenon DEF Value
  <2>2. CASE two /\ ~three
    BY <2>2, <1>3, <1>4, <1>6, <1>8, Zenon DEF Value
  <2>3. CASE ~two
    BY <2>3, <1>3, <1>4, <1>6, <1>8, Zenon DEF Value
  <2> QED BY <2>1, <2>2, <2>3, Zenon
<1>11. Joined(j) = Chunk(a, b, c)
  <2>1. 262144 * w + 4096 * x + 64 * y + z = Chunk(a, b, c)
    BY <1>2, <1>7, ChunkOfSextets, SMTT(60)
  <2> QED BY <2>1, <1>10, SMT DEF Joined
<1>12. (Joined(j) \div 65536) % 256 = a /\ (Joined(j) \div 256) % 256 = b /\ Joined(j) % 256 = c
  BY <1>2, <1>11, BytesOfChunk, SMT
<1>13. Decoded(j) = (<< a >> \o (IF ~two THEN <<>> ELSE << b >>)) \o (IF ~three THEN <<>> ELSE << c >>)
  <2> DEFINE d == (Joined(j) \div 65536) % 256
             e == (Joined(j) \div 256) % 256
             f == Joined(j) % 256
  <2>1. Decoded(j) = (<< d >> \o (IF text[j + 2] = Pad THEN <<>> ELSE << e >>))
                        \o (IF text[j + 3] = Pad THEN <<>> ELSE << f >>)
    BY SMT DEF Decoded
  <2>2. d = a /\ e = b /\ f = c
    BY <1>12
  <2> HIDE DEF d, e, f
  <2> QED BY <2>1, <2>2, <1>9, Zenon
<1>14. CASE three
  <2>1. Decoded(j) = (<< a >> \o << b >>) \o << c >>
    BY <1>4, <1>13, <1>14, Zenon
  <2> DEFINE d == (<< a >> \o << b >>) \o << c >>
  <2>2. d \in Seq(Bytes) /\ Len(d) = 3 /\ d[1] = a /\ d[2] = b /\ d[3] = c
    BY <1>2, ThreeBytes, SMT
  <2>3. \A k \in 1..3 : k = 1 \/ k = 2 \/ k = 3
    BY SMT
  <2> HIDE DEF d
  <2>4. Decoded(j) = d
    BY <2>1 DEF d
  <2> QED BY <1>1, <1>4, <1>14, <2>2, <2>3, <2>4, Zenon DEF j, three
<1>15. CASE two /\ ~three
  <2>1. Decoded(j) = (<< a >> \o << b >>) \o <<>>
    BY <1>13, <1>15, Zenon
  <2>2. << a >> \o << b >> \in Seq(Bytes)
    BY <1>2, TwoBytes, Zenon
  <2>3. Decoded(j) = << a >> \o << b >>
    BY <2>1, <2>2, ConcatEmptySeq, Zenon
  <2> DEFINE d == << a >> \o << b >>
  <2>4. d \in Seq(Bytes) /\ Len(d) = 2 /\ d[1] = a /\ d[2] = b
    BY <1>2, TwoBytes, Zenon
  <2>5. \A k \in 1..2 : k = 1 \/ k = 2
    BY SMT
  <2> HIDE DEF d
  <2>6. Decoded(j) = d
    BY <2>3 DEF d
  <2> QED BY <1>1, <1>4, <1>15, <2>4, <2>5, <2>6, Zenon DEF j, three
<1>16. CASE ~two
  <2>1. Decoded(j) = (<< a >> \o <<>>) \o <<>>
    BY <1>4, <1>13, <1>16, Zenon
  <2>2. Decoded(j) = << a >>
    BY <2>1, SMT
  <2>3. /\ << a >> \in Seq(Bytes) /\ Len(<< a >>) = 1
        /\ << a >>[1] = a
        /\ \A k \in 1..1 : k = 1
    BY <1>2, SMT
  <2> QED BY <1>1, <1>4, <1>16, <2>2, <2>3, Zenon DEF j, three
<1> QED BY <1>14, <1>15, <1>16, Zenon

(* Whatever four characters a block is, it decodes to bytes.               *)
LEMMA DecodedType ==
  ASSUME text \in Seq(Symbols), NEW j \in Nat \ {0}, j + 3 <= Len(text)
  PROVE  Decoded(j) \in Seq(Bytes)
<1>1. /\ text[j] \in 0..65 /\ text[j + 1] \in 0..65
      /\ text[j + 2] \in 0..65 /\ text[j + 3] \in 0..65
  <2>1. j \in 1..Len(text) /\ j + 1 \in 1..Len(text) /\ j + 2 \in 1..Len(text) /\ j + 3 \in 1..Len(text)
    BY LenProperties, SMT
  <2> QED BY <2>1, ElementOfSeq, SMT DEF Symbols
<1>2. /\ Value(text[j]) \in Int /\ Value(text[j + 1]) \in Int
      /\ Value(text[j + 2]) \in Int /\ Value(text[j + 3]) \in Int
  <2>1. \A c \in 0..65 : Value(c) \in Int
    BY SMT DEF Value, Pad
  <2> QED BY <1>1, <2>1
<1>3. Joined(j) \in Int
  <2>1. \A w, x, y, z \in Int : 262144 * w + 4096 * x + 64 * y + z \in Int
    BY SMT
  <2> QED BY <1>2, <2>1, SMTT(60) DEF Joined
<1> DEFINE d == (Joined(j) \div 65536) % 256
           e == (Joined(j) \div 256) % 256
           f == Joined(j) % 256
           first == << d >>
           second == IF text[j + 2] = Pad THEN <<>> ELSE << e >>
           third == IF text[j + 3] = Pad THEN <<>> ELSE << f >>
<1>4. d \in Bytes /\ e \in Bytes /\ f \in Bytes
  <2>1. \A n \in Int : n % 256 \in Bytes /\ n \div 65536 \in Int /\ n \div 256 \in Int
    BY SMT DEF Bytes
  <2> QED BY <1>3, <2>1
<1>5. Decoded(j) = (first \o second) \o third
  BY SMT DEF Decoded
<1> HIDE DEF d, e, f
<1>6. first \in Seq(Bytes) /\ second \in Seq(Bytes) /\ third \in Seq(Bytes)
  <2>1. <<>> \in Seq(Bytes) /\ << d >> \in Seq(Bytes) /\ << e >> \in Seq(Bytes) /\ << f >> \in Seq(Bytes)
    BY <1>4
  <2> QED BY <2>1, Zenon
<1> HIDE DEF first, second, third
<1>7. first \o second \in Seq(Bytes)
  BY <1>6, ConcatProperties
<1> QED BY <1>5, <1>6, <1>7, ConcatProperties

-----------------------------------------------------------------------------
(* Texts from elsewhere: what is decoded is what the text is the standard  *)
(* encoding of, but for a '=' out of place and bits behind the last byte.  *)

LEMMA BytesRead ==
  ASSUME NEW a \in Bytes, NEW b \in Bytes, NEW c \in Bytes, NEW n, n = Chunk(a, b, c)
  PROVE  (n \div 65536) % 256 = a /\ (n \div 256) % 256 = b /\ n % 256 = c
BY BytesOfChunk

Four(w, x, y, z) == 262144 * w + 4096 * x + 64 * y + z
High(n) == (n \div 65536) % 256
Mid(n)  == (n \div 256) % 256
Low(n)  == n % 256

(* The four sextets w, x, y, z are those of the three bytes of n.          *)
Spells(n, w, x, y, z) ==
  /\ High(n) \in Bytes /\ Mid(n) \in Bytes /\ Low(n) \in Bytes
  /\ w = High(n) \div 4 /\ x = 16 * (High(n) % 4) + Mid(n) \div 16
  /\ y = 4 * (Mid(n) % 16) + Low(n) \div 64 /\ z = Low(n) % 64
  /\ y = 0 /\ z = 0 /\ x % 16 = 0 => Mid(n) = 0 /\ Low(n) = 0
  /\ z = 0 /\ y % 4 = 0 => Low(n) = 0

LEMMA SextetsBack ==
  ASSUME NEW w \in 0..63, NEW x \in 0..63, NEW y \in 0..63, NEW z \in 0..63,
         NEW n, n = Four(w, x, y, z)
  PROVE  Spells(n, w, x, y, z)
<1> DEFINE A == 4 * w + x \div 16
           B == 16 * (x % 16) + y \div 4
           C == 64 * (y % 4) + z
<1>1. A \in Bytes /\ B \in Bytes /\ C \in Bytes
  BY SMT DEF Bytes
<1>2. n = Chunk(A, B, C)
  BY SMT DEF Chunk, Four
<1>3. w = A \div 4 /\ x = 16 * (A % 4) + B \div 16
  BY SMT
<1>4. y = 4 * (B % 16) + C \div 64 /\ z = C % 64
  BY SMT
<1>5. /\ y = 0 /\ z = 0 /\ x % 16 = 0 => B = 0 /\ C = 0
      /\ z = 0 /\ y % 4 = 0 => C = 0
  BY SMT
<1> HIDE DEF A, B, C
<1>6. High(n) = A /\ Mid(n) = B /\ Low(n) = C
  BY <1>1, <1>2, BytesRead, SMT DEF High, Mid, Low
<1> QED BY <1>1, <1>3, <1>4, <1>5, <1>6, SMT DEF Spells

(* The standard encoding of a whole number of blocks is a prefix of that   *)
(* of anything longer.                                                     *)
LEMMA StandardPrefix ==
  ASSUME NEW s \in Seq(Bytes), NEW t \in Seq(Bytes), NEW m \in Nat,
         Len(s) = 3 * m, Len(t) >= 3 * m, \A k \in 1..(3 * m) : t[k] = s[k]
  PROVE  \A k \in 1..(4 * m) : Standard(t)[k] = Standard(s)[k]
<1> SUFFICES ASSUME NEW k \in 1..(4 * m) PROVE Standard(t)[k] = Standard(s)[k]
  OBVIOUS
<1>1. PICK p \in Nat : p < m /\ k \in {4 * p + 1, 4 * p + 2, 4 * p + 3, 4 * p + 4}
  <2>1. (k - 1) \div 4 \in Nat /\ (k - 1) \div 4 < m
    BY SMT
  <2>2. k \in {4 * ((k - 1) \div 4) + 1, 4 * ((k - 1) \div 4) + 2,
               4 * ((k - 1) \div 4) + 3, 4 * ((k - 1) \div 4) + 4}
    BY SMT
  <2> QED BY <2>1, <2>2
<1>2. /\ 3 * p < Len(s) /\ 3 * p < Len(t) /\ 3 * p + 3 <= Len(s) /\ 3 * p + 3 <= Len(t)
      /\ 3 * p + 2 <= Len(s) /\ 3 * p + 2 <= Len(t)
      /\ 3 * p + 1 \in 1..(3 * m) /\ 3 * p + 2 \in 1..(3 * m) /\ 3 * p + 3 \in 1..(3 * m)
  <2>1. Len(t) \in Nat
    BY LenProperties
  <2> QED BY <1>1, <2>1, SMT
<1>3. /\ Byte(s, 3 * p + 1) = Byte(t, 3 * p + 1) /\ Byte(s, 3 * p + 2) = Byte(t, 3 * p + 2)
      /\ Byte(s, 3 * p + 3) = Byte(t, 3 * p + 3)
  <2>1. \A r \in 1..(3 * m) : r <= Len(s) /\ r <= Len(t)
    <3>1. Len(t) \in Nat
      BY LenProperties
    <3> QED BY <3>1, SMT
  <2>2. \A r \in 1..(3 * m) : Byte(s, r) = Byte(t, r)
    BY <2>1, Zenon DEF Byte
  <2> QED BY <1>2, <2>2
<1>4. BlockStands(s, p) /\ BlockStands(t, p)
  BY <1>2, StandardBlock
<1> QED BY <1>1, <1>2, <1>3, <1>4, Zenon DEF BlockStands

Regular == ~PadAstray(text) /\ ~SpareBits(text)

LEMMA RegularBlock ==
  ASSUME text \in Seq(Symbols), Len(text) % 4 = 0, NEW m \in Nat, 4 * m + 4 <= Len(text),
         NEW j, j = 4 * m + 1, Regular, \A k \in j..(j + 3) : text[k] # Foreign
  PROVE  /\ text[j] \in 0..63 /\ text[j + 1] \in 0..63
         /\ text[j + 2] \in 0..64 /\ text[j + 3] \in 0..64
         /\ text[j + 2] = Pad => text[j + 3] = Pad
         /\ text[j + 3] = Pad => j + 3 = Len(text)
         /\ text[j + 3] = Pad /\ text[j + 2] # Pad => text[j + 2] % 4 = 0
         /\ text[j + 3] = Pad /\ text[j + 2] = Pad => text[j + 1] % 16 = 0
<1> DEFINE n == Len(text)
<1>1. n \in Nat
  BY LenProperties
<1>2. n % 4 = 0 /\ 4 * m + 4 <= n
  OBVIOUS
<1> HIDE DEF n
<1>3. /\ n > 0 /\ j \in Nat /\ j + 3 <= n /\ (j + 3 = n \/ (j + 3) + 1 < n)
      /\ j + 1 < n /\ (j + 1) + 1 < n /\ (j + 2) + 1 = j + 3 /\ j + 2 \in Nat
      /\ (j + 2) + 1 < n \/ (j + 2) + 1 = n
      /\ j + 3 = n => n - 1 = j + 2 /\ n - 2 = j + 1
  BY <1>1, <1>2, SMT
<1>4. j \in 1..n /\ j + 1 \in 1..n /\ j + 2 \in 1..n /\ j + 3 \in 1..n
  BY <1>1, <1>3, SMT
<1>5. /\ text[j] \in 0..64 /\ text[j + 1] \in 0..64
      /\ text[j + 2] \in 0..64 /\ text[j + 3] \in 0..64
  <2>1. \A k \in 1..n : text[k] \in 0..65
    BY ElementOfSeq DEF Symbols, n
  <2>2. j \in j..(j + 3) /\ j + 1 \in j..(j + 3) /\ j + 2 \in j..(j + 3) /\ j + 3 \in j..(j + 3)
    BY <1>3, SMT
  <2>3. \A c \in 0..65 : c # 65 => c \in 0..64
    BY SMT
  <2>4. \A k \in j..(j + 3) : text[k] # 65
    BY DEF Foreign
  <2> QED BY <1>4, <2>1, <2>2, <2>3, <2>4
<1>6. \A k \in 1..n : ~(text[k] = Pad /\ (k + 1 < n \/ (k + 1 = n /\ text[k + 1] # Pad)))
  BY Zenon DEF Regular, PadAstray, n
<1>7. text[j] # Pad /\ text[j + 1] # Pad
  <2>1. j + 1 < n
    BY <1>3
  <2> QED BY <1>3, <1>4, <1>6, <2>1
<1>8. text[j] \in 0..63 /\ text[j + 1] \in 0..63
  <2>1. \A c \in 0..64 : c # 64 => c \in 0..63
    BY SMT
  <2> QED BY <1>5, <1>7, <2>1, Zenon DEF Pad
<1>9. text[j + 3] = Pad => j + 3 = n
  BY <1>3, <1>4, <1>6
<1>10. text[j + 2] = Pad => text[j + 3] = Pad
  BY <1>3, <1>4, <1>6
<1>11. ~(\/ text[n] = Pad /\ text[n - 1] # Pad /\ text[n - 1] % 4 # 0
         \/ text[n] = Pad /\ text[n - 1] = Pad /\ text[n - 2] % 16 # 0)
  BY <1>3, Zenon DEF Regular, SpareBits, n
<1>12. j + 3 = n => text[n] = text[j + 3] /\ text[n - 1] = text[j + 2] /\ text[n - 2] = text[j + 1]
  BY <1>3, Zenon
<1>13. /\ text[j + 3] = Pad /\ text[j + 2] # Pad => text[j + 2] % 4 = 0
       /\ text[j + 3] = Pad /\ text[j + 2] = Pad => text[j + 1] % 16 = 0
  BY <1>9, <1>11, <1>12, Zenon
<1> QED BY <1>5, <1>8, <1>9, <1>10, <1>13, Zenon DEF n

(* The bytes d of a block, of which its four characters are the encoding.  *)
Yields(j, d) ==
  /\ d \in Seq(Bytes) /\ Len(d) \in 1..3
  /\ text[j] = Byte(d, 1) \div 4
  /\ text[j + 1] = 16 * (Byte(d, 1) % 4) + Byte(d, 2) \div 16
  /\ text[j + 2] = IF 2 <= Len(d) THEN 4 * (Byte(d, 2) % 16) + Byte(d, 3) \div 64 ELSE Pad
  /\ text[j + 3] = IF 3 <= Len(d) THEN Byte(d, 3) % 64 ELSE Pad

LEMMA RegularYields ==
  ASSUME text \in Seq(Symbols), Len(text) % 4 = 0, NEW m \in Nat, 4 * m + 4 <= Len(text),
         NEW j, j = 4 * m + 1, Regular, \A k \in j..(j + 3) : text[k] # Foreign
  PROVE  Yields(j, Decoded(j)) /\ (j + 3 # Len(text) => Len(Decoded(j)) = 3)
<1> DEFINE w == text[j]
           x == text[j + 1]
           y == text[j + 2]
           z == text[j + 3]
           n == 262144 * w + 4096 * x + 64 * Value(y) + Value(z)
           a == (n \div 65536) % 256
           b == (n \div 256) % 256
           c == n % 256
           second == IF y = Pad THEN <<>> ELSE << b >>
           third == IF z = Pad THEN <<>> ELSE << c >>
<1>1. /\ w \in 0..63 /\ x \in 0..63 /\ y \in 0..64 /\ z \in 0..64
      /\ y = Pad => z = Pad
      /\ z = Pad => j + 3 = Len(text)
      /\ z = Pad /\ y # Pad => y % 4 = 0
      /\ z = Pad /\ y = Pad => x % 16 = 0
  BY RegularBlock
<1>2. Decoded(j) = (<< a >> \o second) \o third
  <2>1. w # Pad /\ x # Pad
    BY <1>1, 64 \notin 0..63, Zenon DEF Pad
  <2>2. Value(w) = w /\ Value(x) = x
    BY <2>1, Zenon DEF Value
  <2>3. Joined(j) = n
    BY <2>2 DEF Joined
  <2> HIDE DEF n
  <2> QED BY <2>3, SMT DEF Decoded
<1> HIDE DEF w, x, y, z
<1>3. Value(y) \in 0..63 /\ Value(z) \in 0..63
  <2>1. \A e \in 0..64 : Value(e) \in 0..63
    BY SMT DEF Value, Pad
  <2> QED BY <1>1, <2>1, Zenon
<1>4. (y = Pad => Value(y) = 0) /\ (y # Pad => Value(y) = y)
      /\ (z = Pad => Value(z) = 0) /\ (z # Pad => Value(z) = z)
  BY Zenon DEF Value
<1>5. /\ a \in Bytes /\ b \in Bytes /\ c \in Bytes
      /\ w = a \div 4 /\ x = 16 * (a % 4) + b \div 16
      /\ Value(y) = 4 * (b % 16) + c \div 64 /\ Value(z) = c % 64
      /\ Value(y) = 0 /\ Value(z) = 0 /\ x % 16 = 0 => b = 0 /\ c = 0
      /\ Value(z) = 0 /\ Value(y) % 4 = 0 => c = 0
  <2> DEFINE v == Value(y)
             u == Value(z)
  <2> HIDE DEF v, u
  <2>1. v \in 0..63 /\ u \in 0..63
    BY <1>3 DEF v, u
  <2>2. n = Four(w, x, v, u)
    BY DEF v, u, Four
  <2>3. a = High(n) /\ b = Mid(n) /\ c = Low(n)
    BY DEF High, Mid, Low
  <2> HIDE DEF n, a, b, c
  <2>5. Spells(n, w, x, v, u)
    BY <1>1, <2>1, <2>2, SextetsBack, Zenon
  <2>4. /\ a \in Bytes /\ b \in Bytes /\ c \in Bytes
        /\ w = a \div 4 /\ x = 16 * (a % 4) + b \div 16
        /\ v = 4 * (b % 16) + c \div 64 /\ u = c % 64
        /\ v = 0 /\ u = 0 /\ x % 16 = 0 => b = 0 /\ c = 0
        /\ u = 0 /\ v % 4 = 0 => c = 0
    BY <2>3, <2>5, Zenon DEF Spells
  <2> QED BY <2>4 DEF v, u
<1> HIDE DEF n, a, b, c
<1>6. CASE z # Pad
  <2>1. y # Pad
    BY <1>1, <1>6
  <2> DEFINE d == (<< a >> \o << b >>) \o << c >>
  <2>2. Decoded(j) = d
    BY <1>2, <1>6, <2>1
  <2>3. d \in Seq(Bytes) /\ Len(d) = 3 /\ d[1] = a /\ d[2] = b /\ d[3] = c
    BY <1>5, ThreeBytes
  <2> HIDE DEF d
  <2>4. Byte(d, 1) = a /\ Byte(d, 2) = b /\ Byte(d, 3) = c /\ Len(d) \in 1..3 /\ 2 <= Len(d) /\ 3 <= Len(d)
    BY <2>3, SMT DEF Byte
  <2> QED BY <1>4, <1>5, <1>6, <2>1, <2>2, <2>3, <2>4, Zenon DEF Yields, w, x, y, z
<1>7. CASE z = Pad /\ y # Pad
  <2> DEFINE d == << a >> \o << b >>
  <2>1. d \in Seq(Bytes) /\ Len(d) = 2 /\ d[1] = a /\ d[2] = b
    BY <1>5, TwoBytes
  <2>2. Decoded(j) = d
    <3>1. Decoded(j) = d \o <<>>
      BY <1>2, <1>7
    <3> HIDE DEF d
    <3> QED BY <2>1, <3>1, ConcatEmptySeq, Zenon
  <2>3. c = 0
    BY <1>1, <1>4, <1>5, <1>7, Zenon
  <2> HIDE DEF d
  <2>4. Byte(d, 1) = a /\ Byte(d, 2) = b /\ Byte(d, 3) = c /\ Len(d) \in 1..3 /\ 2 <= Len(d) /\ ~(3 <= Len(d))
    BY <2>1, <2>3, SMT DEF Byte
  <2> QED BY <1>1, <1>4, <1>5, <1>7, <2>1, <2>2, <2>4, Zenon DEF Yields, w, x, y, z
<1>8. CASE z = Pad /\ y = Pad
  <2> DEFINE d == << a >>
  <2>1. d \in Seq(Bytes) /\ Len(d) = 1 /\ d[1] = a
    BY <1>5
  <2>2. Decoded(j) = d
    <3>1. Decoded(j) = (d \o <<>>) \o <<>>
      BY <1>2, <1>8
    <3> HIDE DEF d
    <3> QED BY <2>1, <3>1, ConcatEmptySeq, Zenon
  <2>3. b = 0 /\ c = 0
    BY <1>1, <1>4, <1>5, <1>8, Zenon
  <2> HIDE DEF d
  <2>4. Byte(d, 1) = a /\ Byte(d, 2) = b /\ Byte(d, 3) = c /\ Len(d) \in 1..3 /\ ~(2 <= Len(d)) /\ ~(3 <= Len(d))
    BY <2>1, <2>3, SMT DEF Byte
  <2> QED BY <1>1, <1>5, <1>8, <2>1, <2>2, <2>4, Zenon DEF Yields, w, x, y, z
<1> QED BY <1>6, <1>7, <1>8

(* With a regular text, what m turns have decoded has the first 4 * m of   *)
(* its characters as standard encoding.                                    *)
Undone(m) ==
  Regular =>
    /\ (Len(output) + 2) \div 3 = m
    /\ 4 * m < Len(text) => Len(output) = 3 * m
    /\ \A k \in 1..(4 * m) : text[k] = Standard(output)[k]

LEMMA NothingDone ==
  /\ (Len(<<>>) + 2) \div 3 = 0 /\ Len(<<>>) = 3 * 0
  /\ \A k \in 1..(4 * 0) : FALSE
<1>1. Len(<<>>) = 0
  OBVIOUS
<1> QED BY <1>1, SMT

LEMMA UndoneGrows ==
  ASSUME text \in Seq(Symbols), Len(text) % 4 = 0, output \in Seq(Bytes), NEW m \in Nat,
         4 * m + 4 <= Len(text), Undone(m), Regular,
         \A k \in (4 * m + 1)..(4 * m + 4) : text[k] # Foreign,
         NEW t, t = output \o Decoded(4 * m + 1)
  PROVE  /\ (Len(t) + 2) \div 3 = m + 1
         /\ 4 * (m + 1) < Len(text) => Len(t) = 3 * (m + 1)
         /\ \A k \in 1..(4 * (m + 1)) : text[k] = Standard(t)[k]
<1> DEFINE j == 4 * m + 1
           d == Decoded(j)
           l == Len(d)
<1>1. j + 1 = 4 * m + 2 /\ j + 2 = 4 * m + 3 /\ j + 3 = 4 * m + 4
  BY SMT
<1>2. Yields(j, d) /\ (j + 3 # Len(text) => l = 3)
  BY <1>1, RegularYields
<1>3. /\ d \in Seq(Bytes) /\ l \in 1..3
      /\ text[4 * m + 1] = Byte(d, 1) \div 4
      /\ text[4 * m + 2] = 16 * (Byte(d, 1) % 4) + Byte(d, 2) \div 16
      /\ text[4 * m + 3] = IF 2 <= l THEN 4 * (Byte(d, 2) % 16) + Byte(d, 3) \div 64 ELSE Pad
      /\ text[4 * m + 4] = IF 3 <= l THEN Byte(d, 3) % 64 ELSE Pad
  BY <1>1, <1>2, Zenon DEF Yields
<1>4. t = output \o d
  OBVIOUS
<1>5. Len(text) \in Nat /\ 4 * m < Len(text) /\ 4 * (m + 1) = 4 * m + 4
  <2> DEFINE e == Len(text)
  <2>1. e \in Nat /\ 4 * m + 4 <= e
    BY LenProperties
  <2> HIDE DEF e
  <2>2. e \in Nat /\ 4 * m < e /\ 4 * (m + 1) = 4 * m + 4
    BY <2>1, SMT
  <2> QED BY <2>2, Zenon DEF e
<1> HIDE DEF d, j
<1>6. Len(output) = 3 * m /\ \A k \in 1..(4 * m) : text[k] = Standard(output)[k]
  BY <1>5 DEF Undone
<1> DEFINE h == 3 * m
<1>7. h \in Nat
  BY SMT
<1> HIDE DEF h
<1>8. /\ t \in Seq(Bytes) /\ Len(t) = h + l
      /\ \A k \in 1..(h + l) : t[k] = IF k <= h THEN output[k] ELSE d[k - h]
  <2>1. /\ output \o d \in Seq(Bytes) /\ Len(output \o d) = Len(output) + Len(d)
        /\ \A k \in 1..(Len(output) + Len(d)) :
             (output \o d)[k] = IF k <= Len(output) THEN output[k] ELSE d[k - Len(output)]
    BY <1>3, ConcatProperties, Zenon
  <2> QED BY <1>4, <1>6, <2>1 DEF h
<1> HIDE DEF l
<1>9. \A r \in 1..3 : Byte(t, h + r) = Byte(d, r)
  <2> SUFFICES ASSUME NEW r \in 1..3 PROVE Byte(t, h + r) = Byte(d, r)
    OBVIOUS
  <2>1. CASE r <= l
    <3>1. h + r \in 1..(h + l) /\ ~(h + r <= h) /\ (h + r) - h = r /\ h + r <= h + l
      BY <1>3, <1>7, <2>1, SMT
    <3>2. t[h + r] = d[r]
      BY <1>8, <3>1, Zenon
    <3> QED BY <1>8, <2>1, <3>1, <3>2, Zenon DEF Byte, l
  <2>2. CASE ~(r <= l)
    <3>1. ~(h + r <= h + l)
      BY <1>3, <1>7, <2>2, SMT
    <3> QED BY <1>8, <2>2, <3>1, Zenon DEF Byte, l
  <2> QED BY <2>1, <2>2
<1>10. /\ Byte(t, 3 * m + 1) = Byte(d, 1) /\ Byte(t, 3 * m + 2) = Byte(d, 2)
       /\ Byte(t, 3 * m + 3) = Byte(d, 3)
  <2>1. 1 \in 1..3 /\ 2 \in 1..3 /\ 3 \in 1..3
    BY SMT
  <2> QED BY <1>9, <2>1, Zenon DEF h
<1>11. /\ 3 * m < Len(t) /\ (3 * m + 2 <= Len(t) <=> 2 <= l) /\ (3 * m + 3 <= Len(t) <=> 3 <= l)
       /\ Len(t) >= 3 * m /\ (Len(t) + 2) \div 3 = m + 1
       /\ l = 3 => Len(t) = 3 * (m + 1)
  <2>1. Len(t) = 3 * m + l
    BY <1>8 DEF h
  <2>2. l = 1 \/ l = 2 \/ l = 3
    BY <1>3, SMT
  <2> DEFINE e == Len(t)
  <2>3. e = 3 * m + l
    BY <2>1
  <2> HIDE DEF e
  <2>4. /\ 3 * m < e /\ (3 * m + 2 <= e <=> 2 <= l) /\ (3 * m + 3 <= e <=> 3 <= l)
        /\ e >= 3 * m /\ (l = 3 => e = 3 * (m + 1))
    BY <2>2, <2>3, SMT
  <2>5. (e + 2) \div 3 = m + 1
    <3>1. l + 2 \in 3..5 /\ e + 2 = 3 * m + (l + 2)
      BY <2>2, <2>3, SMT
    <3>2. \A g \in 3..5 : (3 * m + g) \div 3 = m + 1
      BY SMT
    <3> QED BY <3>1, <3>2
  <2> QED BY <2>4, <2>5, Zenon DEF e
<1>12. BlockStands(t, m)
  BY <1>8, <1>11, StandardBlock
<1>13. /\ text[4 * m + 1] = Standard(t)[4 * m + 1] /\ text[4 * m + 2] = Standard(t)[4 * m + 2]
       /\ text[4 * m + 3] = Standard(t)[4 * m + 3] /\ text[4 * m + 4] = Standard(t)[4 * m + 4]
  BY <1>3, <1>10, <1>11, <1>12, Zenon DEF BlockStands
<1>14. \A k \in 1..(4 * m) : text[k] = Standard(t)[k]
  <2>1. \A k \in 1..h : t[k] = output[k]
    <3>1. \A k \in 1..h : k \in 1..(h + l) /\ k <= h
      BY <1>3, <1>7, SMT
    <3> QED BY <1>8, <3>1, Zenon
  <2>2. \A k \in 1..(4 * m) : Standard(t)[k] = Standard(output)[k]
    BY <1>6, <1>8, <1>11, <2>1, StandardPrefix DEF h
  <2> QED BY <1>6, <2>2
<1>15. ASSUME NEW k \in 1..(4 * m + 4) PROVE text[k] = Standard(t)[k]
  <2>1. \/ k \in 1..(4 * m)
        \/ k = 4 * m + 1 \/ k = 4 * m + 2 \/ k = 4 * m + 3 \/ k = 4 * m + 4
    BY SMT
  <2> QED BY <1>13, <1>14, <2>1, Zenon
<1>16. 4 * (m + 1) < Len(text) => j + 3 # Len(text)
  <2>1. ~(4 * m + 4 < 4 * m + 4)
    BY SMT
  <2> QED BY <1>1, <1>5, <2>1
<1> QED BY <1>2, <1>5, <1>11, <1>15, <1>16 DEF l

-----------------------------------------------------------------------------
(* The inductive invariant *)

Encoding(m) ==
  /\ i = 3 * m /\ 3 * m <= Len(input) /\ Len(text) = 4 * m
  /\ \A k \in 1..(4 * m) : text[k] = Standard(input)[k]

Decoding(m) ==
  /\ i = 4 * m /\ 4 * m <= Len(text)
  /\ \A k \in 1..(4 * m) : text[k] # Foreign
  /\ Undone(m)
  /\ text = Standard(input) =>
       /\ Len(output) = IF 3 * m <= Len(input) THEN 3 * m ELSE Len(input)
       /\ \A k \in 1..Len(output) : output[k] = input[k]

CodecInv ==
  /\ CodecTypeOK
  /\ at \in {"encode", "encoded"} => ok /\ output = <<>>
  /\ at = "encode" => \E m \in Nat : Encoding(m)
  /\ at = "decode" => ok /\ \E m \in Nat : Decoding(m)
  /\ CodecIsStandard
  /\ RefusedWhole

LEMMA CodecInitially == Init => CodecInv
<1> SUFFICES ASSUME Init PROVE CodecInv
  OBVIOUS
<1>1. <<>> \in Seq(Bytes) /\ <<>> \in Seq(Symbols) /\ 0 \in Nat
  OBVIOUS
<1>2. input \in Seq(Bytes) /\ text \in Seq(Symbols)
  BY <1>1, CodecAssumption DEF Init, EncodeInit, DecodeInit
<1>3. CodecTypeOK
  BY <1>1, <1>2 DEF Init, EncodeInit, DecodeInit, CodecTypeOK
<1>4. ASSUME at = "encode" PROVE Encoding(0)
  <2>1. i = 0 /\ text = <<>> /\ 3 * 0 = 0 /\ 4 * 0 = 0
    BY <1>4 DEF Init, EncodeInit, DecodeInit
  <2>2. Len(input) \in Nat
    BY <1>2, LenProperties
  <2> QED BY <2>1, <2>2 DEF Encoding
<1>5. ASSUME at = "decode" PROVE Decoding(0)
  <2>1. i = 0 /\ input = <<>> /\ output = <<>> /\ 3 * 0 = 0 /\ 4 * 0 = 0
    BY <1>5 DEF Init, EncodeInit, DecodeInit
  <2>2. Len(text) \in Nat
    BY <1>2, LenProperties
  <2>3. Undone(0)
    BY <2>1, NothingDone, Zenon DEF Undone
  <2> QED BY <2>1, <2>2, <2>3 DEF Decoding
<1> QED BY <1>1, <1>3, <1>4, <1>5
     DEF Init, EncodeInit, DecodeInit, CodecInv, CodecIsStandard, RefusedWhole

-----------------------------------------------------------------------------
(* Encoding *)

LEMMA EncodingGrows ==
  ASSUME input \in Seq(Bytes), text \in Seq(Symbols),
         NEW m \in Nat, Encoding(m), 3 * m < Len(input),
         NEW block \in Seq(Symbols), Len(block) = 4,
         \A k \in 1..4 : block[k] = Standard(input)[4 * m + k]
  PROVE  /\ text \o block \in Seq(Symbols) /\ Len(text \o block) = 4 * (m + 1)
         /\ \A k \in 1..(4 * (m + 1)) : (text \o block)[k] = Standard(input)[k]
<1>1. Len(text) = 4 * m /\ \A k \in 1..(4 * m) : text[k] = Standard(input)[k]
  BY DEF Encoding
<1> DEFINE n == 4 * m
<1>2. n \in Nat /\ 4 * (m + 1) = n + 4
  BY SMT
<1> HIDE DEF n
<1>3. /\ text \o block \in Seq(Symbols) /\ Len(text \o block) = n + 4
      /\ \A k \in 1..(n + 4) : (text \o block)[k] = IF k <= n THEN text[k] ELSE block[k - n]
  <2>1. /\ text \o block \in Seq(Symbols) /\ Len(text \o block) = Len(text) + Len(block)
        /\ \A k \in 1..(Len(text) + Len(block)) :
             (text \o block)[k] = IF k <= Len(text) THEN text[k] ELSE block[k - Len(text)]
    BY ConcatProperties, Zenon
  <2> QED BY <1>1, <2>1 DEF n
<1>4. ASSUME NEW k \in 1..(n + 4) PROVE (text \o block)[k] = Standard(input)[k]
  <2>1. CASE k <= n
    <3>1. k \in 1..n
      BY <1>2, <2>1, SMT
    <3> QED BY <1>1, <1>3, <2>1, <3>1, Zenon DEF n
  <2>2. CASE ~(k <= n)
    <3>1. k - n \in 1..4 /\ n + (k - n) = k
      BY <1>2, <2>2, SMT
    <3>2. block[k - n] = Standard(input)[n + (k - n)]
      BY <3>1, Zenon DEF n
    <3> QED BY <1>3, <2>2, <3>1, <3>2, Zenon
  <2> QED BY <2>1, <2>2
<1> QED BY <1>2, <1>3, <1>4

ChunkOf(s, m) ==
  First4(Chunk(Byte(s, 3 * m + 1), Byte(s, 3 * m + 2), Byte(s, 3 * m + 3)), 4)

Encodes(block, s, m) ==
  /\ block \in Seq(Symbols) /\ Len(block) = 4
  /\ \A k \in 1..4 : block[k] = Standard(s)[4 * m + k]

LEMMA FullBlock ==
  ASSUME NEW s \in Seq(Bytes), NEW m \in Nat, 3 * m < Len(s), 3 * m + 3 <= Len(s)
  PROVE  Encodes(ChunkOf(s, m), s, m)
<1>1. 4 = IF 3 * m + 3 <= Len(s) THEN 4 ELSE IF 3 * m + 2 <= Len(s) THEN 3 ELSE 2
  OBVIOUS
<1>2. 4 \in 2..4
  BY SMT
<1> QED BY <1>1, <1>2, EncodedBlock, Zenon DEF Encodes, ChunkOf

LEMMA EncodeChunkKeeps ==
  ASSUME CodecInv, EncodeChunk
  PROVE  CodecInv'
<1>1. input \in Seq(Bytes) /\ text \in Seq(Symbols) /\ Len(input) \in Nat
  BY LenProperties DEF CodecInv, CodecTypeOK
<1>2. PICK m \in Nat : Encoding(m)
  BY DEF CodecInv, EncodeChunk
<1>3. i = 3 * m /\ 3 * m + 3 <= Len(input) /\ 3 * m < Len(input) /\ i + 3 = 3 * (m + 1)
  BY <1>1, <1>2, SMT DEF Encoding, EncodeChunk
<1> DEFINE block == First4(Chunk(input[i + 1], input[i + 2], input[i + 3]), 4)
<1>4. /\ input[i + 1] = Byte(input, 3 * m + 1) /\ input[i + 2] = Byte(input, 3 * m + 2)
      /\ input[i + 3] = Byte(input, 3 * m + 3)
  BY <1>1, <1>3, SMT DEF Byte
<1>5. /\ block \in Seq(Symbols) /\ Len(block) = 4
      /\ \A k \in 1..4 : block[k] = Standard(input)[4 * m + k]
  <2>1. block = ChunkOf(input, m)
    BY <1>4 DEF ChunkOf
  <2>2. Encodes(ChunkOf(input, m), input, m)
    BY <1>1, <1>3, FullBlock
  <2> HIDE DEF block
  <2> QED BY <2>1, <2>2, Zenon DEF Encodes
<1>6. text' = text \o block /\ i' = 3 * (m + 1) /\ UNCHANGED <<at, input, ok, output>>
  BY <1>3 DEF EncodeChunk
<1> HIDE DEF block
<1>7. /\ text' \in Seq(Symbols) /\ Len(text') = 4 * (m + 1)
      /\ \A k \in 1..(4 * (m + 1)) : text'[k] = Standard(input)[k]
  BY <1>1, <1>2, <1>3, <1>5, <1>6, EncodingGrows
<1>8. m + 1 \in Nat /\ 3 * (m + 1) <= Len(input) /\ 3 * (m + 1) \in Nat
  BY <1>1, <1>3, SMT
<1>9. Encoding(m + 1)'
  BY <1>6, <1>7, <1>8 DEF Encoding
<1>10. at = "encode"
  BY DEF EncodeChunk
<1> QED BY <1>6, <1>7, <1>8, <1>9, <1>10 DEF CodecInv, CodecTypeOK, CodecIsStandard, RefusedWhole

LEMMA EncodeRestKeeps ==
  ASSUME CodecInv, EncodeRest
  PROVE  CodecInv'
<1> DEFINE remaining == Len(input) - i
<1>1. input \in Seq(Bytes) /\ text \in Seq(Symbols) /\ Len(input) \in Nat
  BY LenProperties DEF CodecInv, CodecTypeOK
<1>2. PICK m \in Nat : Encoding(m)
  BY DEF CodecInv, EncodeRest
<1>3. i = 3 * m /\ 3 * m <= Len(input) /\ Len(input) <= 3 * m + 2
  BY <1>1, <1>2, SMT DEF Encoding, EncodeRest
<1>4. /\ Standard(input) \in Seq(Symbols)
      /\ Len(Standard(input)) = 4 * ((Len(input) + 2) \div 3)
  BY <1>1, StandardType
<1>5. text' = Standard(input)
  <2>1. CASE Len(input) = 3 * m
    <3>1. text' = text
      BY <1>1, <1>3, <2>1, SMT DEF EncodeRest
    <3>2. Len(Standard(input)) = 4 * m
      BY <1>4, <2>1, SMT
    <3> QED BY <1>1, <1>2, <1>4, <3>1, <3>2, SeqEqual DEF Encoding
  <2>2. CASE Len(input) = 3 * m + 1
    <3> DEFINE block == First4(Chunk(input[i + 1], 0, 0), 2)
    <3>1. text' = text \o block
      BY <1>1, <1>3, <2>2, SMT DEF EncodeRest
    <3>2. /\ input[i + 1] = Byte(input, 3 * m + 1) /\ 0 = Byte(input, 3 * m + 2)
          /\ 0 = Byte(input, 3 * m + 3)
      BY <1>1, <1>3, <2>2, SMT DEF Byte
    <3>3. 3 * m < Len(input) /\ 2 = IF 3 * m + 3 <= Len(input) THEN 4 ELSE IF 3 * m + 2 <= Len(input) THEN 3 ELSE 2
      BY <1>1, <2>2, SMT
    <3>4. /\ block \in Seq(Symbols) /\ Len(block) = 4
          /\ \A k \in 1..4 : block[k] = Standard(input)[4 * m + k]
      BY <1>1, <3>2, <3>3, EncodedBlock
    <3> HIDE DEF block
    <3>5. /\ text' \in Seq(Symbols) /\ Len(text') = 4 * (m + 1)
          /\ \A k \in 1..(4 * (m + 1)) : text'[k] = Standard(input)[k]
      BY <1>1, <1>2, <3>1, <3>3, <3>4, EncodingGrows
    <3>6. Len(Standard(input)) = 4 * (m + 1)
      BY <1>4, <2>2, SMT
    <3> QED BY <1>4, <3>5, <3>6, SeqEqual
  <2>3. CASE Len(input) = 3 * m + 2
    <3> DEFINE block == First4(Chunk(input[i + 1], input[i + 2], 0), 3)
    <3>1. text' = text \o block
      BY <1>1, <1>3, <2>3, SMT DEF EncodeRest
    <3>2. /\ input[i + 1] = Byte(input, 3 * m + 1) /\ input[i + 2] = Byte(input, 3 * m + 2)
          /\ 0 = Byte(input, 3 * m + 3)
      BY <1>1, <1>3, <2>3, SMT DEF Byte
    <3>3. 3 * m < Len(input) /\ 3 = IF 3 * m + 3 <= Len(input) THEN 4 ELSE IF 3 * m + 2 <= Len(input) THEN 3 ELSE 2
      BY <1>1, <2>3, SMT
    <3>4. /\ block \in Seq(Symbols) /\ Len(block) = 4
          /\ \A k \in 1..4 : block[k] = Standard(input)[4 * m + k]
      BY <1>1, <3>2, <3>3, EncodedBlock
    <3> HIDE DEF block
    <3>5. /\ text' \in Seq(Symbols) /\ Len(text') = 4 * (m + 1)
          /\ \A k \in 1..(4 * (m + 1)) : text'[k] = Standard(input)[k]
      BY <1>1, <1>2, <3>1, <3>3, <3>4, EncodingGrows
    <3>6. Len(Standard(input)) = 4 * (m + 1)
      BY <1>4, <2>3, SMT
    <3> QED BY <1>4, <3>5, <3>6, SeqEqual
  <2> QED BY <1>1, <1>3, <2>1, <2>2, <2>3, SMT
<1>6. at = "encode" /\ at' = "encoded" /\ UNCHANGED <<input, i, ok, output>>
  BY DEF EncodeRest
<1> QED BY <1>4, <1>5, <1>6 DEF CodecInv, CodecTypeOK, CodecIsStandard, RefusedWhole

LEMMA HandOverKeeps ==
  ASSUME CodecInv, HandOver
  PROVE  CodecInv'
<1>1. input \in Seq(Bytes) /\ text \in Seq(Symbols) /\ Len(input) \in Nat /\ Len(text) \in Nat
  BY LenProperties DEF CodecInv, CodecTypeOK
<1>2. /\ at = "encoded" /\ at' = "decode" /\ i' = 0
      /\ UNCHANGED <<input, text, ok, output>> /\ ok /\ output = <<>>
  BY DEF HandOver, CodecInv
<1>3. Decoding(0)'
  <2>1. 4 * 0 = 0 /\ 3 * 0 = 0 /\ 0 <= Len(text) /\ 0 <= Len(input)
    BY <1>1
  <2>2. Undone(0)'
    BY <1>2, NothingDone, Zenon DEF Undone
  <2> QED BY <1>2, <2>1, <2>2 DEF Decoding
<1> QED BY <1>2, <1>3, 0 \in Nat DEF CodecInv, CodecTypeOK, CodecIsStandard, RefusedWhole

-----------------------------------------------------------------------------
(* Decoding *)

(* A text that is refused is no encoding.                                  *)
LEMMA RejectKeeps ==
  ASSUME CodecInv, RejectLength \/ RejectBlock
  PROVE  CodecInv'
<1>1. input \in Seq(Bytes) /\ text \in Seq(Symbols) /\ Len(text) \in Nat
  BY LenProperties DEF CodecInv, CodecTypeOK
<1>2. at' = "decoded" /\ ok' = FALSE /\ output' = <<>> /\ UNCHANGED <<input, text, i>>
  BY DEF RejectLength, RejectBlock, Reject
<1>3. Len(text) % 4 # 0 \/ \E j \in 1..Len(text) : text[j] = Foreign
  <2>1. CASE RejectLength
    BY <2>1 DEF RejectLength
  <2>2. CASE RejectBlock
    <3>1. at = "decode" /\ Len(text) % 4 = 0 /\ i < Len(text) /\ HasForeign
      BY <2>2 DEF RejectBlock
    <3>2. PICK m \in Nat : Decoding(m)
      BY <3>1 DEF CodecInv
    <3>3. PICK j \in (i + 1)..(i + 4) : text[j] = Foreign
      BY <3>1 DEF HasForeign
    <3>4. j \in 1..Len(text)
      BY <1>1, <3>1, <3>2, SMT DEF Decoding
    <3> QED BY <3>3, <3>4
  <2> QED BY <2>1, <2>2
<1>4. text # Standard(input)
  BY <1>1, <1>3, StandardType, Zenon
<1>5. <<>> \in Seq(Bytes)
  OBVIOUS
<1> QED BY <1>2, <1>3, <1>4, <1>5 DEF CodecInv, CodecTypeOK, CodecIsStandard, RefusedWhole

LEMMA DecodeBlockKeeps ==
  ASSUME CodecInv, DecodeBlock
  PROVE  CodecInv'
<1>1. input \in Seq(Bytes) /\ text \in Seq(Symbols) /\ output \in Seq(Bytes)
      /\ Len(input) \in Nat /\ Len(text) \in Nat /\ Len(output) \in Nat
  BY LenProperties DEF CodecInv, CodecTypeOK
<1>2. PICK m \in Nat : Decoding(m)
  BY DEF CodecInv, DecodeBlock
<1>3. /\ at = "decode" /\ Len(text) % 4 = 0 /\ i < Len(text) /\ ~HasForeign
      /\ output' = output \o Decoded(i + 1) /\ i' = i + 4
      /\ UNCHANGED <<at, input, text, ok>> /\ ok
  BY DEF DecodeBlock, CodecInv
<1>4. i = 4 * m /\ 4 * m + 4 <= Len(text) /\ 4 * m < Len(text)
  <2>1. i = 4 * m /\ 4 * m <= Len(text)
    BY <1>2 DEF Decoding
  <2> DEFINE l == Len(text)
  <2>2. l \in Nat /\ l % 4 = 0 /\ 4 * m < l
    BY <1>1, <1>3, <2>1
  <2> HIDE DEF l
  <2>3. 4 * m + 4 <= l
    BY <2>2, SMT
  <2> QED BY <2>1, <2>2, <2>3 DEF l
<1>5. i' = 4 * (m + 1) /\ 4 * (m + 1) <= Len(text) /\ m + 1 \in Nat /\ 4 * (m + 1) \in Nat
  BY <1>3, <1>4, SMT
<1>6. ASSUME NEW k \in 1..(4 * (m + 1)) PROVE text[k] # Foreign
  <2>1. CASE k \in 1..(4 * m)
    BY <1>2, <2>1 DEF Decoding
  <2>2. CASE k \notin 1..(4 * m)
    <3>1. k \in (i + 1)..(i + 4)
      BY <1>4, <2>2, SMT
    <3> QED BY <1>3, <3>1 DEF HasForeign
  <2> QED BY <2>1, <2>2
<1> DEFINE more == Decoded(4 * m + 1)
<1>7. output' = output \o more
  BY <1>3, <1>4
<1>8. more \in Seq(Bytes)
  <2>1. 4 * m + 1 \in Nat \ {0} /\ (4 * m + 1) + 3 <= Len(text)
    BY <1>1, <1>4, SMT
  <2> QED BY <1>1, <2>1, DecodedType
<1>9. ASSUME text = Standard(input)
      PROVE  /\ Len(output') = IF 3 * (m + 1) <= Len(input) THEN 3 * (m + 1) ELSE Len(input)
             /\ \A k \in 1..Len(output') : output'[k] = input[k]
  <2>1. /\ 3 * m < Len(input)
        /\ Len(more) = IF 3 * m + 3 <= Len(input) THEN 3 ELSE Len(input) - 3 * m
        /\ \A k \in 1..Len(more) : more[k] = input[3 * m + k]
    BY <1>1, <1>4, <1>9, DecodedBlock
  <2>2. Len(output) = 3 * m /\ \A k \in 1..(3 * m) : output[k] = input[k]
    BY <1>1, <1>2, <1>9, <2>1 DEF Decoding
  <2> HIDE DEF more
  <2>3. Len(more) \in Nat
    BY <1>8, LenProperties
  <2> DEFINE n == 3 * m
  <2>4. n \in Nat
    BY SMT
  <2>5. /\ Len(output') = n + Len(more)
        /\ \A k \in 1..(n + Len(more)) : output'[k] = IF k <= n THEN output[k] ELSE more[k - n]
    <3>1. /\ Len(output \o more) = Len(output) + Len(more)
          /\ \A k \in 1..(Len(output) + Len(more)) :
               (output \o more)[k] = IF k <= Len(output) THEN output[k] ELSE more[k - Len(output)]
      BY <1>1, <1>8, ConcatProperties, Zenon
    <3> QED BY <1>7, <2>2, <3>1
  <2> HIDE DEF n
  <2>6. ASSUME NEW k \in 1..(n + Len(more)) PROVE output'[k] = input[k]
    <3>1. CASE k <= n
      <4>1. k \in 1..n
        BY <2>3, <2>4, <3>1, SMT
      <4> QED BY <2>2, <2>5, <3>1, <4>1, Zenon DEF n
    <3>2. CASE ~(k <= n)
      <4>1. k - n \in 1..Len(more) /\ n + (k - n) = k
        BY <2>3, <2>4, <3>2, SMT
      <4>2. more[k - n] = input[n + (k - n)]
        BY <2>1, <4>1, Zenon DEF n
      <4> QED BY <2>5, <3>2, <4>1, <4>2, Zenon
    <3> QED BY <3>1, <3>2
  <2>7. n + Len(more) = IF 3 * (m + 1) <= Len(input) THEN 3 * (m + 1) ELSE Len(input)
    <3> DEFINE l == Len(input)
               p == Len(more)
    <3>1. l \in Nat /\ 3 * m < l /\ p = IF 3 * m + 3 <= l THEN 3 ELSE l - 3 * m
      BY <1>1, <2>1
    <3> HIDE DEF l, p
    <3>2. n + p = IF 3 * (m + 1) <= l THEN 3 * (m + 1) ELSE l
      BY <3>1, SMT DEF n
    <3> QED BY <3>2 DEF l, p
  <2> QED BY <2>5, <2>6, <2>7
<1> HIDE DEF more
<1>10. output' \in Seq(Bytes)
  BY <1>1, <1>7, <1>8, ConcatProperties
<1>11. Undone(m + 1)'
  <2> SUFFICES ASSUME Regular' PROVE /\ (Len(output') + 2) \div 3 = m + 1
                                     /\ 4 * (m + 1) < Len(text') => Len(output') = 3 * (m + 1)
                                     /\ \A k \in 1..(4 * (m + 1)) : text'[k] = Standard(output')[k]
    BY Zenon DEF Undone
  <2>1. Regular
    BY <1>3, Zenon DEF Regular, PadAstray, SpareBits
  <2>2. Undone(m)
    BY <1>2 DEF Decoding
  <2>3. \A k \in (4 * m + 1)..(4 * m + 4) : text[k] # Foreign
    <3>1. \A k \in (4 * m + 1)..(4 * m + 4) : k \in 1..(4 * (m + 1))
      BY SMT
    <3> QED BY <1>6, <3>1
  <2>4. output' = output \o Decoded(4 * m + 1)
    BY <1>7 DEF more
  <2>5. /\ (Len(output') + 2) \div 3 = m + 1
        /\ 4 * (m + 1) < Len(text) => Len(output') = 3 * (m + 1)
        /\ \A k \in 1..(4 * (m + 1)) : text[k] = Standard(output')[k]
    BY <1>1, <1>3, <1>4, <2>1, <2>2, <2>3, <2>4, UndoneGrows
  <2> QED BY <1>3, <2>5
<1>12. Decoding(m + 1)'
  BY <1>3, <1>5, <1>6, <1>9, <1>11 DEF Decoding
<1> QED BY <1>3, <1>5, <1>10, <1>12 DEF CodecInv, CodecTypeOK, CodecIsStandard, RefusedWhole

LEMMA DecodeEndKeeps ==
  ASSUME CodecInv, DecodeEnd
  PROVE  CodecInv'
<1>1. input \in Seq(Bytes) /\ text \in Seq(Symbols) /\ output \in Seq(Bytes)
      /\ Len(input) \in Nat /\ Len(text) \in Nat /\ Len(output) \in Nat
  BY LenProperties DEF CodecInv, CodecTypeOK
<1>2. PICK m \in Nat : Decoding(m)
  BY DEF CodecInv, DecodeEnd
<1>3. /\ at = "decode" /\ at' = "decoded" /\ Len(text) % 4 = 0 /\ ok
      /\ UNCHANGED <<input, text, i, ok, output>>
  BY DEF DecodeEnd, CodecInv
<1>4. Len(text) = 4 * m
  <2>1. i = 4 * m /\ 4 * m <= Len(text) /\ i >= Len(text)
    BY <1>2 DEF Decoding, DecodeEnd
  <2> QED BY <1>1, <2>1, SMT
<1>5. \A k \in 1..Len(text) : text[k] # Foreign
  BY <1>2, <1>4 DEF Decoding
<1>6. ASSUME text = Standard(input) PROVE output = input
  <2>1. 4 * m = 4 * ((Len(input) + 2) \div 3)
    BY <1>1, <1>4, <1>6, StandardType, Zenon
  <2>2. Len(input) <= 3 * m
    BY <1>1, <2>1, SMT
  <2>3. /\ Len(output) = IF 3 * m <= Len(input) THEN 3 * m ELSE Len(input)
        /\ \A k \in 1..Len(output) : output[k] = input[k]
    BY <1>2, <1>6 DEF Decoding
  <2>4. Len(output) = Len(input)
    BY <1>1, <2>2, <2>3, SMT
  <2> QED BY <1>1, <2>3, <2>4, SeqEqual
<1>7. text = Standard(output) \/ PadAstray(text) \/ SpareBits(text)
  <2> SUFFICES ASSUME Regular PROVE text = Standard(output)
    BY DEF Regular
  <2>1. (Len(output) + 2) \div 3 = m /\ \A k \in 1..(4 * m) : text[k] = Standard(output)[k]
    BY <1>2, Zenon DEF Decoding, Undone
  <2>2. Standard(output) \in Seq(Symbols) /\ Len(Standard(output)) = 4 * m
    BY <1>1, <2>1, StandardType, Zenon
  <2> QED BY <1>1, <1>4, <2>1, <2>2, SeqEqual
<1> QED BY <1>3, <1>5, <1>6, <1>7
     DEF CodecInv, CodecTypeOK, CodecIsStandard, RefusedWhole, PadAstray, SpareBits

-----------------------------------------------------------------------------

LEMMA CodecInvStep == CodecInv /\ [CodecStep \/ HandOver]_codecVars => CodecInv'
<1> SUFFICES ASSUME CodecInv, [CodecStep \/ HandOver]_codecVars PROVE CodecInv'
  OBVIOUS
<1>1. CASE EncodeChunk
  BY <1>1, EncodeChunkKeeps
<1>2. CASE EncodeRest
  BY <1>2, EncodeRestKeeps
<1>3. CASE HandOver
  BY <1>3, HandOverKeeps
<1>4. CASE RejectLength \/ RejectBlock
  BY <1>4, RejectKeeps
<1>5. CASE DecodeBlock
  BY <1>5, DecodeBlockKeeps
<1>6. CASE DecodeEnd
  BY <1>6, DecodeEndKeeps
<1>7. CASE UNCHANGED codecVars
  BY <1>7 DEF codecVars, CodecInv, CodecTypeOK, CodecIsStandard, RefusedWhole, PadAstray, SpareBits,
           Encoding, Decoding, Undone, Regular
<1> QED BY <1>1, <1>2, <1>3, <1>4, <1>5, <1>6, <1>7 DEF CodecStep

LEMMA CodecInvHolds == Spec => []CodecInv
BY CodecInitially, CodecInvStep, PTL DEF Spec

(* The two loops stay within the bytes and the characters they are given.  *)
THEOREM CodecTypes == Spec => []CodecTypeOK
<1>1. CodecInv => CodecTypeOK
  BY DEF CodecInv
<1> QED BY <1>1, CodecInvHolds, PTL

(* base64_encode writes the standard encoding of inputs of every length,   *)
(* and base64_decode gives back the bytes of each: a payload of any size   *)
(* reaches its handler as the client gave it.                              *)
THEOREM CodecIsStandardHolds == Spec => []CodecIsStandard
<1>1. CodecInv => CodecIsStandard
  BY DEF CodecInv
<1> QED BY <1>1, CodecInvHolds, PTL

(* base64_decode refuses exactly the texts whose length is no multiple of  *)
(* four or that hold a foreign character, and then gives no bytes; every   *)
(* text it accepts is the standard encoding of the bytes it gives, but for *)
(* a '=' out of place and for bits behind the last byte, which the Rust    *)
(* crate refuses.                                                          *)
THEOREM RefusedWholeHolds == Spec => []RefusedWhole
<1>1. CodecInv => RefusedWhole
  BY DEF CodecInv
<1> QED BY <1>1, CodecInvHolds, PTL
=============================================================================
