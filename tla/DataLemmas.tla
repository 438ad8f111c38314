----------------------------- MODULE DataLemmas -----------------------------
(***************************************************************************)
(* Induction over the numbers, in a form without operator parameters, and  *)
(* what it gives: functions defined by recursion exist, and hence what the *)
(* recursive operators of the models compute.                              *)
(***************************************************************************)
EXTENDS Integers, Sequences, SequencesExt, Filter, SequenceTheorems, WellFoundedInduction, TLAPS

LEMMA LeastNumber ==
  ASSUME NEW T \in SUBSET Nat, T # {}
  PROVE  \E n \in T : \A m \in T : n <= m
<1>1. PICK n \in T : \A m \in T : ~ (<<m, n>> \in OpToRel(<, Nat))
  BY WFMin, NatLessThanWellFounded
<1>2. \A m \in T : ~ (m < n)
  BY <1>1 DEF OpToRel
<1> QED BY <1>2

LEMMA Induction ==
  ASSUME NEW P, 0 \in P, \A n \in Nat : n \in P => n + 1 \in P
  PROVE  Nat \subseteq P
<1> SUFFICES ASSUME NEW k \in Nat, k \notin P PROVE FALSE
  OBVIOUS
<1> DEFINE T == {n \in Nat : n \notin P}
<1>1. PICK n \in T : \A m \in T : n <= m
  BY LeastNumber
<1>2. n # 0 /\ n - 1 \in Nat /\ n - 1 \in P
  BY <1>1
<1> QED BY <1>1, <1>2

LEMMA InductionUpTo ==
  ASSUME NEW P, NEW top \in Nat, 0 \in P, \A n \in 0..(top - 1) : n \in P => n + 1 \in P
  PROVE  0..top \subseteq P
<1> DEFINE Q == P \cup {n \in Nat : n > top}
<1>1. 0 \in Q
  OBVIOUS
<1>2. \A n \in Nat : n \in Q => n + 1 \in Q
  OBVIOUS
<1>3. Nat \subseteq Q
  <2> HIDE DEF Q
  <2> QED BY <1>1, <1>2, Induction
<1> QED BY <1>3

-----------------------------------------------------------------------------
(* A function may be defined by its first value and a step from each value *)
(* to the next.                                                            *)

Follows(g, first, step, n) ==
  g[0] = first /\ \A k \in 0..(n - 1) : g[k + 1] = step[<<k, g[k]>>]

LEMMA FollowersAgree ==
  ASSUME NEW first, NEW step, NEW m \in Nat, NEW n \in Nat, m <= n, NEW g, NEW h,
         Follows(g, first, step, m), Follows(h, first, step, n)
  PROVE  \A k \in 0..m : g[k] = h[k]
<1> DEFINE P == {k \in 0..m : g[k] = h[k]}
<1>1. 0 \in P
  BY DEF Follows
<1>2. ASSUME NEW k \in 0..(m - 1), k \in P PROVE k + 1 \in P
  <2>1. k + 1 \in 0..m /\ k \in 0..(n - 1) /\ g[k] = h[k]
    BY <1>2
  <2>2. g[k + 1] = step[<<k, g[k]>>] /\ h[k + 1] = step[<<k, h[k]>>]
    BY <2>1 DEF Follows
  <2> QED BY <2>1, <2>2
<1>3. 0..m \subseteq P
  <2> HIDE DEF P
  <2> QED BY <1>1, <1>2, InductionUpTo
<1> QED BY <1>3

LEMMA FollowerExists ==
  ASSUME NEW S, NEW first \in S, NEW step \in [Nat \X S -> S]
  PROVE  \A n \in Nat : \E g \in [0..n -> S] : Follows(g, first, step, n)
<1> DEFINE P == {n \in Nat : \E g \in [0..n -> S] : Follows(g, first, step, n)}
<1>1. 0 \in P
  <2> DEFINE g == [k \in 0..0 |-> first]
  <2>1. g \in [0..0 -> S] /\ g[0] = first /\ 0..(0 - 1) = {}
    OBVIOUS
  <2> QED BY <2>1 DEF Follows
<1>2. ASSUME NEW n \in Nat, n \in P PROVE n + 1 \in P
  <2>1. PICK g \in [0..n -> S] : Follows(g, first, step, n)
    BY <1>2
  <2> DEFINE h == [k \in 0..(n + 1) |-> IF k = n + 1 THEN step[<<n, g[n]>>] ELSE g[k]]
  <2>2. g[n] \in S /\ <<n, g[n]>> \in Nat \X S
    OBVIOUS
  <2>3. h \in [0..(n + 1) -> S]
    BY <2>2
  <2>4. \A k \in 0..n : h[k] = g[k]
    OBVIOUS
  <2>5. h[n + 1] = step[<<n, h[n]>>]
    <3>1. h[n] = g[n] /\ h[n + 1] = step[<<n, g[n]>>]
      OBVIOUS
    <3> HIDE DEF h
    <3> QED BY <3>1
  <2> HIDE DEF h
  <2>6. ASSUME NEW k \in 0..((n + 1) - 1) PROVE h[k + 1] = step[<<k, h[k]>>]
    <3>1. CASE k = n
      BY <2>5, <3>1
    <3>2. CASE k # n
      <4>1. k \in 0..(n - 1) /\ k + 1 \in 0..n /\ k \in 0..n
        BY <3>2
      <4> QED BY <2>1, <2>4, <4>1 DEF Follows
    <3> QED BY <3>1, <3>2
  <2>7. h[0] = first
    BY <2>1, <2>4 DEF Follows
  <2>8. Follows(h, first, step, n + 1)
    BY <2>6, <2>7 DEF Follows
  <2> QED BY <2>3, <2>8
<1>3. Nat \subseteq P
  <2> HIDE DEF P
  <2> QED BY <1>1, <1>2, Induction
<1> QED BY <1>3

Unrolls(f, S, first, step) ==
  f \in [Nat -> S] /\ f[0] = first /\ \A n \in Nat : f[n + 1] = step[<<n, f[n]>>]

LEMMA Recursion ==
  ASSUME NEW S, NEW first \in S, NEW step \in [Nat \X S -> S]
  PROVE  \E f : Unrolls(f, S, first, step)
<1> DEFINE G(n) == CHOOSE g \in [0..n -> S] : Follows(g, first, step, n)
           f == [n \in Nat |-> G(n)[n]]
<1>1. \A n \in Nat : G(n) \in [0..n -> S] /\ Follows(G(n), first, step, n)
  BY FollowerExists
<1> HIDE DEF G
<1>2. f \in [Nat -> S]
  <2>1. \A n \in Nat : n \in 0..n
    OBVIOUS
  <2> QED BY <1>1, <2>1
<1>3. f[0] = first
  BY <1>1 DEF Follows
<1>4. ASSUME NEW n \in Nat PROVE f[n + 1] = step[<<n, f[n]>>]
  <2>1. \A k \in 0..n : G(n)[k] = G(n + 1)[k]
    BY <1>1, FollowersAgree
  <2>2. f[n] = G(n + 1)[n] /\ f[n + 1] = G(n + 1)[n + 1]
    BY <2>1
  <2>3. G(n + 1)[n + 1] = step[<<n, G(n + 1)[n]>>]
    BY <1>1 DEF Follows
  <2> HIDE DEF f
  <2> QED BY <2>2, <2>3
<1> HIDE DEF f
<1>5. Unrolls(f, S, first, step)
  BY <1>2, <1>3, <1>4 DEF Unrolls
<1> QED BY <1>5

-----------------------------------------------------------------------------
(* Sequences                                                               *)

Joins(u, s, t, m, n) ==   \* u is s, of length m, and then t, of length n
  /\ Len(u) = m + n
  /\ \A i \in 1..m : u[i] = s[i]
  /\ \A i \in 1..n : u[m + i] = t[i]

LEMMA Concatenated ==
  ASSUME NEW S, NEW s \in Seq(S), NEW t \in Seq(S),
         NEW m \in Nat, NEW n \in Nat, Len(s) = m, Len(t) = n
  PROVE  s \o t \in Seq(S) /\ Joins(s \o t, s, t, m, n)
<1>1. /\ s \o t \in Seq(S) /\ Len(s \o t) = Len(s) + Len(t)
      /\ \A i \in 1..(Len(s) + Len(t)) :
           (s \o t)[i] = IF i <= Len(s) THEN s[i] ELSE t[i - Len(s)]
  BY ConcatProperties
<1>2. \A i \in 1..(m + n) : (s \o t)[i] = IF i <= m THEN s[i] ELSE t[i - m]
  BY <1>1
<1>3. ASSUME NEW i \in 1..n PROVE (s \o t)[m + i] = t[i]
  <2>1. m + i \in 1..(m + n) /\ ~ (m + i <= m) /\ (m + i) - m = i
    OBVIOUS
  <2> QED BY <1>2, <2>1
<1> QED BY <1>1, <1>2, <1>3 DEF Joins

-----------------------------------------------------------------------------
(* FlattenSeq, by its parts.                                               *)

Flattens(g, seqs, S) ==
  /\ \A k \in 1..Len(seqs) : g[k] \in Seq(S)
  /\ g[1] = seqs[1]
  /\ \A k \in 1..(Len(seqs) - 1) : g[k + 1] = g[k] \o seqs[k + 1]
  /\ FlattenSeq(seqs) = g[Len(seqs)]

LEMMA FlattenUnfolds ==
  ASSUME NEW S, NEW seqs \in Seq(Seq(S)), Len(seqs) # 0
  PROVE  \E g : Flattens(g, seqs, S)
<1> DEFINE L == Len(seqs)
           T == Seq(S)
           step == [p \in Nat \X T |-> IF p[1] + 2 \in 1..L THEN p[2] \o seqs[p[1] + 2] ELSE p[2]]
           Def(g) == [k \in 1..L |-> IF k = 1 THEN seqs[k] ELSE g[k - 1] \o seqs[k]]
<1>1. L \in Nat /\ L # 0 /\ 1 \in 1..L /\ \A k \in 1..L : seqs[k] \in T
  OBVIOUS
<1>2. step \in [Nat \X T -> T]
  <2>1. ASSUME NEW p \in Nat \X T
        PROVE  (IF p[1] + 2 \in 1..L THEN p[2] \o seqs[p[1] + 2] ELSE p[2]) \in T
    <3>1. p[2] \in T
      OBVIOUS
    <3>2. p[1] + 2 \in 1..L => p[2] \o seqs[p[1] + 2] \in T
      <4>1. \A s, t \in T : s \o t \in T
        BY ConcatProperties
      <4> HIDE DEF T, L
      <4> QED BY <1>1, <3>1, <4>1
    <3> HIDE DEF T, L
    <3> QED BY <3>1, <3>2
  <2> HIDE DEF T, L
  <2> QED BY <2>1
<1>3. PICK f : Unrolls(f, T, seqs[1], step)
  <2> HIDE DEF T, L, step
  <2> QED BY <1>1, <1>2, Recursion
<1> HIDE DEF T
<1>4. /\ \A n \in Nat : f[n] \in T
      /\ f[0] = seqs[1]
      /\ \A n \in Nat : n + 2 \in 1..L => f[n + 1] = f[n] \o seqs[n + 2]
  BY <1>3 DEF Unrolls
<1> DEFINE g == [k \in 1..L |-> f[k - 1]]
<1>5. g[1] = seqs[1]
  BY <1>1, <1>4
<1>6. ASSUME NEW k \in 2..L PROVE g[k] = g[k - 1] \o seqs[k]
  <2>1. k - 2 \in Nat /\ (k - 2) + 2 = k /\ (k - 2) + 1 = k - 1 /\ k \in 1..L /\ k - 1 \in 1..L
        /\ (k - 1) - 1 = k - 2
    BY <1>1
  <2>2. f[k - 1] = f[k - 2] \o seqs[k]
    BY <1>4, <2>1
  <2> QED BY <2>1, <2>2
<1>7. g = Def(g)
  <2>1. ASSUME NEW k \in 1..L PROVE g[k] = IF k = 1 THEN seqs[k] ELSE g[k - 1] \o seqs[k]
    <3> HIDE DEF g, L
    <3>1. k = 1 \/ k \in 2..L
      BY <1>1
    <3> QED BY <1>5, <1>6, <3>1
  <2> QED BY <2>1
<1> DEFINE h == CHOOSE x : x = Def(x)
<1>8. h = Def(h)
  <2> HIDE DEF Def
  <2> QED BY <1>7
<1>9. FlattenSeq(seqs) = h[L]
  BY <1>1 DEF FlattenSeq
<1> HIDE DEF h, g, step
<1>10. h[1] = seqs[1] /\ \A k \in 2..L : h[k] = h[k - 1] \o seqs[k]
  <2>1. \A k \in 1..L : h[k] = IF k = 1 THEN seqs[k] ELSE h[k - 1] \o seqs[k]
    BY <1>8
  <2> HIDE DEF Def
  <2>2. \A k \in 2..L : k \in 1..L /\ k # 1
    BY <1>1
  <2> QED BY <1>1, <2>1, <2>2
<1> HIDE DEF Def
<1>11. \A k \in 1..(L - 1) : h[k + 1] = h[k] \o seqs[k + 1]
  <2> SUFFICES ASSUME NEW k \in 1..(L - 1) PROVE h[k + 1] = h[k] \o seqs[k + 1]
    OBVIOUS
  <2>1. k + 1 \in 2..L /\ (k + 1) - 1 = k
    BY <1>1
  <2> QED BY <1>10, <2>1
<1>12. \A k \in 1..L : h[k] \in T
  <2> DEFINE P == {k \in 0..(L - 1) : h[k + 1] \in T}
  <2>1. 0 \in P
    BY <1>1, <1>10
  <2>2. \A k \in 0..((L - 1) - 1) : k \in P => k + 1 \in P
    <3> SUFFICES ASSUME NEW k \in 0..((L - 1) - 1), h[k + 1] \in T PROVE k + 1 \in P
      OBVIOUS
    <3>1. k + 1 \in 1..(L - 1) /\ (k + 1) + 1 \in 1..L /\ k + 1 \in 0..(L - 1)
      BY <1>1
    <3>2. h[(k + 1) + 1] = h[k + 1] \o seqs[(k + 1) + 1]
      BY <1>11, <3>1
    <3>3. h[(k + 1) + 1] \in T
      BY <1>1, <3>1, <3>2, ConcatProperties DEF T
    <3> HIDE DEF L
    <3> QED BY <3>1, <3>3
  <2>3. 0..(L - 1) \subseteq P
    <3>1. L - 1 \in Nat
      BY <1>1
    <3> HIDE DEF P, L
    <3> QED BY <2>1, <2>2, <3>1, InductionUpTo
  <2>4. \A k \in 1..L : k - 1 \in 0..(L - 1) /\ (k - 1) + 1 = k
    BY <1>1
  <2> HIDE DEF L
  <2> QED BY <2>3, <2>4
<1>13. Flattens(h, seqs, S)
  <2> HIDE DEF L
  <2> QED BY <1>9, <1>10, <1>11, <1>12 DEF Flattens, T, L
<1> QED BY <1>13

(* What every element of every part is, every element of the whole is.     *)
LEMMA FlattenType ==
  ASSUME NEW S, NEW seqs \in Seq(Seq(S))
  PROVE  FlattenSeq(seqs) \in Seq(S)
<1>1. CASE Len(seqs) = 0
  <2>1. seqs = <<>> /\ FlattenSeq(seqs) = seqs
    BY <1>1 DEF FlattenSeq
  <2>2. FlattenSeq(seqs) = <<>>
    BY <2>1
  <2>3. <<>> \in Seq(S)
    OBVIOUS
  <2> QED BY <2>2, <2>3
<1>2. CASE Len(seqs) # 0
  <2>1. PICK g : Flattens(g, seqs, S)
    BY <1>2, FlattenUnfolds
  <2>2. Len(seqs) \in 1..Len(seqs)
    BY <1>2
  <2> QED BY <2>1, <2>2 DEF Flattens
<1> QED BY <1>1, <1>2

(* Every part has the same number of elements, three or five.              *)
LEMMA FlattenEqual ==
  ASSUME NEW w \in {3, 5}, NEW S, NEW seqs \in Seq(Seq(S)), \A k \in 1..Len(seqs) : Len(seqs[k]) = w
  PROVE  /\ FlattenSeq(seqs) \in Seq(S)
         /\ Len(FlattenSeq(seqs)) = w * Len(seqs)
         /\ \A k \in 1..Len(seqs) : \A r \in 1..w : FlattenSeq(seqs)[w * k - w + r] = seqs[k][r]
<1> DEFINE L == Len(seqs)
<1>1. L \in Nat /\ \A k \in 1..L : seqs[k] \in Seq(S) /\ Len(seqs[k]) = w
  OBVIOUS
<1>2. CASE L = 0
  <2>1. seqs = <<>> /\ FlattenSeq(seqs) = seqs
    BY <1>2 DEF FlattenSeq
  <2>2. FlattenSeq(seqs) = <<>> /\ Len(FlattenSeq(seqs)) = 0
    BY <2>1
  <2>3. <<>> \in Seq(S) /\ w * Len(seqs) = 0 /\ 1..Len(seqs) = {}
    BY <1>2
  <2> QED BY <2>2, <2>3
<1>3. CASE L # 0
  <2>1. PICK g : Flattens(g, seqs, S)
    BY <1>3, FlattenUnfolds
  <2>2. /\ \A k \in 1..L : g[k] \in Seq(S)
        /\ g[1] = seqs[1] /\ FlattenSeq(seqs) = g[L]
        /\ \A k \in 1..(L - 1) : g[k + 1] = g[k] \o seqs[k + 1]
    BY <2>1 DEF Flattens
  <2> DEFINE Placed(n) ==
               /\ Len(g[n]) = w * n
               /\ \A k \in 1..n : \A r \in 1..w : g[n][w * k - w + r] = seqs[k][r]
             P == {n \in 0..(L - 1) : Placed(n + 1)}
  <2> HIDE DEF L
  <2>3. 0 \in P
    <3>1. 1 \in 1..L /\ 0 \in 0..(L - 1)
      BY <1>1, <1>3
    <3>2. Placed(1)
      <4>1. \A k \in 1..1 : \A r \in 1..w : w * k - w + r = r /\ k = 1
        OBVIOUS
      <4>2. Len(seqs[1]) = w
        BY <1>1, <3>1
      <4> QED BY <2>2, <4>1, <4>2
    <3> HIDE DEF Placed
    <3> QED BY <3>1, <3>2
  <2>4. \A n \in 0..((L - 1) - 1) : n \in P => n + 1 \in P
    <3> SUFFICES ASSUME NEW n \in 0..((L - 1) - 1), Placed(n + 1) PROVE n + 1 \in P
      OBVIOUS
    <3> DEFINE m == n + 1
    <3>1. m \in 1..(L - 1) /\ m \in 1..L /\ m + 1 \in 1..L /\ m \in 0..(L - 1) /\ m \in Nat
      BY <1>1, <1>3
    <3> HIDE DEF m
    <3>2. g[m + 1] = g[m] \o seqs[m + 1]
      BY <2>2, <3>1
    <3>3. /\ g[m] \in Seq(S) /\ seqs[m + 1] \in Seq(S)
          /\ Len(g[m]) = w * m /\ Len(seqs[m + 1]) = w
          /\ \A k \in 1..m : \A r \in 1..w : g[m][w * k - w + r] = seqs[k][r]
      BY <1>1, <2>2, <3>1 DEF m
    <3>4. /\ Len(g[m + 1]) = w * m + w
          /\ \A i \in 1..(w * m + w) :
               g[m + 1][i] = IF i <= w * m THEN g[m][i] ELSE seqs[m + 1][i - w * m]
      <4>1. PICK s : s = g[m]
        OBVIOUS
      <4>2. PICK t : t = seqs[m + 1]
        OBVIOUS
      <4>3. s \in Seq(S) /\ t \in Seq(S) /\ Len(s) = w * m /\ Len(t) = w
        BY <3>3, <4>1, <4>2
      <4>4. /\ Len(s \o t) = w * m + w
            /\ \A i \in 1..(w * m + w) : (s \o t)[i] = IF i <= w * m THEN s[i] ELSE t[i - w * m]
        <5>1. /\ Len(s \o t) = Len(s) + Len(t)
              /\ \A i \in 1..(Len(s) + Len(t)) :
                   (s \o t)[i] = IF i <= Len(s) THEN s[i] ELSE t[i - Len(s)]
          BY <4>3, ConcatProperties
        <5> QED BY <4>3, <5>1
      <4> QED BY <3>2, <4>1, <4>2, <4>4
    <3>5. ASSUME NEW k \in 1..(m + 1), NEW r \in 1..w
          PROVE  g[m + 1][w * k - w + r] = seqs[k][r]
      <4>1. w * k - w + r \in 1..(w * m + w)
        BY <3>1
      <4>2. CASE k = m + 1
        <5>1. ~ (w * k - w + r <= w * m) /\ (w * k - w + r) - w * m = r
          BY <3>1, <4>2
        <5> QED BY <3>4, <4>1, <4>2, <5>1
      <4>3. CASE k # m + 1
        <5>1. k \in 1..m /\ w * k - w + r <= w * m
          BY <3>1, <4>3
        <5> QED BY <3>3, <3>4, <4>1, <5>1
      <4> QED BY <4>2, <4>3
    <3>6. Placed(m + 1)
      <4>1. w * (m + 1) = w * m + w
        BY <3>1
      <4> QED BY <3>4, <3>5, <4>1
    <3> HIDE DEF Placed
    <3> QED BY <3>1, <3>6 DEF m
  <2>5. 0..(L - 1) \subseteq P
    <3>1. L - 1 \in Nat
      BY <1>1, <1>3
    <3> HIDE DEF P
    <3> QED BY <2>3, <2>4, <3>1, InductionUpTo
  <2>6. Placed(L)
    <3>1. L - 1 \in 0..(L - 1) /\ (L - 1) + 1 = L /\ L \in 1..L
      BY <1>1, <1>3
    <3> HIDE DEF Placed
    <3> QED BY <2>5, <3>1
  <2>7. L \in 1..L
    BY <1>1, <1>3
  <2> QED BY <2>2, <2>6, <2>7 DEF L
<1> QED BY <1>2, <1>3

-----------------------------------------------------------------------------
(* Filter, by its parts.                                                   *)

Filters(k, s, S) ==
  /\ \A n \in Nat : k[n] \in Seq(S)
  /\ k[0] = <<>>
  /\ \A n \in Nat :
       k[n + 1] = IF n + 1 <= Len(s) /\ s[n + 1] \in S THEN Append(k[n], s[n + 1]) ELSE k[n]

LEMMA KeptUnfolds ==
  ASSUME NEW T, NEW S, NEW s \in Seq(T)
  PROVE  Filters(KeptTo(s, S), s, S)
<1> DEFINE Q == Seq(S)
           Picks(n) == n <= Len(s) /\ s[n] \in S
           step == [p \in Nat \X Q |-> IF Picks(p[1] + 1) THEN Append(p[2], s[p[1] + 1]) ELSE p[2]]
           Def(g) == [n \in Nat |-> IF n = 0 THEN <<>>
                                    ELSE IF Picks(n) THEN Append(g[n - 1], s[n]) ELSE g[n - 1]]
<1>1. <<>> \in Q
  OBVIOUS
<1>2. step \in [Nat \X Q -> Q]
  <2>1. \A q \in Q, e \in S : Append(q, e) \in Q
    BY AppendProperties
  <2>2. \A n : Picks(n) => s[n] \in S
    OBVIOUS
  <2> HIDE DEF Q, Picks
  <2>3. \A p \in Nat \X Q :
          (IF Picks(p[1] + 1) THEN Append(p[2], s[p[1] + 1]) ELSE p[2]) \in Q
    BY <2>1, <2>2
  <2> QED BY <2>3
<1>3. PICK f : Unrolls(f, Q, <<>>, step)
  <2> HIDE DEF Q, step
  <2> QED BY <1>1, <1>2, Recursion
<1> HIDE DEF Q, Picks
<1>4. /\ f \in [Nat -> Q] /\ f[0] = <<>>
      /\ \A n \in Nat : f[n + 1] = IF Picks(n + 1) THEN Append(f[n], s[n + 1]) ELSE f[n]
  BY <1>3 DEF Unrolls
<1>5. f = Def(f)
  <2>1. ASSUME NEW n \in Nat, n # 0
        PROVE  f[n] = IF Picks(n) THEN Append(f[n - 1], s[n]) ELSE f[n - 1]
    <3>1. n - 1 \in Nat /\ (n - 1) + 1 = n
      BY <2>1
    <3> QED BY <1>4, <3>1
  <2> QED BY <1>4, <2>1
<1> DEFINE k == CHOOSE x : x = Def(x)
<1>6. k = Def(k)
  <2> HIDE DEF Def
  <2> QED BY <1>5
<1>7. KeptTo(s, S) = k
  BY DEF KeptTo, Picks
<1> HIDE DEF k
<1>8. k[0] = <<>>
  BY <1>6
<1>9. \A n \in Nat : k[n + 1] = IF Picks(n + 1) THEN Append(k[n], s[n + 1]) ELSE k[n]
  <2> SUFFICES ASSUME NEW n \in Nat
               PROVE  k[n + 1] = IF Picks(n + 1) THEN Append(k[n], s[n + 1]) ELSE k[n]
    OBVIOUS
  <2>1. n + 1 \in Nat /\ n + 1 # 0 /\ (n + 1) - 1 = n
    OBVIOUS
  <2> QED BY <1>6, <2>1
<1>10. \A n \in Nat : k[n] \in Q
  <2> DEFINE P == {n \in Nat : k[n] \in Q}
  <2>1. 0 \in P
    BY <1>1, <1>8
  <2>2. \A n \in Nat : n \in P => n + 1 \in P
    <3>1. \A q \in Q, e \in S : Append(q, e) \in Q
      BY AppendProperties DEF Q
    <3>2. \A n : Picks(n) => s[n] \in S
      BY DEF Picks
    <3> SUFFICES ASSUME NEW n \in Nat, k[n] \in Q PROVE k[n + 1] \in Q
      OBVIOUS
    <3>3. n + 1 \in Nat
      OBVIOUS
    <3>4. CASE Picks(n + 1)
      BY <1>9, <3>1, <3>2, <3>4
    <3> QED BY <1>9, <3>4
  <2>3. Nat \subseteq P
    <3> HIDE DEF P
    <3> QED BY <2>1, <2>2, Induction
  <2> QED BY <2>3
<1> QED BY <1>7, <1>8, <1>9, <1>10 DEF Filters, Picks, Q

Leads(u, w) == Len(u) <= Len(w) /\ \A i \in 1..Len(u) : u[i] = w[i]

LEMMA LeadsFurther ==
  ASSUME NEW S, NEW u \in Seq(S), NEW v \in Seq(S), NEW e \in S, Leads(u, v)
  PROVE  Leads(u, Append(v, e))
BY DEF Leads

LEMMA LeadsCut ==
  ASSUME NEW S, NEW u \in Seq(S), NEW v \in Seq(S), Leads(u, v)
  PROVE  Len(u) \in 0..Len(v) /\ u = SubSeq(v, 1, Len(u))
BY DEF Leads

(* What is kept of a longer part begins with what is kept of a shorter one.*)
LEMMA KeptLeads ==
  ASSUME NEW S, NEW s, NEW k, Filters(k, s, S), NEW m \in Nat
  PROVE  \A n \in Nat : n >= m => Leads(k[m], k[n])
<1> DEFINE P == {d \in Nat : Leads(k[m], k[m + d])}
<1>1. \A n \in Nat : k[n] \in Seq(S)
  BY DEF Filters
<1>2. 0 \in P
  <2>1. m + 0 = m /\ k[m] \in Seq(S)
    BY <1>1
  <2> QED BY <2>1 DEF Leads
<1>3. \A d \in Nat : d \in P => d + 1 \in P
  <2> SUFFICES ASSUME NEW d \in Nat, Leads(k[m], k[m + d]) PROVE Leads(k[m], k[(m + d) + 1])
    BY DEF P
  <2>1. m + d \in Nat
    OBVIOUS
  <2>2. k[m] \in Seq(S) /\ k[m + d] \in Seq(S)
    BY <1>1, <2>1
  <2>3. \/ k[(m + d) + 1] = k[m + d]
        \/ s[(m + d) + 1] \in S /\ k[(m + d) + 1] = Append(k[m + d], s[(m + d) + 1])
    BY <2>1 DEF Filters
  <2> QED BY <2>2, <2>3, LeadsFurther
<1>4. Nat \subseteq P
  <2> HIDE DEF P
  <2> QED BY <1>2, <1>3, Induction
<1>5. \A n \in Nat : n >= m => n - m \in Nat /\ m + (n - m) = n
  OBVIOUS
<1> QED BY <1>4, <1>5

LEMMA KeptSame ==
  ASSUME NEW S, NEW s, NEW t, NEW k, NEW h, Filters(k, s, S), Filters(h, t, S),
         NEW m \in Nat, m <= Len(s), m <= Len(t), Len(s) \in Nat, Len(t) \in Nat,
         \A i \in 1..m : s[i] = t[i]
  PROVE  k[m] = h[m]
<1> DEFINE P == {n \in 0..m : k[n] = h[n]}
<1>1. 0 \in P
  <2>1. k[0] = <<>> /\ h[0] = <<>> /\ 0 \in 0..m
    BY DEF Filters
  <2> QED BY <2>1
<1>2. \A n \in 0..(m - 1) : n \in P => n + 1 \in P
  <2> SUFFICES ASSUME NEW n \in 0..(m - 1), k[n] = h[n] PROVE k[n + 1] = h[n + 1] /\ n + 1 \in 0..m
    OBVIOUS
  <2>1. n \in Nat /\ n + 1 \in 1..m /\ n + 1 <= Len(s) /\ n + 1 <= Len(t) /\ n + 1 \in 0..m
    OBVIOUS
  <2>2. s[n + 1] = t[n + 1]
    BY <2>1
  <2> QED BY <2>1, <2>2 DEF Filters
<1>3. 0..m \subseteq P
  <2> HIDE DEF P
  <2> QED BY <1>1, <1>2, InductionUpTo
<1> QED BY <1>3

LEMMA KeptNone ==
  ASSUME NEW S
  PROVE  Kept(<<>>, S) = <<>>
<1>1. <<>> \in Seq(S) /\ Len(<<>>) = 0
  OBVIOUS
<1>2. Filters(KeptTo(<<>>, S), <<>>, S)
  BY <1>1, KeptUnfolds
<1>3. KeptTo(<<>>, S)[0] = <<>>
  BY <1>2 DEF Filters
<1> QED BY <1>1, <1>3 DEF Kept

LEMMA KeptType ==
  ASSUME NEW T, NEW S, NEW s \in Seq(T)
  PROVE  Kept(s, S) \in Seq(S)
<1>1. Len(s) \in Nat
  OBVIOUS
<1> QED BY <1>1, KeptUnfolds DEF Filters, Kept

(* One more element.                                                       *)
LEMMA KeptGrows ==
  ASSUME NEW T, NEW S, NEW s \in Seq(T), NEW t \in Seq(T), NEW e,
         Len(t) = Len(s) + 1, \A i \in 1..(Len(s) + 1) : t[i] = IF i <= Len(s) THEN s[i] ELSE e
  PROVE  Kept(t, S) = IF e \in S THEN Append(Kept(s, S), e) ELSE Kept(s, S)
<1> DEFINE n == Len(s)
           k == KeptTo(s, S)
           h == KeptTo(t, S)
<1>1. n \in Nat /\ Len(t) = n + 1 /\ Filters(k, s, S) /\ Filters(h, t, S)
  BY KeptUnfolds
<1>2. t[n + 1] = e /\ \A i \in 1..n : s[i] = t[i]
  BY <1>1
<1>3. Kept(s, S) = k[n] /\ Kept(t, S) = h[n + 1]
  BY DEF Kept
<1> HIDE DEF k, h
<1>4. k[n] = h[n]
  <2>1. n <= Len(s) /\ n <= Len(t) /\ Len(t) \in Nat /\ Len(s) \in Nat
    BY <1>1
  <2> HIDE DEF n
  <2> QED BY <1>1, <1>2, <2>1, KeptSame
<1>5. h[n + 1] = IF n + 1 <= Len(t) /\ t[n + 1] \in S THEN Append(h[n], t[n + 1]) ELSE h[n]
  BY <1>1 DEF Filters
<1>6. n + 1 <= Len(t)
  BY <1>1
<1> HIDE DEF n
<1> QED BY <1>2, <1>3, <1>4, <1>5, <1>6

(* A sequence that is cut keeps the first of what it kept.                 *)
LEMMA KeptCut ==
  ASSUME NEW T, NEW S, NEW s \in Seq(T), NEW t \in Seq(T),
         Len(t) <= Len(s), \A i \in 1..Len(t) : t[i] = s[i]
  PROVE  Leads(Kept(t, S), Kept(s, S))
<1> DEFINE k == KeptTo(s, S)
           h == KeptTo(t, S)
<1>1. Len(s) \in Nat /\ Len(t) \in Nat /\ Filters(k, s, S) /\ Filters(h, t, S)
  BY KeptUnfolds
<1>2. Kept(s, S) = k[Len(s)] /\ Kept(t, S) = h[Len(t)]
  BY DEF Kept
<1> HIDE DEF k, h
<1>3. k[Len(t)] = h[Len(t)]
  BY <1>1, KeptSame
<1>4. Leads(k[Len(t)], k[Len(s)])
  BY <1>1, KeptLeads
<1> QED BY <1>2, <1>3, <1>4

LEMMA KeptHas ==
  ASSUME NEW T, NEW S, NEW s \in Seq(T), NEW i \in 1..Len(s), s[i] \in S
  PROVE  \E j \in 1..Len(Kept(s, S)) : Kept(s, S)[j] = s[i]
<1> DEFINE k == KeptTo(s, S)
<1>1. Len(s) \in Nat /\ i \in Nat /\ i - 1 \in Nat /\ (i - 1) + 1 = i /\ i <= Len(s) /\ Filters(k, s, S)
  BY KeptUnfolds
<1>2. Kept(s, S) = k[Len(s)]
  BY DEF Kept
<1> HIDE DEF k
<1>3. k[i] = Append(k[i - 1], s[i]) /\ k[i - 1] \in Seq(S) /\ k[i] \in Seq(S)
  <2>1. k[(i - 1) + 1] = IF (i - 1) + 1 <= Len(s) /\ s[(i - 1) + 1] \in S
                         THEN Append(k[i - 1], s[(i - 1) + 1]) ELSE k[i - 1]
    BY <1>1 DEF Filters
  <2>2. k[i - 1] \in Seq(S) /\ k[i] \in Seq(S)
    BY <1>1 DEF Filters
  <2> QED BY <1>1, <2>1, <2>2
<1>4. Leads(k[i], k[Len(s)])
  BY <1>1, KeptLeads
<1>5. Len(k[i]) \in Nat /\ Len(k[i]) >= 1 /\ k[i][Len(k[i])] = s[i]
  BY <1>3
<1>6. k[Len(s)] \in Seq(S)
  BY <1>1 DEF Filters
<1>7. Len(k[i]) \in 1..Len(k[Len(s)]) /\ k[Len(s)][Len(k[i])] = k[i][Len(k[i])]
  BY <1>3, <1>4, <1>5, <1>6 DEF Leads
<1> QED BY <1>2, <1>5, <1>7
=============================================================================
