------------------------- MODULE ParquetStream_proofs -------------------------
(* Proofs about conversions block by block: what readers find is a whole copy, whatever fails, is  *)
(* lost, lingers or runs beside.                                                                *)
EXTENDS ParquetStream, SequenceTheorems, WellFoundedInduction, TLAPS

-----------------------------------------------------------------------------
(* The pieces of a version: its batches and the footer, cut into blocks.                        *)

Pieces == (DOMAIN Batches) \X Nat \X {"rows", "footer"}
Upto(i) == i * BlockPieces
Slice(v, f, t) == [k \in 1..(t - f) |-> Whole(v)[f + k]]
End(v, i) == IF Upto(i + 1) <= Batches[v] + 1 THEN Upto(i + 1) ELSE Batches[v] + 1
Block(v, i) == Slice(v, Upto(i), End(v, i))

(* Blocks that hold w pieces, all of them full but perhaps the last.                            *)
Covers(n, w) == IF w = 0 THEN n = 0 ELSE n > 0 /\ Upto(n - 1) < w /\ w <= Upto(n)
Blocks(v, n) == [i \in 1..n |-> Block(v, i - 1)]
IsCopy(b, v) == \E n \in Nat : n > 0 /\ Covers(n, Batches[v] + 1) /\ b = Blocks(v, n)

LEMMA Multiples == ASSUME ConstantsOK
    PROVE  /\ Upto(0) = 0
           /\ \A i \in Nat : Upto(i) \in Nat /\ Upto(i + 1) = Upto(i) + BlockPieces
           /\ \A i, j \in Nat : i < j => Upto(i) + BlockPieces <= Upto(j)
<1> USE DEF ConstantsOK, Upto
<1>1. \A i \in Nat : Upto(i) \in Nat /\ Upto(i + 1) = Upto(i) + BlockPieces
  OBVIOUS
<1>2. ASSUME NEW i \in Nat, NEW j \in Nat, i < j
      PROVE  Upto(i) + BlockPieces <= Upto(j)
  <2>1. PICK d \in Nat : j = (i + 1) + d
    <3>1. j - (i + 1) \in Nat /\ j = (i + 1) + (j - (i + 1))
      BY <1>2
    <3> QED
      BY <3>1
  <2>2. j * BlockPieces = (i * BlockPieces + BlockPieces) + d * BlockPieces
    BY <2>1
  <2>3. d * BlockPieces \in Nat /\ i * BlockPieces \in Nat
    OBVIOUS
  <2> QED
    BY <2>2, <2>3
<1> QED
  BY <1>1, <1>2

LEMMA WholeLists == ASSUME ConstantsOK, NEW v \in DOMAIN Batches
    PROVE  /\ Batches[v] \in Nat
           /\ Whole(v) \in Seq(Pieces) /\ Len(Whole(v)) = Batches[v] + 1
           /\ \A k \in 1..Batches[v] : Whole(v)[k] = Rows(v, k)
           /\ Whole(v)[Batches[v] + 1] = Footer(v, Batches[v])
<1> DEFINE rows == [k \in 1..Batches[v] |-> Rows(v, k)]
           foot == <<Footer(v, Batches[v])>>
<1>1. Batches[v] \in Nat
  BY DEF ConstantsOK
<1>2. rows \in Seq(Pieces) /\ Len(rows) = Batches[v] /\ foot \in Seq(Pieces) /\ Len(foot) = 1 /\ foot[1] = Footer(v, Batches[v])
  BY <1>1 DEF Rows, Footer, Pieces
<1>3. \A k \in 1..Batches[v] : rows[k] = Rows(v, k)
  OBVIOUS
<1>4. Whole(v) = rows \o foot
  BY DEF Whole
<1> HIDE DEF rows, foot
<1>5. /\ rows \o foot \in Seq(Pieces) /\ Len(rows \o foot) = Len(rows) + Len(foot)
      /\ \A i \in 1 .. Len(rows) + Len(foot) : (rows \o foot)[i] = IF i <= Len(rows) THEN rows[i] ELSE foot[i - Len(rows)]
  BY <1>2, ConcatProperties, Zenon
<1>6. \A k \in 1..Batches[v] : (rows \o foot)[k] = Rows(v, k)
  BY <1>1, <1>2, <1>3, <1>5
<1>7. (rows \o foot)[Batches[v] + 1] = Footer(v, Batches[v])
  <2>1. Batches[v] + 1 \in 1..Len(rows) + Len(foot) /\ ~(Batches[v] + 1 <= Len(rows)) /\ Batches[v] + 1 - Len(rows) = 1
    BY <1>1, <1>2
  <2> QED
    BY <2>1, <1>2, <1>5
<1>8. Len(rows) + Len(foot) = Batches[v] + 1
  BY <1>2
<1> QED
  BY <1>1, <1>4, <1>5, <1>6, <1>7, <1>8

(* A list of the pieces behind the first x, up to the first y.                                   *)
Part(v, s, x, y) ==
    s \in Seq(Pieces) /\ Len(s) = y - x /\ \A k \in 1..(y - x) : s[k] = Whole(v)[x + k]

LEMMA SlicesAreParts == ASSUME ConstantsOK, NEW v \in DOMAIN Batches
    PROVE  \A x, y \in Nat : x <= y /\ y <= Batches[v] + 1 => Part(v, Slice(v, x, y), x, y)
<1> SUFFICES ASSUME NEW x \in Nat, NEW y \in Nat, x <= y, y <= Batches[v] + 1
             PROVE  Part(v, Slice(v, x, y), x, y)
  OBVIOUS
<1> DEFINE w == Whole(v)
<1>1. w \in Seq(Pieces) /\ Len(w) = Batches[v] + 1 /\ Batches[v] \in Nat
  BY WholeLists
<1>2. Slice(v, x, y) = [k \in 1..(y - x) |-> w[x + k]]
  BY DEF Slice
<1> HIDE DEF w
<1>3. \A k \in 1..(y - x) : x + k \in 1..Len(w)
  BY <1>1
<1>4. \A k \in 1..(y - x) : w[x + k] \in Pieces
  BY <1>1, <1>3, ElementOfSeq
<1>5. y - x \in Nat
  OBVIOUS
<1>6. Slice(v, x, y) \in Seq(Pieces) /\ Len(Slice(v, x, y)) = y - x
  BY <1>2, <1>4, <1>5
<1>7. \A k \in 1..(y - x) : Slice(v, x, y)[k] = w[x + k]
  BY <1>2
<1> QED
  BY <1>6, <1>7 DEF Part, w

LEMMA PartsAreSlices == ASSUME ConstantsOK, NEW v \in DOMAIN Batches, NEW x \in Nat, NEW y \in Nat, x <= y, y <= Batches[v] + 1,
                               NEW s, Part(v, s, x, y)
    PROVE  s = Slice(v, x, y)
<1>1. Part(v, Slice(v, x, y), x, y)
  BY SlicesAreParts
<1>2. s \in Seq(Pieces) /\ Slice(v, x, y) \in Seq(Pieces) /\ Len(s) = Len(Slice(v, x, y)) /\ \A k \in 1..Len(s) : s[k] = Slice(v, x, y)[k]
  BY <1>1 DEF Part
<1> QED
  BY <1>2, SeqEqual, Zenon

LEMMA SlicesGrow == ASSUME ConstantsOK, NEW v \in DOMAIN Batches, NEW f \in Nat, NEW t \in Nat, f <= t, t <= Batches[v]
    PROVE  Append(Slice(v, f, t), Whole(v)[t + 1]) = Slice(v, f, t + 1)
<1> DEFINE s == Slice(v, f, t)
           e == Whole(v)[t + 1]
<1>0. Batches[v] \in Nat /\ Whole(v) \in Seq(Pieces) /\ Len(Whole(v)) = Batches[v] + 1
  BY WholeLists
<1>1. Part(v, s, f, t)
  BY SlicesAreParts, <1>0
<1>2. e \in Pieces
  <2>1. t + 1 \in 1..Len(Whole(v))
    BY <1>0
  <2> QED
    BY <2>1, <1>0, ElementOfSeq
<1> HIDE DEF s, e
<1>3. s \in Seq(Pieces) /\ Len(s) = t - f /\ \A k \in 1..(t - f) : s[k] = Whole(v)[f + k]
  BY <1>1 DEF Part
<1>4. /\ Append(s, e) \in Seq(Pieces) /\ Len(Append(s, e)) = Len(s) + 1
      /\ \A i \in 1..Len(s) : Append(s, e)[i] = s[i]
      /\ Append(s, e)[Len(s) + 1] = e
  <2>1. s \in Seq(Pieces)
    BY <1>3
  <2> QED
    BY <1>2, <2>1, AppendProperties
<1>5. \A k \in 1..(t + 1 - f) : Append(s, e)[k] = Whole(v)[f + k]
  <2> TAKE k \in 1..(t + 1 - f)
  <2>1. CASE k <= t - f
    BY <2>1, <1>3, <1>4
  <2>2. CASE k = t - f + 1
    <3>1. f + k = t + 1 /\ k = Len(s) + 1
      BY <2>2, <1>3
    <3> QED
      BY <3>1, <1>4 DEF e
  <2>3. k <= t - f \/ k = t - f + 1
    OBVIOUS
  <2> QED
    BY <2>1, <2>2, <2>3
<1>6. Part(v, Append(s, e), f, t + 1)
  <2>1. Len(s) + 1 = t + 1 - f
    BY <1>3
  <2> QED
    BY <2>1, <1>4, <1>5 DEF Part
<1>7. f <= t + 1 /\ t + 1 <= Batches[v] + 1 /\ t + 1 \in Nat
  BY <1>0
<1> QED
  BY <1>6, <1>7, PartsAreSlices DEF s, e

LEMMA SlicesJoin == ASSUME ConstantsOK, NEW v \in DOMAIN Batches, NEW f \in Nat, NEW m \in Nat, NEW t \in Nat,
                           f <= m, m <= t, t <= Batches[v] + 1
    PROVE  Slice(v, f, m) \o Slice(v, m, t) = Slice(v, f, t)
<1> DEFINE a == Slice(v, f, m)
           b == Slice(v, m, t)
<1>0. Batches[v] \in Nat
  BY WholeLists
<1>1. Part(v, a, f, m) /\ Part(v, b, m, t)
  BY SlicesAreParts, <1>0
<1> HIDE DEF a, b
<1>2. a \in Seq(Pieces) /\ Len(a) = m - f /\ (\A k \in 1..(m - f) : a[k] = Whole(v)[f + k])
      /\ b \in Seq(Pieces) /\ Len(b) = t - m /\ (\A k \in 1..(t - m) : b[k] = Whole(v)[m + k])
  BY <1>1 DEF Part
<1>3. /\ a \o b \in Seq(Pieces) /\ Len(a \o b) = Len(a) + Len(b)
      /\ \A i \in 1 .. Len(a) + Len(b) : (a \o b)[i] = IF i <= Len(a) THEN a[i] ELSE b[i - Len(a)]
  BY <1>2, ConcatProperties, Zenon
<1>4. \A k \in 1..(t - f) : (a \o b)[k] = Whole(v)[f + k]
  <2> TAKE k \in 1..(t - f)
  <2>0. k \in 1..Len(a) + Len(b)
    BY <1>2
  <2>1. CASE k <= m - f
    BY <2>0, <2>1, <1>2, <1>3
  <2>2. CASE k > m - f
    <3>1. k - Len(a) \in 1..(t - m) /\ m + (k - Len(a)) = f + k /\ ~(k <= Len(a))
      BY <2>2, <1>2
    <3>2. (a \o b)[k] = b[k - Len(a)]
      BY <2>0, <3>1, <1>3
    <3>3. b[k - Len(a)] = Whole(v)[m + (k - Len(a))]
      BY <3>1, <1>2
    <3> QED
      BY <3>1, <3>2, <3>3
  <2>3. k <= m - f \/ k > m - f
    OBVIOUS
  <2> QED
    BY <2>1, <2>2, <2>3
<1>5. Part(v, a \o b, f, t)
  <2>1. Len(a) + Len(b) = t - f
    BY <1>2
  <2> QED
    BY <2>1, <1>3, <1>4 DEF Part
<1>6. f <= t
  OBVIOUS
<1> QED
  BY <1>5, <1>6, PartsAreSlices DEF a, b

(* Sets of natural numbers have a least one.                                                *)
LEMMA LeastOf == ASSUME NEW S \in SUBSET Nat, S # {} PROVE \E n \in S : \A m \in S : n <= m
<1> DEFINE less == OpToRel(<, Nat)
<1>1. PICK n \in S : \A m \in S : <<m, n>> \notin less
  BY NatLessThanWellFounded, WFMin, Zenon
<1>2. ASSUME NEW m \in S, m < n
      PROVE  FALSE
  <2>1. <<m, n>> \in less
    BY <1>2 DEF OpToRel
  <2> QED
    BY <1>1, <2>1
<1> QED
  BY <1>2

(* The blocks of a copy, one behind the other, are the version.                                   *)
LEMMA CopiesRead == ASSUME ConstantsOK, NEW v \in DOMAIN Batches, NEW b, IsCopy(b, v)
    PROVE  FlattenSeq(b) = Whole(v) /\ Len(b) > 0
<1> DEFINE N == Batches[v] + 1
<1>0. Batches[v] \in Nat /\ N \in Nat
  BY WholeLists
<1>1. PICK n \in Nat : n > 0 /\ Covers(n, N) /\ b = Blocks(v, n)
  BY DEF IsCopy
<1>2. Upto(n - 1) < N /\ N <= Upto(n)
  BY <1>0, <1>1 DEF Covers
<1> HIDE DEF N
<1>3. \A i \in Nat : Upto(i) \in Nat
  BY Multiples
<1>a. \A i, j \in Nat : i < j => Upto(i) + BlockPieces <= Upto(j)
  BY Multiples
<1>b. Upto(0) = 0 /\ BlockPieces \in Nat
  BY Multiples DEF ConstantsOK
<1>c. n \in Nat /\ n > 0 /\ n - 1 \in Nat /\ Upto(n) \in Nat /\ Upto(n - 1) \in Nat
  <2>1. n - 1 \in Nat
    BY <1>1
  <2> QED
    BY <1>1, <2>1, <1>3
<1>4. \A i \in 1..n : End(v, i - 1) = IF Upto(i) <= N THEN Upto(i) ELSE N
  BY <1>0 DEF End, N
<1>5. \A i \in 1..(n - 1) : Upto(i) <= Upto(n - 1)
  <2> TAKE i \in 1..(n - 1)
  <2>1. CASE i = n - 1
    <3> QED
      BY <2>1, <1>c
  <2>2. CASE i # n - 1
    <3>1. i \in Nat /\ i < n - 1
      BY <2>2, <1>c
    <3>2. Upto(i) + BlockPieces <= Upto(n - 1) /\ Upto(i) \in Nat
      BY <3>1, <1>c, <1>3, <1>a
    <3> QED
      BY <3>2, <1>b, <1>c
  <2> QED
    BY <2>1, <2>2
<1>6. \A i \in 1..(n - 1) : End(v, i - 1) = Upto(i)
  <2> TAKE i \in 1..(n - 1)
  <2>1. i \in 1..n /\ i \in Nat
    BY <1>c
  <2>2. Upto(i) \in Nat
    BY <2>1, <1>3
  <2> QED
    BY <2>1, <2>2, <1>0, <1>2, <1>4, <1>5, <1>c
<1>7. End(v, n - 1) = N
  <2>1. n \in 1..n /\ Upto(n) \in Nat
    BY <1>c
  <2>2. End(v, n - 1) = IF Upto(n) <= N THEN Upto(n) ELSE N
    BY <2>1, <1>4
  <2> QED
    BY <2>1, <2>2, <1>0, <1>2
<1> DEFINE Upper(i) == IF i = n THEN N ELSE Upto(i)
<1>8. \A i \in 1..n : /\ b[i] = Slice(v, Upto(i - 1), Upper(i)) /\ Upto(i - 1) \in Nat /\ Upper(i) \in Nat
                      /\ Upto(i - 1) <= Upper(i) /\ Upper(i) <= N
  <2> TAKE i \in 1..n
  <2>1. b[i] = Slice(v, Upto(i - 1), End(v, i - 1))
    BY <1>1 DEF Blocks, Block
  <2>2. CASE i = n
    BY <2>1, <2>2, <1>c, <1>7, <1>2, <1>0
  <2>3. CASE i # n
    <3>1. i \in 1..(n - 1) /\ i - 1 \in Nat /\ i \in Nat /\ i - 1 < i
      BY <2>3, <1>c
    <3>2. Upto(i - 1) + BlockPieces <= Upto(i) /\ Upto(i - 1) \in Nat /\ Upto(i) \in Nat
      BY <3>1, <1>3, <1>a
    <3>3. Upto(i) <= Upto(n - 1) /\ End(v, i - 1) = Upto(i)
      BY <3>1, <1>5, <1>6
    <3>4. Upto(i - 1) <= Upto(i) /\ Upto(i) <= N
      BY <3>2, <3>3, <1>2, <1>0, <1>b, <1>c
    <3> QED
      BY <2>1, <2>3, <3>2, <3>3, <3>4
  <2> QED
    BY <2>2, <2>3
<1>9. Len(b) = n /\ DOMAIN b = 1..n
  BY <1>1 DEF Blocks
<1> DEFINE F == [i \in 1..n |-> Slice(v, 0, Upper(i))]
<1>10. \A i \in 2..n : F[i - 1] \o b[i] = F[i]
  <2> TAKE i \in 2..n
  <2>1. i \in 1..n /\ i - 1 \in 1..n /\ i - 1 # n
    BY <1>1
  <2>2. F[i - 1] = Slice(v, 0, Upto(i - 1)) /\ F[i] = Slice(v, 0, Upper(i))
    BY <2>1
  <2> HIDE DEF F, Upper
  <2>3. b[i] = Slice(v, Upto(i - 1), Upper(i)) /\ Upto(i - 1) \in Nat /\ Upper(i) \in Nat /\ Upto(i - 1) <= Upper(i) /\ Upper(i) <= N
    BY <2>1, <1>8
  <2>4. ASSUME NEW x \in Nat, NEW y \in Nat, x <= y, y <= N
        PROVE  Slice(v, 0, x) \o Slice(v, x, y) = Slice(v, 0, y)
    <3>1. 0 \in Nat /\ 0 <= x /\ y <= Batches[v] + 1
      BY <2>4 DEF N
    <3> QED
      BY <2>4, <3>1, SlicesJoin
  <2> QED
    BY <2>2, <2>3, <2>4
<1>11. F[1] = b[1]
  <2>1. 1 \in 1..n
    BY <1>1
  <2>2. F[1] = Slice(v, 0, Upper(1))
    BY <2>1
  <2> HIDE DEF F, Upper
  <2>3. b[1] = Slice(v, Upto(1 - 1), Upper(1))
    BY <2>1, <1>8
  <2>4. 1 - 1 = 0
    OBVIOUS
  <2> QED
    BY <2>2, <2>3, <2>4, <1>b
<1>12. F[n] = Whole(v)
  <2>1. F[n] = Slice(v, 0, N)
    BY <1>1
  <2>2. Part(v, Whole(v), 0, N)
    <3>1. Whole(v) \in Seq(Pieces) /\ Len(Whole(v)) = N
      BY WholeLists DEF N
    <3> QED
      BY <3>1, <1>0 DEF Part
  <2>3. 0 <= N /\ N <= Batches[v] + 1
    BY <1>0 DEF N
  <2> QED
    BY <2>1, <2>2, <2>3, <1>0, PartsAreSlices
<1>13. F = [i \in 1..n |-> IF i = 1 THEN b[i] ELSE F[i - 1] \o b[i]]
  <2>1. \A i \in 1..n : F[i] = IF i = 1 THEN b[i] ELSE F[i - 1] \o b[i]
    <3> HIDE DEF F
    <3> TAKE i \in 1..n
    <3>1. i = 1 \/ i \in 2..n
      BY <1>c
    <3>2. i \in 2..n => i # 1
      OBVIOUS
    <3>3. i = 1 => F[i] = b[i]
      BY <1>11, Zenon
    <3>4. i \in 2..n => F[i] = F[i - 1] \o b[i]
      BY <1>10, Zenon
    <3> QED
      BY <3>1, <3>2, <3>3, <3>4, Zenon
  <2>2. F = [i \in 1..n |-> F[i]]
    BY Zenon
  <2> HIDE DEF F
  <2>3. [i \in 1..n |-> F[i]] = [i \in 1..n |-> IF i = 1 THEN b[i] ELSE F[i - 1] \o b[i]]
    BY <2>1, Zenon
  <2> QED
    BY <2>2, <2>3, Zenon
<1> HIDE DEF F, Upper
<1>14. PICK g : /\ g = [i \in 1..n |-> IF i = 1 THEN b[i] ELSE g[i - 1] \o b[i]]
                /\ FlattenSeq(b) = g[n]
  <2> DEFINE P(h) == h = [i \in 1..n |-> IF i = 1 THEN b[i] ELSE h[i - 1] \o b[i]]
  <2>1. P(CHOOSE h : P(h))
    BY <1>13, Zenon
  <2>2. FlattenSeq(b) = (CHOOSE h : P(h))[n]
    BY <1>1, <1>9 DEF FlattenSeq
  <2> DEFINE r == CHOOSE h : P(h)
  <2>3. P(r) /\ FlattenSeq(b) = r[n]
    BY <2>1, <2>2, Zenon
  <2> HIDE DEF r
  <2> QED
    BY <2>3, Zenon
<1>15. \A i \in 1..n : g[i] = F[i]
  <2> DEFINE S == {i \in 1..n : g[i] # F[i]}
  <2> SUFFICES ASSUME S # {} PROVE FALSE
    OBVIOUS
  <2>1. PICK i \in S : \A m \in S : i <= m
    <3>1. S \in SUBSET Nat
      BY <1>1
    <3> HIDE DEF S
    <3> QED
      BY <3>1, LeastOf
  <2>2. i \in 1..n /\ g[i] # F[i] /\ (i = 1 \/ i - 1 \notin S)
    BY <2>1
  <2>3. i # 1
    BY <2>2, <1>11, <1>14
  <2>4. i - 1 \in 1..n /\ g[i - 1] = F[i - 1] /\ i \in 2..n
    <3>1. i - 1 \in 1..n /\ i \in 2..n
      BY <1>1, <2>2, <2>3
    <3>2. i - 1 \notin S
      BY <2>2, <2>3, Zenon
    <3> QED
      BY <3>1, <3>2, Zenon
  <2>5. g[i] = g[i - 1] \o b[i]
    BY <2>2, <2>3, <1>14, Zenon
  <2> QED
    BY <2>2, <2>4, <2>5, <1>10
<1>16. n \in 1..n
  BY <1>c
<1> QED
  BY <1>c, <1>9, <1>12, <1>14, <1>15, <1>16, Zenon

(* One block with a footer reads as that footer.                                               *)
LEMMA FooterReads == ASSUME NEW x PROVE FlattenSeq(<<<<x>>>>) = <<x>>
<1> DEFINE b == <<<<x>>>>
           P(h) == h = [i \in 1..Len(b) |-> IF i = 1 THEN b[i] ELSE h[i - 1] \o b[i]]
           F == [i \in 1..Len(b) |-> <<x>>]
<1>1. Len(b) = 1 /\ b[1] = <<x>>
  OBVIOUS
<1> HIDE DEF b
<1>2. P(F)
  <2>1. \A i \in 1..Len(b) : i = 1
    BY <1>1
  <2>2. \A i \in 1..Len(b) : F[i] = IF i = 1 THEN b[i] ELSE F[i - 1] \o b[i]
    BY <1>1, <2>1, Zenon
  <2>3. F = [i \in 1..Len(b) |-> F[i]]
    BY Zenon
  <2> HIDE DEF F
  <2> QED
    BY <2>2, <2>3, Zenon
<1>3. P(CHOOSE h : P(h))
  BY <1>2, Zenon
<1>4. FlattenSeq(b) = (CHOOSE h : P(h))[1]
  BY <1>1 DEF FlattenSeq
<1>5. (CHOOSE h : P(h))[1] = b[1]
  BY <1>1, <1>3
<1> QED
  BY <1>1, <1>4, <1>5 DEF b

-----------------------------------------------------------------------------
(* The invariant. Written: the pieces an attempt has handed to its writer.                        *)
Written(a) == IF at[a] = "reading" \/ Batches[of[a]] = 0 THEN batch[a] ELSE Batches[of[a]] + 1

(* What is written is in full blocks and, behind them, in the buffer.                             *)
Buffered(a) ==
    /\ Upto(blocks[a]) <= Written(a) /\ Written(a) < Upto(blocks[a]) + BlockPieces
    /\ buf[a] = Slice(of[a], Upto(blocks[a]), Written(a))

AttemptOK(a) ==
    /\ at[a] = "new" => of[a] = None /\ batch[a] = 0 /\ ~open[a] /\ buf[a] = <<>> /\ blocks[a] = 0
    /\ at[a] \in {"reading", "footed", "flushed", "published", "done"} => of[a] \in DOMAIN Batches
    /\ at[a] = "reading" => batch[a] <= Batches[of[a]] /\ (open[a] <=> batch[a] > 0)
    /\ at[a] \in {"footed", "flushed", "published", "done"} => batch[a] = Batches[of[a]] /\ ~open[a]
    /\ at[a] \in {"reading", "footed"} => Buffered(a)
    /\ at[a] = "flushed" => buf[a] = <<>> /\ Covers(blocks[a], Written(a))
    /\ at[a] = "published" => closed[a]
    /\ at[a] = "failed" /\ ~closed[a] => blocks[a] = 0 /\ buf[a] \in {<<>>, <<Footer(of[a], batch[a])>>}

StreamTypes ==
    /\ at \in [Attempts -> {"new", "reading", "footed", "flushed", "published", "failed", "done", "dead"}]
    /\ of \in [Attempts -> {None} \cup DOMAIN Batches]
    /\ batch \in [Attempts -> Nat] /\ blocks \in [Attempts -> Nat]
    /\ open \in [Attempts -> BOOLEAN] /\ closed \in [Attempts -> BOOLEAN] /\ tangled \in BOOLEAN
    /\ DOMAIN buf = Attempts /\ DOMAIN progress = Attempts /\ DOMAIN result = Attempts
    /\ source \in DOMAIN Batches

(* A block of an attempt is staged or, once another attempt at the version has published, there.    *)
Found(a, i) ==
    IF i \in DOMAIN staged THEN staged[i] = Block(of[a], i)
    ELSE i < Len(blob) /\ blob[i + 1] = Block(of[a], i)

Apart ==
    /\ \A a, b \in Attempts : Running(a) /\ Running(b) => of[a] = of[b]
    /\ \A a, b \in Attempts : Lingers(a) => ~Running(b) /\ at[b] # "published"
BlocksFound == \A a \in Attempts : Running(a) => \A i \in Nat : i < blocks[a] => Found(a, i)
CopyIsWhole ==
    \/ blob = <<>>
    \/ \E v \in DOMAIN Batches : Batches[v] > 0 /\ IsCopy(blob, v)
    \/ \E a \in Attempts : at[a] = "failed" /\ blob = <<<<Footer(of[a], batch[a])>>>>
CopyIsThere ==
    \A a \in Attempts :
        at[a] = "published" /\ batch[a] > 0 /\ (\A b \in Attempts : of[b] \in {None, of[a]}) => IsCopy(blob, of[a])
Untangled == ~tangled => Apart /\ BlocksFound /\ CopyIsWhole /\ CopyIsThere

ResultsOK ==
    \A a \in Attempts : at[a] = "done" =>
        progress[a] = None /\ \E n \in Nat : result[a].schema = detect_schema_dictionary(_profile_from_batch(n))

StreamInv == StreamTypes /\ (\A a \in Attempts : AttemptOK(a)) /\ Untangled /\ ResultsOK

LEMMA EmptySlices == ASSUME ConstantsOK, NEW v \in DOMAIN Batches, NEW x \in Nat, x <= Batches[v] + 1
    PROVE  Slice(v, x, x) = <<>>
<1>1. Part(v, Slice(v, x, x), x, x)
  BY SlicesAreParts
<1>2. Slice(v, x, x) \in Seq(Pieces) /\ Len(Slice(v, x, x)) = 0
  BY <1>1 DEF Part
<1> QED
  BY <1>2, EmptySeq

LEMMA PartsAreLong == ASSUME NEW v, NEW s, NEW x, NEW y, Part(v, s, x, y) PROVE Len(s) = y - x
BY DEF Part

(* A write adds a piece and stages a block that becomes full.                                    *)
LEMMA WritesAdd ==
    ASSUME ConstantsOK, StreamTypes, NEW a \in Attempts, of[a] \in DOMAIN Batches,
           NEW w \in Nat, w <= Batches[of[a]],
           Upto(blocks[a]) <= w, w < Upto(blocks[a]) + BlockPieces, buf[a] = Slice(of[a], Upto(blocks[a]), w),
           Write(a, Whole(of[a])[w + 1])
    PROVE  /\ \A b \in Attempts \ {a} : blocks'[b] = blocks[b] /\ buf'[b] = buf[b]
           /\ DOMAIN buf' = Attempts /\ blocks' \in [Attempts -> Nat]
           /\ Upto(blocks'[a]) <= w + 1 /\ w + 1 < Upto(blocks'[a]) + BlockPieces
           /\ buf'[a] = Slice(of[a], Upto(blocks'[a]), w + 1)
           /\ \/ blocks'[a] = blocks[a] /\ staged' = staged
              \/ blocks'[a] = blocks[a] + 1 /\ staged' = Put(staged, blocks[a], Block(of[a], blocks[a]))
<1> DEFINE v == of[a]
           k == blocks[a]
           full == Append(buf[a], Whole(v)[w + 1])
<1>0. Batches[v] \in Nat /\ BlockPieces \in Nat /\ BlockPieces > 0 /\ k \in Nat /\ v \in DOMAIN Batches
  <2>1. Batches \in Seq(Nat) /\ BlockPieces \in Nat \ {0}
    BY DEF ConstantsOK
  <2>2. blocks \in [Attempts -> Nat]
    BY DEF StreamTypes
  <2>3. k \in Nat
    BY <2>2
  <2> HIDE DEF k
  <2>4. v \in DOMAIN Batches
    OBVIOUS
  <2> HIDE DEF v
  <2>5. Batches[v] \in Nat
    BY <2>1, <2>4
  <2> QED
    BY <2>1, <2>3, <2>4, <2>5
<1>a. \A i \in Nat : Upto(i) \in Nat /\ Upto(i + 1) = Upto(i) + BlockPieces
  BY Multiples
<1> HIDE DEF k
<1>1. Upto(k) \in Nat /\ Upto(k + 1) = Upto(k) + BlockPieces /\ k + 1 \in Nat
  BY <1>0, <1>a
<1> USE DEF k
<1>2. full = Slice(v, Upto(k), w + 1)
  BY <1>0, <1>1, SlicesGrow
<1>3. Len(full) = (w + 1) - Upto(k)
  <2>1. Upto(k) <= w + 1 /\ w + 1 <= Batches[v] + 1 /\ w + 1 \in Nat
    BY <1>0, <1>1
  <2>2. Part(v, Slice(v, Upto(k), w + 1), Upto(k), w + 1)
    BY <1>0, <1>1, <2>1, SlicesAreParts
  <2>3. Len(Slice(v, Upto(k), w + 1)) = (w + 1) - Upto(k)
    BY <2>2, PartsAreLong
  <2> QED
    BY <1>2, <2>3
<1>4. Write(a, Whole(v)[w + 1]) <=> IF Len(full) >= BlockPieces
                                   THEN /\ staged' = Put(staged, k, full)
                                        /\ blocks' = [blocks EXCEPT ![a] = @ + 1]
                                        /\ buf' = [buf EXCEPT ![a] = <<>>]
                                   ELSE buf' = [buf EXCEPT ![a] = full] /\ UNCHANGED <<staged, blocks>>
  BY DEF Write
<1>5. DOMAIN buf = Attempts /\ blocks \in [Attempts -> Nat]
  BY DEF StreamTypes
<1> HIDE DEF full
<1>6. CASE Len(full) >= BlockPieces
  <2>1. staged' = Put(staged, k, full) /\ blocks' = [blocks EXCEPT ![a] = @ + 1] /\ buf' = [buf EXCEPT ![a] = <<>>]
    BY <1>4, <1>6
  <2>2. w + 1 = Upto(k + 1)
    BY <1>0, <1>1, <1>3, <1>6
  <2>3. full = Block(v, k)
    BY <1>0, <1>1, <1>2, <2>2 DEF Block, End
  <2>4. Slice(v, Upto(k + 1), w + 1) = <<>>
    BY <1>0, <1>1, <2>2, EmptySlices
  <2>5. blocks'[a] = k + 1 /\ buf'[a] = <<>>
    BY <2>1, <1>5
  <2>6. \A b \in Attempts \ {a} : blocks'[b] = blocks[b] /\ buf'[b] = buf[b]
    BY <2>1, <1>5
  <2>7. DOMAIN buf' = Attempts /\ blocks' \in [Attempts -> Nat]
    BY <2>1, <1>5
  <2>8. Upto(blocks'[a]) <= w + 1 /\ w + 1 < Upto(blocks'[a]) + BlockPieces
    BY <1>0, <1>1, <2>2, <2>5
  <2> QED
    BY <2>1, <2>3, <2>4, <2>5, <2>6, <2>7, <2>8
<1>7. CASE ~(Len(full) >= BlockPieces)
  <2>1. buf' = [buf EXCEPT ![a] = full] /\ staged' = staged /\ blocks' = blocks
    BY <1>4, <1>7
  <2>2. buf'[a] = full /\ \A b \in Attempts \ {a} : buf'[b] = buf[b]
    BY <2>1, <1>5
  <2>3. DOMAIN buf' = Attempts
    BY <2>1, <1>5
  <2>4. w + 1 < Upto(k) + BlockPieces /\ Upto(k) <= w + 1
    BY <1>0, <1>1, <1>3, <1>7
  <2> QED
    BY <2>1, <2>2, <2>3, <2>4, <1>2, <1>5
<1> QED
  BY <1>6, <1>7

(* What of an attempt is the same behind a step of another.                                      *)
Same(b) == /\ at'[b] = at[b] /\ of'[b] = of[b] /\ batch'[b] = batch[b] /\ open'[b] = open[b]
           /\ buf'[b] = buf[b] /\ blocks'[b] = blocks[b] /\ closed'[b] = closed[b]
           /\ (at[b] = "done" => progress'[b] = progress[b]) /\ result'[b] = result[b]

LEMMA SameStays == ASSUME NEW b \in Attempts, AttemptOK(b), Same(b) PROVE AttemptOK(b)'
BY DEF AttemptOK, Same, Buffered, Written

LEMMA SameIsKnown == ASSUME NEW b \in Attempts, Same(b)
    PROVE  (Running(b)' <=> Running(b)) /\ (Lingers(b)' <=> Lingers(b)) /\ Written(b)' = Written(b)
BY DEF Same, Running, Lingers, Written
-----------------------------------------------------------------------------
(* Steps keep types, and attempts other than the one that moves as they are.                      *)
Step(a) == \/ Begin(a) \/ WriteBatch(a) \/ WriteFooter(a) \/ Flush(a) \/ Publish(a)
           \/ Fail(a) \/ Collect(a) \/ Return(a) \/ Die(a)

LEMMA WriteTypes == ASSUME StreamTypes, NEW a \in Attempts, NEW piece, Write(a, piece)
    PROVE  /\ blocks' \in [Attempts -> Nat] /\ DOMAIN buf' = Attempts
           /\ \A b \in Attempts \ {a} : blocks'[b] = blocks[b] /\ buf'[b] = buf[b]
<1>1. DOMAIN buf = Attempts /\ blocks \in [Attempts -> Nat]
  BY DEF StreamTypes
<1> DEFINE full == Append(buf[a], piece)
<1>2. \/ blocks' = [blocks EXCEPT ![a] = @ + 1] /\ buf' = [buf EXCEPT ![a] = <<>>]
      \/ buf' = [buf EXCEPT ![a] = full] /\ blocks' = blocks
  BY DEF Write
<1> HIDE DEF full
<1> QED
  BY <1>1, <1>2

LEMMA TypesStep == ASSUME ConstantsOK, StreamTypes, NEW a \in Attempts, Step(a) PROVE StreamTypes'
<1> USE DEF StreamTypes
<1>1. CASE Begin(a)
  BY <1>1 DEF Begin
<1>2. CASE WriteBatch(a)
  BY <1>2, WriteTypes DEF WriteBatch
<1>3. CASE WriteFooter(a)
  <2>1. CASE open[a]
    <3>1. Write(a, Footer(of[a], batch[a]))
      BY <1>3, <2>1 DEF WriteFooter
    <3>2. /\ blocks' \in [Attempts -> Nat] /\ DOMAIN buf' = Attempts
          /\ \A c \in Attempts \ {a} : blocks'[c] = blocks[c] /\ buf'[c] = buf[c]
      BY <3>1, WriteTypes
    <3> QED
      BY <1>3, <3>2 DEF WriteFooter
  <2>2. CASE ~open[a]
    BY <1>3, <2>2 DEF WriteFooter
  <2> QED
    BY <2>1, <2>2
<1>4. CASE Flush(a)
  <2>1. CASE buf[a] = <<>>
    BY <1>4, <2>1 DEF Flush
  <2>2. CASE buf[a] # <<>>
    BY <1>4, <2>2 DEF Flush
  <2> QED
    BY <2>1, <2>2
<1>5. CASE Publish(a)
  BY <1>5 DEF Publish
<1>6. CASE Fail(a)
  BY <1>6 DEF Fail
<1>7. CASE Collect(a)
  BY <1>7 DEF Collect
<1>8. CASE Return(a)
  BY <1>8 DEF Return
<1>9. CASE Die(a)
  BY <1>9 DEF Die
<1> QED
  BY <1>1, <1>2, <1>3, <1>4, <1>5, <1>6, <1>7, <1>8, <1>9 DEF Step

LEMMA OthersStay == ASSUME StreamTypes, NEW a \in Attempts, Step(a), NEW b \in Attempts \ {a} PROVE Same(b)
<1> USE DEF StreamTypes, Same
<1>1. CASE Begin(a)
  BY <1>1 DEF Begin
<1>2. CASE WriteBatch(a)
  BY <1>2, WriteTypes DEF WriteBatch
<1>3. CASE WriteFooter(a)
  <2>1. CASE open[a]
    <3>1. Write(a, Footer(of[a], batch[a]))
      BY <1>3, <2>1 DEF WriteFooter
    <3>2. /\ blocks' \in [Attempts -> Nat] /\ DOMAIN buf' = Attempts
          /\ \A c \in Attempts \ {a} : blocks'[c] = blocks[c] /\ buf'[c] = buf[c]
      BY <3>1, WriteTypes
    <3> QED
      BY <1>3, <3>2 DEF WriteFooter
  <2>2. CASE ~open[a]
    BY <1>3, <2>2 DEF WriteFooter
  <2> QED
    BY <2>1, <2>2
<1>4. CASE Flush(a)
  BY <1>4 DEF Flush
<1>5. CASE Publish(a)
  BY <1>5 DEF Publish
<1>6. CASE Fail(a)
  BY <1>6 DEF Fail
<1>7. CASE Collect(a)
  BY <1>7 DEF Collect
<1>8. CASE Return(a)
  BY <1>8 DEF Return
<1>9. CASE Die(a)
  BY <1>9 DEF Die
<1> QED
  BY <1>1, <1>2, <1>3, <1>4, <1>5, <1>6, <1>7, <1>8, <1>9 DEF Step

-----------------------------------------------------------------------------
(* What the writing steps add: nothing to the staged blocks, or the next block of their version.   *)
Stages(a) ==
    /\ Running(a) /\ of[a] \in DOMAIN Batches /\ of'[a] = of[a] /\ at'[a] \in {"reading", "footed", "flushed"}
    /\ blob' = blob
    /\ \/ blocks'[a] = blocks[a] /\ staged' = staged
       \/ blocks'[a] = blocks[a] + 1 /\ staged' = Put(staged, blocks[a], Block(of[a], blocks[a]))

LEMMA BatchesAreStaged == ASSUME ConstantsOK, StreamTypes, NEW a \in Attempts, AttemptOK(a), WriteBatch(a)
    PROVE  AttemptOK(a)' /\ Stages(a)
<1> DEFINE v == of[a]
           w == batch[a]
<1>1. /\ at[a] = "reading" /\ at'[a] = "reading" /\ of'[a] = v /\ batch'[a] = w + 1 /\ open'[a] = TRUE
      /\ blob' = blob /\ w < Batches[v] /\ Write(a, Rows(v, w + 1))
  BY DEF WriteBatch, StreamTypes
<1>2. v \in DOMAIN Batches /\ w \in Nat /\ Buffered(a) /\ Written(a) = w
  BY <1>1 DEF AttemptOK, StreamTypes, Written
<1>3. Batches[v] \in Nat /\ Whole(v)[w + 1] = Rows(v, w + 1)
  <2>1. Batches[v] \in Nat /\ \A k \in 1..Batches[v] : Whole(v)[k] = Rows(v, k)
    BY <1>2, WholeLists
  <2>2. w + 1 \in 1..Batches[v]
    BY <1>1, <1>2, <2>1
  <2> QED
    BY <2>1, <2>2
<1>4. Upto(blocks[a]) <= w /\ w < Upto(blocks[a]) + BlockPieces /\ buf[a] = Slice(v, Upto(blocks[a]), w)
  BY <1>2 DEF Buffered
<1>5. /\ Upto(blocks'[a]) <= w + 1 /\ w + 1 < Upto(blocks'[a]) + BlockPieces
      /\ buf'[a] = Slice(v, Upto(blocks'[a]), w + 1)
      /\ \/ blocks'[a] = blocks[a] /\ staged' = staged
         \/ blocks'[a] = blocks[a] + 1 /\ staged' = Put(staged, blocks[a], Block(v, blocks[a]))
  <2>1. w <= Batches[v] /\ Write(a, Whole(v)[w + 1])
    BY <1>1, <1>2, <1>3
  <2> QED
    BY <1>2, <1>4, <2>1, WritesAdd
<1>6. Written(a)' = w + 1
  BY <1>1 DEF Written
<1>7. Buffered(a)'
  BY <1>1, <1>5, <1>6 DEF Buffered
<1>8. AttemptOK(a)'
  BY <1>1, <1>2, <1>3, <1>7 DEF AttemptOK
<1> QED
  BY <1>1, <1>2, <1>5, <1>8 DEF Stages, Running

LEMMA FootersAreStaged == ASSUME ConstantsOK, StreamTypes, NEW a \in Attempts, AttemptOK(a), WriteFooter(a)
    PROVE  AttemptOK(a)' /\ Stages(a)
<1> DEFINE v == of[a]
           w == batch[a]
<1>1. /\ at[a] = "reading" /\ at'[a] = "footed" /\ of'[a] = v /\ batch'[a] = w /\ open'[a] = FALSE
      /\ blob' = blob /\ w = Batches[v]
      /\ IF open[a] THEN Write(a, Footer(v, w)) ELSE UNCHANGED <<buf, blocks, staged>>
  BY DEF WriteFooter, StreamTypes
<1>2. v \in DOMAIN Batches /\ w \in Nat /\ Buffered(a) /\ Written(a) = w /\ (open[a] <=> w > 0)
  BY <1>1 DEF AttemptOK, StreamTypes, Written
<1>3. Whole(v)[w + 1] = Footer(v, w)
  BY <1>1, <1>2, WholeLists
<1>4. Upto(blocks[a]) <= w /\ w < Upto(blocks[a]) + BlockPieces /\ buf[a] = Slice(v, Upto(blocks[a]), w)
  BY <1>2 DEF Buffered
<1>5. CASE open[a]
  <2>1. /\ Upto(blocks'[a]) <= w + 1 /\ w + 1 < Upto(blocks'[a]) + BlockPieces
        /\ buf'[a] = Slice(v, Upto(blocks'[a]), w + 1)
        /\ \/ blocks'[a] = blocks[a] /\ staged' = staged
           \/ blocks'[a] = blocks[a] + 1 /\ staged' = Put(staged, blocks[a], Block(v, blocks[a]))
    <3>1. w <= Batches[v] /\ Write(a, Whole(v)[w + 1])
      BY <1>1, <1>2, <1>3, <1>5
    <3> QED
      BY <1>2, <1>4, <3>1, WritesAdd
  <2>2. Written(a)' = w + 1
    BY <1>1, <1>2, <1>5 DEF Written
  <2>3. Buffered(a)'
    BY <1>1, <2>1, <2>2 DEF Buffered
  <2>4. AttemptOK(a)'
    BY <1>1, <1>2, <2>3 DEF AttemptOK
  <2> QED
    BY <1>1, <1>2, <2>1, <2>4 DEF Stages, Running
<1>6. CASE ~open[a]
  <2>1. blocks'[a] = blocks[a] /\ buf'[a] = buf[a] /\ staged' = staged
    BY <1>1, <1>6
  <2>2. Written(a)' = w
    BY <1>1, <1>2, <1>6 DEF Written
  <2>3. Buffered(a)'
    BY <1>1, <1>4, <2>1, <2>2 DEF Buffered
  <2>4. AttemptOK(a)'
    BY <1>1, <1>2, <2>3 DEF AttemptOK
  <2> QED
    BY <1>1, <1>2, <2>1, <2>4 DEF Stages, Running
<1> QED
  BY <1>5, <1>6

LEMMA RestsAreStaged == ASSUME ConstantsOK, StreamTypes, NEW a \in Attempts, AttemptOK(a), Flush(a)
    PROVE  AttemptOK(a)' /\ Stages(a)
<1> DEFINE v == of[a]
           k == blocks[a]
           w == Written(a)
           N == Batches[v] + 1
<1>1. /\ at[a] = "footed" /\ at'[a] = "flushed" /\ of'[a] = v /\ batch'[a] = batch[a] /\ open'[a] = open[a]
      /\ blob' = blob
      /\ IF buf[a] = <<>> THEN buf' = buf /\ blocks' = blocks /\ staged' = staged
         ELSE staged' = Put(staged, k, buf[a]) /\ blocks'[a] = k + 1 /\ buf'[a] = <<>>
  BY DEF Flush, StreamTypes
<1>2. v \in DOMAIN Batches /\ batch[a] = Batches[v] /\ Batches[v] \in Nat /\ ~open[a] /\ Buffered(a)
  BY <1>1, WholeLists DEF AttemptOK
<1>3. w \in Nat /\ (w = 0 \/ w = N) /\ w <= N
  BY <1>1, <1>2 DEF Written
<1>4. Written(a)' = w
  BY <1>1 DEF Written
<1>5. k \in Nat /\ BlockPieces \in Nat /\ BlockPieces > 0 /\ k + 1 \in Nat
  BY DEF StreamTypes, ConstantsOK
<1>6. Upto(k) \in Nat /\ Upto(k + 1) = Upto(k) + BlockPieces
  BY <1>5, Multiples
<1> HIDE DEF w, N
<1>7. Upto(k) <= w /\ w < Upto(k) + BlockPieces /\ buf[a] = Slice(v, Upto(k), w)
  BY <1>2 DEF Buffered, w
<1>8. buf[a] = <<>> <=> w = Upto(k)
  <2>1. Part(v, Slice(v, Upto(k), w), Upto(k), w)
    BY <1>2, <1>3, <1>6, <1>7, SlicesAreParts DEF N
  <2>2. buf[a] \in Seq(Pieces) /\ Len(buf[a]) = w - Upto(k)
    BY <1>7, <2>1 DEF Part
  <2> QED
    BY <2>2, <1>3, <1>6, EmptySeq
<1>9. CASE buf[a] = <<>>
  <2>1. blocks'[a] = k /\ buf'[a] = <<>> /\ staged' = staged
    BY <1>1, <1>9
  <2>2. Covers(k, w)
    <3>1. CASE w = 0
      <4>1. k > 0 => Upto(0) + BlockPieces <= Upto(k) /\ Upto(0) = 0
        BY <1>5, Multiples
      <4> QED
        BY <3>1, <4>1, <1>5, <1>8, <1>9 DEF Covers
    <3>2. CASE w # 0
      <4>1. k # 0
        <5>1. Upto(0) = 0
          BY Multiples
        <5> QED
          BY <5>1, <3>2, <1>8, <1>9
      <4>2. k - 1 \in Nat /\ k - 1 < k
        BY <4>1, <1>5
      <4>3. Upto(k - 1) + BlockPieces <= Upto(k) /\ Upto(k - 1) \in Nat
        BY <4>2, <1>5, Multiples
      <4> QED
        BY <3>2, <4>1, <4>3, <1>5, <1>6, <1>8, <1>9 DEF Covers
    <3> QED
      BY <3>1, <3>2
  <2>3. Covers(blocks[a], Written(a))'
    BY <2>1, <2>2, <1>4 DEF Covers, w
  <2>4. AttemptOK(a)'
    BY <1>1, <1>2, <2>1, <2>3 DEF AttemptOK
  <2> QED
    BY <1>1, <1>2, <2>1, <2>4 DEF Stages, Running
<1>10. CASE buf[a] # <<>>
  <2>1. blocks'[a] = k + 1 /\ buf'[a] = <<>> /\ staged' = Put(staged, k, buf[a])
    BY <1>1, <1>10
  <2>2. Upto(k) < w /\ w # 0 /\ w = N
    BY <1>3, <1>6, <1>7, <1>8, <1>10
  <2>3. Covers(k + 1, w)
    <3>1. (k + 1) - 1 = k /\ k + 1 > 0
      BY <1>5
    <3>2. w <= Upto(k + 1)
      BY <1>3, <1>6, <1>7, <1>5
    <3> QED
      BY <2>2, <3>1, <3>2 DEF Covers
  <2>4. buf[a] = Block(v, k)
    <3>1. Upto(k + 1) > N /\ N = Batches[v] + 1
      BY <1>3, <1>6, <1>7, <2>2, <1>5 DEF N
    <3>2. End(v, k) = N
      BY <3>1, <1>2, <1>5, <1>6 DEF End
    <3> QED
      BY <3>2, <2>2, <1>7 DEF Block
  <2>5. Covers(blocks[a], Written(a))'
    BY <2>1, <2>3, <1>4 DEF Covers, w
  <2>6. AttemptOK(a)'
    BY <1>1, <1>2, <2>1, <2>5 DEF AttemptOK
  <2> QED
    BY <1>1, <1>2, <2>1, <2>4, <2>6 DEF Stages, Running
<1> QED
  BY <1>9, <1>10

-----------------------------------------------------------------------------
(* The other steps, for the attempt that takes them.                                             *)
LEMMA NewAttempts == ASSUME ConstantsOK, StreamTypes, NEW a \in Attempts, AttemptOK(a), Begin(a) PROVE AttemptOK(a)'
<1>1. /\ at[a] = "new" /\ of'[a] = source /\ batch'[a] = batch[a] /\ open'[a] = open[a] /\ buf'[a] = buf[a]
      /\ blocks'[a] = blocks[a]
      /\ \/ at'[a] = "failed" /\ closed'[a] = TRUE
         \/ at'[a] = "reading"
  BY DEF Begin, StreamTypes
<1>2. /\ source \in DOMAIN Batches /\ batch[a] = 0 /\ open[a] = FALSE /\ buf[a] = <<>> /\ blocks[a] = 0
  BY <1>1 DEF AttemptOK, StreamTypes
<1>3. CASE at'[a] = "failed" /\ closed'[a] = TRUE
  BY <1>3 DEF AttemptOK
<1>4. CASE at'[a] = "reading"
  <2>1. Written(a)' = 0
    BY <1>1, <1>2, <1>4 DEF Written
  <2>2. Upto(0) = 0 /\ 0 < Upto(0) + BlockPieces /\ Batches[source] \in Nat
    <3>1. Upto(0) = 0
      BY Multiples
    <3>2. Batches[source] \in Nat
      BY <1>2, WholeLists
    <3> QED
      BY <3>1, <3>2 DEF ConstantsOK
  <2>3. Slice(source, Upto(0), 0) = <<>>
    <3>1. 0 \in Nat /\ 0 <= Batches[source] + 1
      BY <2>2
    <3> QED
      BY <1>2, <2>2, <3>1, EmptySlices
  <2>4. Buffered(a)'
    BY <1>1, <1>2, <2>1, <2>2, <2>3 DEF Buffered
  <2> QED
    BY <1>1, <1>2, <1>4, <2>2, <2>4 DEF AttemptOK
<1> QED
  BY <1>1, <1>3, <1>4

LEMMA LaterAttempts ==
    ASSUME ConstantsOK, StreamTypes, NEW a \in Attempts, AttemptOK(a), Publish(a) \/ Fail(a) \/ Collect(a) \/ Return(a) \/ Die(a)
    PROVE  AttemptOK(a)'
<1> USE DEF StreamTypes, AttemptOK
<1>1. CASE Publish(a)
  BY <1>1 DEF Publish
<1>2. CASE Fail(a)
  BY <1>2 DEF Fail
<1>3. CASE Collect(a)
  BY <1>3 DEF Collect
<1>4. CASE Return(a)
  BY <1>4 DEF Return
<1>5. CASE Die(a)
  BY <1>5 DEF Die
<1> QED
  BY <1>1, <1>2, <1>3, <1>4, <1>5

LEMMA AttemptsStep ==
    ASSUME ConstantsOK, StreamTypes, \A b \in Attempts : AttemptOK(b), NEW a \in Attempts, Step(a)
    PROVE  \A b \in Attempts : AttemptOK(b)'
<1>1. AttemptOK(a)
  OBVIOUS
<1>2. AttemptOK(a)'
  BY <1>1, BatchesAreStaged, FootersAreStaged, RestsAreStaged, NewAttempts, LaterAttempts DEF Step
<1>3. ASSUME NEW b \in Attempts \ {a} PROVE AttemptOK(b)'
  BY OthersStay, SameStays
<1> QED
  BY <1>2, <1>3

-----------------------------------------------------------------------------
(* What an untangled state promises, and steps after which it is so.                              *)
Promises == Apart /\ BlocksFound /\ CopyIsWhole /\ CopyIsThere

LEMMA FoundStays ==
    ASSUME NEW b, NEW i, NEW k, NEW v, of'[b] = of[b], of[b] = v, blob' = blob,
           staged' = staged \/ staged' = Put(staged, k, Block(v, k)), Found(b, i) \/ (i = k /\ staged' = Put(staged, k, Block(v, k)))
    PROVE  Found(b, i)'
<1>1. CASE staged' = staged /\ Found(b, i)
  BY <1>1 DEF Found, Block, Slice
<1>2. CASE staged' = Put(staged, k, Block(v, k))
  <2> DEFINE x == Block(v, k)
  <2>1. DOMAIN staged' = DOMAIN staged \cup {k} /\ \A j \in DOMAIN staged \cup {k} : staged'[j] = IF j = k THEN x ELSE staged[j]
    <3> HIDE DEF x
    <3>1. staged' = Put(staged, k, x)
      BY <1>2 DEF x
    <3> QED
      BY <3>1 DEF Put
  <2> HIDE DEF x
  <2>2. CASE i = k
    <3>1. i \in DOMAIN staged' /\ staged'[i] = Block(of'[b], i)
      BY <2>1, <2>2 DEF x
    <3> QED
      BY <3>1 DEF Found
  <2>3. CASE i # k
    <3>1. Found(b, i)
      BY <2>3
    <3>2. (i \in DOMAIN staged' <=> i \in DOMAIN staged) /\ (i \in DOMAIN staged => staged'[i] = staged[i])
      BY <2>1, <2>3
    <3> QED
      BY <3>1, <3>2 DEF Found
  <2> QED
    BY <2>2, <2>3
<1> QED
  BY <1>1, <1>2

(* Attempts that read one version stay the only ones that run beside what lingers.                *)
LEMMA ApartStays ==
    ASSUME Apart, NEW a \in Attempts, \A b \in Attempts \ {a} : Same(b),
           Running(a)' => Running(a) /\ of'[a] = of[a],
           at'[a] = "published" => Running(a) \/ at[a] = "published",
           Lingers(a)' => Lingers(a) \/ \A b \in Attempts \ {a} : ~Running(b) /\ at[b] # "published"
    PROVE  Apart'
<1>1. ASSUME NEW b \in Attempts, NEW c \in Attempts, Running(b)', Running(c)' PROVE of'[b] = of'[c]
  <2>1. \A d \in {b, c} : Running(d) /\ of'[d] = of[d]
    BY <1>1, SameIsKnown DEF Same
  <2> QED
    BY <2>1 DEF Apart
<1>2. ASSUME NEW b \in Attempts, NEW c \in Attempts, Lingers(b)' PROVE ~Running(c)' /\ at'[c] # "published"
  <2>1. CASE c = b
    BY <1>2, <2>1 DEF Lingers, Running
  <2>2. CASE c # b
    <3>1. \A d \in Attempts \ {a} : (Running(d)' <=> Running(d)) /\ (Lingers(d)' <=> Lingers(d)) /\ at'[d] = at[d]
      BY SameIsKnown DEF Same
    <3>2. CASE b = a
      BY <1>2, <2>2, <3>1, <3>2 DEF Apart
    <3>3. CASE b # a
      BY <1>2, <2>2, <3>1, <3>3 DEF Apart
    <3> QED
      BY <3>2, <3>3
  <2> QED
    BY <2>1, <2>2
<1> QED
  BY <1>1, <1>2 DEF Apart

(* Blocks are where they were behind a step that neither stages nor publishes.                    *)
LEMMA BlocksStay ==
    ASSUME BlocksFound, NEW a \in Attempts, \A b \in Attempts \ {a} : Same(b), blob' = blob, staged' = staged,
           Running(a)' => blocks'[a] = 0
    PROVE  BlocksFound'
<1> SUFFICES ASSUME NEW b \in Attempts, Running(b)', NEW i \in Nat, i < blocks'[b] PROVE Found(b, i)'
  BY DEF BlocksFound
<1>1. b # a
  OBVIOUS
<1>2. Running(b) /\ i < blocks[b] /\ of'[b] = of[b]
  BY <1>1, SameIsKnown DEF Same
<1>3. Found(b, i)
  BY <1>2 DEF BlocksFound
<1> QED
  BY <1>2, <1>3, FoundStays

(* The copy stays what it is behind a step that does not publish.                                  *)
LEMMA CopyStays ==
    ASSUME CopyIsWhole, CopyIsThere, NEW a \in Attempts, \A b \in Attempts \ {a} : Same(b), blob' = blob,
           at[a] = "failed" => at'[a] = "failed" /\ of'[a] = of[a] /\ batch'[a] = batch[a],
           at'[a] # "published", of'[a] = of[a] \/ of[a] = None
    PROVE  CopyIsWhole' /\ CopyIsThere'
<1>1. CopyIsWhole'
  <2>1. CASE blob = <<>>
    BY <2>1 DEF CopyIsWhole
  <2>2. ASSUME NEW v \in DOMAIN Batches, Batches[v] > 0, IsCopy(blob, v) PROVE CopyIsWhole'
    <3>1. IsCopy(blob', v)
      BY <2>2
    <3> HIDE DEF IsCopy
    <3> QED
      BY <2>2, <3>1 DEF CopyIsWhole
  <2>3. ASSUME NEW b \in Attempts, at[b] = "failed", blob = <<<<Footer(of[b], batch[b])>>>> PROVE CopyIsWhole'
    <3>1. at'[b] = "failed" /\ of'[b] = of[b] /\ batch'[b] = batch[b]
      BY <2>3 DEF Same
    <3> QED
      BY <2>3, <3>1 DEF CopyIsWhole
  <2> QED
    BY <2>1, <2>2, <2>3 DEF CopyIsWhole
<1>2. ASSUME NEW c \in Attempts, at'[c] = "published", batch'[c] > 0, \A b \in Attempts : of'[b] \in {None, of'[c]}
      PROVE  IsCopy(blob', of'[c])
  <2>1. c # a /\ at[c] = "published" /\ batch[c] > 0 /\ of'[c] = of[c]
    BY <1>2 DEF Same
  <2>2. \A b \in Attempts : of[b] \in {None, of[c]}
    <3> TAKE b \in Attempts
    <3>1. of'[b] = of[b] \/ of[b] = None
      BY DEF Same
    <3> QED
      BY <1>2, <2>1, <3>1
  <2>3. IsCopy(blob, of[c])
    BY <2>1, <2>2 DEF CopyIsThere
  <2> QED
    BY <2>1, <2>3
<1>3. CopyIsThere'
  BY <1>2 DEF CopyIsThere
<1> QED
  BY <1>1, <1>3

LEMMA BeginKeepsPromises ==
    ASSUME StreamTypes, Promises, NEW a \in Attempts, AttemptOK(a), Begin(a), ~tangled', \A b \in Attempts \ {a} : Same(b)
    PROVE  Promises'
<1>1. /\ at[a] = "new" /\ of'[a] = source /\ of[a] = None /\ blocks'[a] = 0 /\ blob' = blob /\ staged' = staged
      /\ \/ at'[a] = "failed" /\ closed'[a] = TRUE
         \/ /\ at'[a] = "reading"
            /\ \A b \in Attempts \ {a} : ~Lingers(b) /\ (Running(b) => of[b] = source)
  BY DEF Begin, StreamTypes, AttemptOK
<1>2. Apart'
  <2>1. CASE at'[a] = "failed" /\ closed'[a] = TRUE
    <3>1. ~Running(a)' /\ ~Lingers(a)' /\ at'[a] # "published"
      BY <2>1 DEF Running, Lingers
    <3> QED
      BY <3>1, ApartStays DEF Promises
  <2>2. CASE /\ at'[a] = "reading"
             /\ \A b \in Attempts \ {a} : ~Lingers(b) /\ (Running(b) => of[b] = source)
    <3>1. \A b \in Attempts \ {a} : (Running(b)' <=> Running(b)) /\ (Lingers(b)' <=> Lingers(b)) /\ of'[b] = of[b]
      BY SameIsKnown DEF Same
    <3>2. \A b \in Attempts : Running(b)' => of'[b] = source
      BY <1>1, <2>2, <3>1
    <3>3. \A b \in Attempts : ~Lingers(b)'
      BY <2>2, <3>1 DEF Lingers
    <3> QED
      BY <3>2, <3>3 DEF Apart
  <2> QED
    BY <1>1, <2>1, <2>2
<1>3. BlocksFound'
  BY <1>1, BlocksStay DEF Promises
<1>4. CopyIsWhole' /\ CopyIsThere'
  BY <1>1, CopyStays DEF Promises
<1> QED
  BY <1>2, <1>3, <1>4 DEF Promises

LEMMA StagingKeepsPromises ==
    ASSUME StreamTypes, Promises, NEW a \in Attempts, Stages(a), \A b \in Attempts \ {a} : Same(b)
    PROVE  Promises'
<1> DEFINE v == of[a]
           k == blocks[a]
<1>1. /\ Running(a) /\ of'[a] = v /\ at'[a] \in {"reading", "footed", "flushed"} /\ blob' = blob /\ k \in Nat
      /\ staged' = staged \/ staged' = Put(staged, k, Block(v, k))
      /\ blocks'[a] = k \/ (blocks'[a] = k + 1 /\ staged' = Put(staged, k, Block(v, k)))
  BY DEF Stages, StreamTypes
<1>2. Apart'
  <2>1. Running(a)' /\ ~Lingers(a)' /\ at'[a] # "published"
    BY <1>1 DEF Running, Lingers
  <2> QED
    BY <1>1, <2>1, ApartStays DEF Promises
<1>3. BlocksFound'
  <2> SUFFICES ASSUME NEW b \in Attempts, Running(b)', NEW i \in Nat, i < blocks'[b] PROVE Found(b, i)'
    BY DEF BlocksFound
  <2>1. CASE b = a
    <3>1. i < k \/ (i = k /\ staged' = Put(staged, k, Block(v, k)))
      BY <1>1, <2>1
    <3>2. i < k => Found(a, i)
      BY <1>1 DEF Promises, BlocksFound
    <3> QED
      BY <1>1, <2>1, <3>1, <3>2, FoundStays
  <2>2. CASE b # a
    <3>1. Running(b) /\ i < blocks[b] /\ of'[b] = of[b]
      BY <2>2, SameIsKnown DEF Same
    <3>2. of[b] = v /\ Found(b, i)
      BY <1>1, <3>1 DEF Promises, BlocksFound, Apart
    <3> QED
      BY <1>1, <3>1, <3>2, FoundStays
  <2> QED
    BY <2>1, <2>2
<1>4. CopyIsWhole' /\ CopyIsThere'
  <2>1. at[a] # "failed" /\ at'[a] # "published"
    BY <1>1 DEF Running
  <2> QED
    BY <1>1, <2>1, CopyStays DEF Promises
<1> QED
  BY <1>2, <1>3, <1>4 DEF Promises

(* Behind a copy of a version no attempt at it has more blocks.                                    *)
LEMMA NoMoreBlocks ==
    ASSUME ConstantsOK, StreamTypes, NEW b \in Attempts, AttemptOK(b), Running(b), NEW n \in Nat, n > 0,
           Covers(n, Batches[of[b]] + 1)
    PROVE  blocks[b] <= n
<1> DEFINE v == of[b]
           k == blocks[b]
           N == Batches[v] + 1
<1>1. v \in DOMAIN Batches /\ k \in Nat /\ at[b] \in {"reading", "footed", "flushed"}
  BY DEF Running, AttemptOK, StreamTypes
<1>2. Batches[v] \in Nat /\ N \in Nat
  BY <1>1, WholeLists
<1>3. N <= Upto(n) /\ Upto(n) \in Nat /\ BlockPieces \in Nat /\ BlockPieces > 0
  <2>1. Upto(n) \in Nat
    BY Multiples
  <2> QED
    BY <1>2, <2>1 DEF Covers, ConstantsOK
<1>4. Written(b) \in Nat /\ Written(b) <= N
  BY <1>1, <1>2 DEF Written, AttemptOK, StreamTypes
<1>5. CASE at[b] # "flushed"
  <2>1. Upto(k) <= Written(b)
    BY <1>1, <1>5 DEF AttemptOK, Buffered
  <2>2. n < k => Upto(n) + BlockPieces <= Upto(k)
    BY <1>1, Multiples
  <2>3. Upto(k) \in Nat
    BY <1>1, Multiples
  <2> HIDE DEF N, k
  <2> QED
    BY <1>1, <1>2, <1>3, <1>4, <2>1, <2>2, <2>3 DEF k
<1>6. CASE at[b] = "flushed"
  <2>1. k = 0 \/ (k - 1 \in Nat /\ Upto(k - 1) < Written(b))
    BY <1>1, <1>6 DEF AttemptOK, Covers
  <2>2. ASSUME k # 0, n < k PROVE FALSE
    <3>1. k - 1 \in Nat /\ Upto(k - 1) < Written(b) /\ (n = k - 1 \/ n < k - 1)
      BY <1>1, <2>1, <2>2
    <3>2. n < k - 1 => Upto(n) + BlockPieces <= Upto(k - 1)
      BY <3>1, Multiples
    <3>3. Upto(k - 1) \in Nat
      BY <3>1, Multiples
    <3> HIDE DEF N, k
    <3> QED
      BY <1>2, <1>3, <1>4, <3>1, <3>2, <3>3
  <2> QED
    BY <1>1, <2>2
<1> QED
  BY <1>5, <1>6

(* What commit_block_list makes of the blocks of an attempt that has flushed is a copy.            *)
LEMMA PublishedIsCopy ==
    ASSUME ConstantsOK, StreamTypes, NEW a \in Attempts, AttemptOK(a), at[a] = "flushed", BlocksFound, blocks[a] # 0,
           commit_block_list(staged, blocks[a])
    PROVE  /\ of[a] \in DOMAIN Batches /\ Batches[of[a]] > 0 /\ Covers(blocks[a], Batches[of[a]] + 1)
           /\ blob' = Blocks(of[a], blocks[a]) /\ staged' = <<>>
<1> DEFINE v == of[a]
           n == blocks[a]
<1>1. v \in DOMAIN Batches /\ batch[a] = Batches[v] /\ Covers(n, Written(a)) /\ n \in Nat
  BY DEF AttemptOK, StreamTypes
<1>2. Batches[v] \in Nat
  BY <1>1, WholeLists
<1>3. Batches[v] > 0 /\ Written(a) = Batches[v] + 1
  BY <1>1, <1>2 DEF Covers, Written
<1>4. blob' = [i \in 1..n |-> IF i - 1 \in DOMAIN staged THEN staged[i - 1] ELSE blob[i]] /\ staged' = <<>>
  BY DEF commit_block_list
<1>5. \A i \in 1..n : (IF i - 1 \in DOMAIN staged THEN staged[i - 1] ELSE blob[i]) = Block(v, i - 1)
  <2> TAKE i \in 1..n
  <2>1. i - 1 \in Nat /\ i - 1 < n /\ (i - 1) + 1 = i
    BY <1>1
  <2>2. Found(a, i - 1)
    BY <2>1 DEF BlocksFound, Running
  <2> QED
    BY <2>1, <2>2 DEF Found
<1>6. blob' = Blocks(v, n)
  BY <1>4, <1>5 DEF Blocks
<1> QED
  BY <1>1, <1>3, <1>4, <1>6

LEMMA PublishKeepsPromises ==
    ASSUME ConstantsOK, StreamTypes, \A b \in Attempts : AttemptOK(b), Promises, NEW a \in Attempts, Publish(a),
           \A b \in Attempts \ {a} : Same(b)
    PROVE  Promises'
<1> DEFINE v == of[a]
           n == blocks[a]
<1>1. /\ at[a] = "flushed" /\ at'[a] = "published" /\ of'[a] = v /\ batch'[a] = batch[a] /\ v \in DOMAIN Batches
      /\ batch[a] = Batches[v] /\ Covers(n, Written(a)) /\ n \in Nat
      /\ IF n = 0 THEN blob' = blob /\ staged' = staged ELSE commit_block_list(staged, n)
  BY DEF Publish, StreamTypes, AttemptOK
<1>2. Running(a) /\ ~Running(a)' /\ ~Lingers(a)' /\ v # None
  BY <1>1 DEF Running, Lingers, ConstantsOK
<1>3. Apart'
  BY <1>1, <1>2, ApartStays DEF Promises
<1>4. CASE n = 0
  <2>1. BlocksFound'
    BY <1>1, <1>2, <1>4, BlocksStay DEF Promises
  <2>2. batch[a] = 0
    BY <1>1, <1>4, WholeLists DEF Covers, Written
  <2>3. CopyIsWhole'
    <3>1. CASE blob = <<>>
      BY <1>1, <1>4, <3>1 DEF CopyIsWhole
    <3>2. ASSUME NEW u \in DOMAIN Batches, Batches[u] > 0, IsCopy(blob, u) PROVE CopyIsWhole'
      <4>1. IsCopy(blob', u)
        BY <1>1, <1>4, <3>2
      <4> HIDE DEF IsCopy
      <4> QED
        BY <3>2, <4>1 DEF CopyIsWhole
    <3>3. ASSUME NEW b \in Attempts, at[b] = "failed", blob = <<<<Footer(of[b], batch[b])>>>> PROVE CopyIsWhole'
      <4>1. at'[b] = "failed" /\ of'[b] = of[b] /\ batch'[b] = batch[b]
        BY <1>1, <3>3 DEF Same
      <4> QED
        BY <1>1, <1>4, <3>3, <4>1 DEF CopyIsWhole
    <3> QED
      BY <3>1, <3>2, <3>3 DEF CopyIsWhole, Promises
  <2>4. ASSUME NEW c \in Attempts, at'[c] = "published", batch'[c] > 0, \A b \in Attempts : of'[b] \in {None, of'[c]}
        PROVE  IsCopy(blob', of'[c])
    <3>1. c # a
      BY <1>1, <2>2, <2>4
    <3>2. at[c] = "published" /\ batch[c] > 0 /\ \A b \in Attempts : of'[b] = of[b]
      BY <1>1, <2>4, <3>1 DEF Same
    <3>3. IsCopy(blob, of[c])
      BY <2>4, <3>2 DEF Promises, CopyIsThere
    <3> QED
      BY <1>1, <1>4, <3>2, <3>3
  <2>5. CopyIsThere'
    BY <2>4 DEF CopyIsThere
  <2> QED
    BY <1>3, <2>1, <2>3, <2>5 DEF Promises
<1>5. CASE n # 0
  <2>1. /\ Batches[v] > 0 /\ Covers(n, Batches[v] + 1) /\ blob' = Blocks(v, n) /\ staged' = <<>>
    BY <1>1, <1>5, PublishedIsCopy DEF Promises
  <2>2. IsCopy(blob', v)
    BY <1>1, <1>5, <2>1 DEF IsCopy
  <2>3. BlocksFound'
    <3> SUFFICES ASSUME NEW b \in Attempts, Running(b)', NEW i \in Nat, i < blocks'[b] PROVE Found(b, i)'
      BY DEF BlocksFound
    <3>1. b # a
      BY <1>2
    <3>2. Running(b) /\ i < blocks[b] /\ of'[b] = of[b]
      BY <3>1, SameIsKnown DEF Same
    <3>3. of[b] = v
      BY <1>2, <3>2 DEF Promises, Apart
    <3>4. blocks[b] <= n
      BY <1>1, <1>5, <2>1, <3>2, <3>3, NoMoreBlocks
    <3>5. i < n /\ i + 1 \in 1..n
      BY <1>1, <3>2, <3>4 DEF StreamTypes
    <3>6. Len(blob') = n /\ blob'[i + 1] = Block(v, (i + 1) - 1) /\ (i + 1) - 1 = i
      BY <1>1, <2>1, <3>5 DEF Blocks
    <3>7. i \notin DOMAIN staged'
      BY <2>1
    <3>8. i < Len(blob') /\ blob'[i + 1] = Block(of'[b], i)
      BY <3>2, <3>3, <3>5, <3>6
    <3> QED
      BY <3>7, <3>8 DEF Found
  <2>4. CopyIsWhole'
    <3> HIDE DEF IsCopy
    <3> QED
      BY <1>1, <2>1, <2>2 DEF CopyIsWhole
  <2>5. ASSUME NEW c \in Attempts, \A b \in Attempts : of'[b] \in {None, of'[c]} PROVE IsCopy(blob', of'[c])
    <3>1. of'[c] = v
      BY <1>1, <1>2, <2>5
    <3> QED
      BY <2>2, <3>1
  <2>6. CopyIsThere'
    BY <2>5 DEF CopyIsThere
  <2> QED
    BY <1>3, <2>3, <2>4, <2>6 DEF Promises
<1> QED
  BY <1>4, <1>5

(* Steps that end an attempt.                                                                    *)
LEMMA EndsKeepPromises ==
    ASSUME StreamTypes, Promises, NEW a \in Attempts, AttemptOK(a), Fail(a) \/ Return(a) \/ Die(a), ~tangled',
           \A b \in Attempts \ {a} : Same(b)
    PROVE  Promises'
<1>1. /\ Running(a) \/ (at[a] = "published" /\ closed'[a] = TRUE)
      /\ at'[a] \in {"failed", "dead", "done"} /\ of'[a] = of[a] /\ blob' = blob /\ staged' = staged
      /\ at[a] # "failed"
  <2>1. CASE Fail(a)
    BY <2>1 DEF Fail, StreamTypes, Running
  <2>2. CASE Return(a)
    BY <2>2 DEF Return, StreamTypes, Running, AttemptOK
  <2>3. CASE Die(a)
    BY <2>3 DEF Die, StreamTypes, Running
  <2> QED
    BY <2>1, <2>2, <2>3
<1>2. Lingers(a)' => \A b \in Attempts \ {a} : ~Running(b) /\ at[b] # "published"
  <2>1. CASE Fail(a)
    BY <2>1 DEF Fail, StreamTypes, Lingers
  <2>2. CASE Return(a)
    BY <2>2 DEF Return, StreamTypes, Lingers, AttemptOK
  <2>3. CASE Die(a)
    BY <2>3 DEF Die, StreamTypes, Lingers
  <2> QED
    BY <2>1, <2>2, <2>3
<1>3. ~Running(a)' /\ at'[a] # "published"
  BY <1>1 DEF Running
<1>4. Apart'
  BY <1>2, <1>3, ApartStays DEF Promises
<1>5. BlocksFound'
  BY <1>1, <1>3, BlocksStay DEF Promises
<1>6. CopyIsWhole' /\ CopyIsThere'
  BY <1>1, <1>3, CopyStays DEF Promises
<1> QED
  BY <1>4, <1>5, <1>6 DEF Promises

(* The collection of what failed.                                                                *)
LEMMA CollectKeepsPromises ==
    ASSUME StreamTypes, Promises, NEW a \in Attempts, AttemptOK(a), Collect(a), \A b \in Attempts \ {a} : Same(b)
    PROVE  Promises'
<1> DEFINE foot == <<Footer(of[a], batch[a])>>
<1>1. /\ at[a] = "failed" /\ at'[a] = "failed" /\ of'[a] = of[a] /\ batch'[a] = batch[a] /\ closed'[a] = TRUE
      /\ blocks[a] = 0 /\ ~closed[a]
      /\ \/ blob' = blob /\ staged' = staged
         \/ buf[a] = foot /\ buf[a] # <<>> /\ commit_block_list(Put(staged, 0, foot), 1)
  <2>1. /\ at[a] = "failed" /\ at' = at /\ of' = of /\ batch' = batch /\ closed' = [closed EXCEPT ![a] = TRUE] /\ ~closed[a]
        /\ \/ blob' = blob /\ staged' = staged
           \/ buf[a] = <<>> /\ blocks[a] > 0
           \/ buf[a] # <<>> /\ commit_block_list(Put(staged, blocks[a], buf[a]), blocks[a] + 1)
    BY DEF Collect
  <2>2. blocks[a] = 0 /\ (buf[a] = <<>> \/ buf[a] = foot)
    BY <2>1 DEF AttemptOK
  <2>3. closed'[a] = TRUE
    BY <2>1 DEF StreamTypes
  <2>4. blocks[a] + 1 = 1 /\ ~(blocks[a] > 0)
    BY <2>2
  <2> HIDE DEF foot
  <2> QED
    BY <2>1, <2>2, <2>3, <2>4
<1>2. ~Running(a) /\ ~Running(a)' /\ ~Lingers(a)' /\ at'[a] # "published"
  BY <1>1 DEF Running, Lingers
<1>3. Apart'
  BY <1>2, ApartStays DEF Promises
<1>4. CASE blob' = blob /\ staged' = staged
  <2>1. BlocksFound'
    BY <1>2, <1>4, BlocksStay DEF Promises
  <2>2. CopyIsWhole' /\ CopyIsThere'
    BY <1>1, <1>2, <1>4, CopyStays DEF Promises
  <2> QED
    BY <1>3, <2>1, <2>2 DEF Promises
<1>5. CASE buf[a] = foot /\ buf[a] # <<>> /\ commit_block_list(Put(staged, 0, foot), 1)
  <2>1. Lingers(a)
    BY <1>1, <1>5 DEF Lingers
  <2>2. \A b \in Attempts : ~Running(b) /\ at[b] # "published"
    BY <2>1 DEF Promises, Apart
  <2>3. \A b \in Attempts : ~Running(b)' /\ at'[b] # "published"
    BY <1>2, <2>2, SameIsKnown DEF Same
  <2>4. BlocksFound' /\ CopyIsThere'
    BY <2>3 DEF BlocksFound, CopyIsThere
  <2>5. blob' = <<foot>>
    <3> HIDE DEF foot
    <3>1. 0 \in DOMAIN Put(staged, 0, foot) /\ Put(staged, 0, foot)[0] = foot
      BY DEF Put
    <3>2. blob' = [i \in 1..1 |-> IF i - 1 \in DOMAIN Put(staged, 0, foot) THEN Put(staged, 0, foot)[i - 1] ELSE blob[i]]
      BY <1>5 DEF commit_block_list
    <3>3. blob' = [i \in 1..1 |-> foot]
      BY <3>1, <3>2
    <3> QED
      BY <3>3
  <2>6. CopyIsWhole'
    BY <1>1, <2>5 DEF CopyIsWhole
  <2> QED
    BY <1>3, <2>4, <2>6 DEF Promises
<1> QED
  BY <1>1, <1>4, <1>5

LEMMA PromisesStep ==
    ASSUME ConstantsOK, StreamTypes, \A b \in Attempts : AttemptOK(b), Promises, NEW a \in Attempts, Step(a), ~tangled'
    PROVE  Promises'
<1>1. \A b \in Attempts \ {a} : Same(b)
  BY OthersStay
<1>2. AttemptOK(a)
  OBVIOUS
<1>3. CASE Begin(a)
  BY <1>1, <1>2, <1>3, BeginKeepsPromises
<1>4. CASE WriteBatch(a) \/ WriteFooter(a) \/ Flush(a)
  <2>1. Stages(a)
    BY <1>2, <1>4, BatchesAreStaged, FootersAreStaged, RestsAreStaged
  <2> QED
    BY <1>1, <2>1, StagingKeepsPromises
<1>5. CASE Publish(a)
  BY <1>1, <1>5, PublishKeepsPromises
<1>6. CASE Fail(a) \/ Return(a) \/ Die(a)
  BY <1>1, <1>2, <1>6, EndsKeepPromises
<1>7. CASE Collect(a)
  BY <1>1, <1>2, <1>7, CollectKeepsPromises
<1> QED
  BY <1>3, <1>4, <1>5, <1>6, <1>7 DEF Step

LEMMA TangledStays == ASSUME StreamTypes, NEW a \in Attempts, Step(a), tangled PROVE tangled'
BY DEF Step, Begin, WriteBatch, WriteFooter, Flush, Publish, Fail, Collect, Return, Die, StreamTypes

(* A result is returned with the dictionary that its first batch shows.                           *)
LEMMA ResultsStep == ASSUME StreamTypes, ResultsOK, NEW a \in Attempts, Step(a) PROVE ResultsOK'
<1> SUFFICES ASSUME NEW c \in Attempts, at'[c] = "done"
             PROVE  progress'[c] = None /\ \E n \in Nat : result'[c].schema = detect_schema_dictionary(_profile_from_batch(n))
  BY DEF ResultsOK
<1>1. CASE c # a
  <2>1. Same(c)
    BY <1>1, OthersStay
  <2>2. at[c] = "done" /\ progress'[c] = progress[c] /\ result'[c] = result[c]
    BY <2>1 DEF Same
  <2> QED
    BY <2>2 DEF ResultsOK
<1>2. CASE c = a
  <2>1. Return(a)
    BY <1>2 DEF Step, Begin, WriteBatch, WriteFooter, Flush, Publish, Fail, Collect, Return, Die, Running, StreamTypes
  <2>2. progress'[a] = None /\ result'[a].schema = detect_schema_dictionary(_profile_from_batch(batch[a]))
    <3> DEFINE p == _profile_from_batch(batch[a])
    <3> HIDE DEF p
    <3>1. /\ progress' = [progress EXCEPT ![a] = None]
          /\ result' = [result EXCEPT ![a] = [rows |-> batch[a], profiles |-> p, schema |-> detect_schema_dictionary(p)]]
      BY <1>2, <2>1 DEF Return, StreamTypes, p
    <3>2. a \in DOMAIN progress /\ a \in DOMAIN result
      BY DEF StreamTypes
    <3>3. progress'[a] = None
      BY <3>1, <3>2
    <3> DEFINE d == detect_schema_dictionary(p)
    <3>4. result'[a].schema = d
      <4> HIDE DEF d
      <4>1. result' = [result EXCEPT ![a] = [rows |-> batch[a], profiles |-> p, schema |-> d]]
        BY <3>1 DEF d
      <4> QED
        BY <4>1, <3>2
    <3> QED
      BY <3>3, <3>4 DEF p
  <2>3. batch[a] \in Nat
    BY DEF StreamTypes
  <2> QED
    BY <1>2, <2>2, <2>3
<1> QED
  BY <1>1, <1>2

-----------------------------------------------------------------------------
LEMMA StreamInit == ASSUME ConstantsOK PROVE Init => StreamInv
<1> SUFFICES ASSUME Init PROVE StreamInv
  OBVIOUS
<1>1. StreamTypes
  BY DEF Init, StreamTypes
<1>2. \A a \in Attempts : AttemptOK(a)
  BY DEF Init, AttemptOK
<1>3. Untangled
  BY DEF Init, Untangled, Apart, BlocksFound, CopyIsWhole, CopyIsThere, Running, Lingers
<1>4. ResultsOK
  BY DEF Init, ResultsOK
<1> QED
  BY <1>1, <1>2, <1>3, <1>4 DEF StreamInv

LEMMA StreamStep == ASSUME ConstantsOK, StreamInv, NEW a \in Attempts, Step(a) PROVE StreamInv'
<1>1. StreamTypes /\ (\A b \in Attempts : AttemptOK(b)) /\ ResultsOK /\ Untangled
  BY DEF StreamInv
<1>2. StreamTypes'
  BY <1>1, TypesStep
<1>3. \A b \in Attempts : AttemptOK(b)'
  BY <1>1, AttemptsStep
<1>4. Untangled'
  <2>1. ASSUME ~tangled' PROVE Promises'
    <3>1. ~tangled
      BY <1>1, <2>1, TangledStays
    <3>2. Promises
      BY <1>1, <3>1 DEF Untangled, Promises
    <3> QED
      BY <1>1, <2>1, <3>2, PromisesStep
  <2> QED
    BY <2>1 DEF Untangled, Promises
<1>5. ResultsOK'
  BY <1>1, ResultsStep
<1> QED
  BY <1>2, <1>3, <1>4, <1>5 DEF StreamInv

(* A new version of the file, and a step of another component, change nothing of a conversion.      *)
LEMMA UploadStep == ASSUME StreamInv, UNCHANGED <<blob, staged, attemptVars, tangled>>, source' \in DOMAIN Batches PROVE StreamInv'
<1>1. StreamTypes'
  BY DEF StreamInv, StreamTypes, attemptVars
<1>2. \A a \in Attempts : AttemptOK(a)'
  BY DEF StreamInv, AttemptOK, Buffered, Written, attemptVars
<1>3. Untangled'
  BY DEF StreamInv, Untangled, Apart, BlocksFound, Found, CopyIsWhole, CopyIsThere, Running, Lingers, attemptVars
<1>4. ResultsOK'
  BY DEF StreamInv, ResultsOK, attemptVars
<1> QED
  BY <1>1, <1>2, <1>3, <1>4 DEF StreamInv

LEMMA StreamNext == ASSUME ConstantsOK PROVE StreamInv /\ [Next]_vars => StreamInv'
<1> SUFFICES ASSUME StreamInv, [Next]_vars PROVE StreamInv'
  OBVIOUS
<1>1. CASE Upload \/ UNCHANGED vars
  <2>1. UNCHANGED <<blob, staged, attemptVars, tangled>> /\ source' \in DOMAIN Batches
    BY <1>1 DEF Upload, vars, StreamInv, StreamTypes
  <2> QED
    BY <2>1, UploadStep
<1>2. ASSUME NEW a \in Attempts, Step(a) PROVE StreamInv'
  BY <1>2, StreamStep
<1> QED
  BY <1>1, <1>2 DEF Next, Step

-----------------------------------------------------------------------------
(* The dictionary of a schema file: a column is picked among those not excluded.                   *)
LEMMA PickedIs ==
    ASSUME NEW profiles, NEW tokens, NEW exclude, DOMAIN profiles \subseteq Nat, _pick(profiles, tokens, exclude) # None
    PROVE  \E i \in DOMAIN profiles : _pick(profiles, tokens, exclude) = profiles[i].name /\ profiles[i].name \notin exclude
<1> DEFINE Free == {i \in DOMAIN profiles : profiles[i].name \notin exclude}
           Named == {i \in Free : Exact[profiles[i].name] \in tokens}
           Like == {i \in Free : Within[profiles[i].name] \cap tokens # {}}
<1>1. _pick(profiles, tokens, exclude) =
        IF Named # {} THEN profiles[Min(Named)].name ELSE IF Like # {} THEN profiles[Min(Like)].name ELSE None
  BY DEF _pick
<1>2. ASSUME NEW S \in SUBSET Free, S # {} PROVE Min(S) \in Free
  <2>1. S \in SUBSET Nat
    OBVIOUS
  <2>2. \E n \in S : \A m \in S : n <= m
    BY <1>2, <2>1, LeastOf
  <2>3. Min(S) \in S
    BY <2>2 DEF Min
  <2> QED
    BY <2>3
<1>3. Named \in SUBSET Free /\ Like \in SUBSET Free
  OBVIOUS
<1>4. ASSUME NEW i \in Free, _pick(profiles, tokens, exclude) = profiles[i].name
      PROVE  \E j \in DOMAIN profiles : _pick(profiles, tokens, exclude) = profiles[j].name /\ profiles[j].name \notin exclude
  BY <1>4
<1> HIDE DEF Named, Like, Free
<1>5. CASE Named # {}
  BY <1>1, <1>2, <1>3, <1>4, <1>5
<1>6. CASE Named = {} /\ Like # {}
  BY <1>1, <1>2, <1>3, <1>4, <1>6
<1> QED
  BY <1>1, <1>5, <1>6

LEMMA Dictionaries ==
    ASSUME ConstantsOK, NEW n \in Nat, NEW d, d = detect_schema_dictionary(_profile_from_batch(n)), d # None
    PROVE  /\ MarksSchema /\ d.field # d.description /\ d.notes \notin {d.field, d.description}
           /\ {d.field, d.description} \subseteq {Columns[i].name : i \in DOMAIN Columns}
<1> DEFINE p == _profile_from_batch(n)
           field == _pick(p, Tokens.field, {})
           description == _pick(p, Tokens.description, {field} \ {None})
           notes == _pick(p, Tokens.notes, {field, description})
<1>1. DOMAIN p \subseteq Nat /\ \A i \in DOMAIN p : i \in DOMAIN Columns /\ p[i].name = Columns[i].name
  BY DEF _profile_from_batch, ConstantsOK
<1>2. d = IF ~MarksSchema \/ field = None \/ description = None THEN None
          ELSE [field |-> field, description |-> description, notes |-> notes]
  BY DEF detect_schema_dictionary
<1> HIDE DEF p
<1>3. \A t, e : _pick(p, t, e) # None =>
         \E i \in DOMAIN p : _pick(p, t, e) = p[i].name /\ p[i].name \notin e
  BY <1>1, PickedIs
<1>4. field # None => field \in {Columns[i].name : i \in DOMAIN Columns}
  BY <1>1, <1>3
<1>5. description # None => description \in {Columns[i].name : i \in DOMAIN Columns} /\ description \notin {field} \ {None}
  <2> DEFINE e == {field} \ {None}
  <2> HIDE DEF e, field
  <2>1. description # None => \E i \in DOMAIN p : description = p[i].name /\ p[i].name \notin e
    BY <1>3 DEF e
  <2>2. description # None => description \in {Columns[i].name : i \in DOMAIN Columns} /\ description \notin e
    BY <1>1, <2>1
  <2> QED
    BY <2>2 DEF e
<1>6. notes # None => notes \notin {field, description}
  <2> DEFINE e == {field, description}
  <2> HIDE DEF e
  <2>1. notes # None => notes \notin e
    BY <1>3 DEF e
  <2> QED
    BY <2>1 DEF e
<1> HIDE DEF field, description, notes
<1>7. MarksSchema /\ field # None /\ description # None /\ d = [field |-> field, description |-> description, notes |-> notes]
  BY <1>2
<1>8. d.field = field /\ d.description = description /\ d.notes = notes
  BY <1>7
<1> QED
  BY <1>4, <1>5, <1>6, <1>7, <1>8

LEMMA StreamSays == ASSUME ConstantsOK PROVE StreamInv => CopiesAreWhole
<1> SUFFICES ASSUME StreamInv PROVE CopiesAreWhole
  OBVIOUS
<1>1. NothingHalfPublished
  <2> SUFFICES ASSUME ~tangled, blob # <<>>
               PROVE  \/ \E v \in DOMAIN Batches : Content = Whole(v) /\ Batches[v] > 0
                      \/ \E a \in Attempts : at[a] = "failed" /\ Content = <<Footer(of[a], batch[a])>>
    BY DEF NothingHalfPublished
  <2>1. \/ \E v \in DOMAIN Batches : Batches[v] > 0 /\ IsCopy(blob, v)
        \/ \E a \in Attempts : at[a] = "failed" /\ blob = <<<<Footer(of[a], batch[a])>>>>
    BY DEF StreamInv, Untangled, CopyIsWhole
  <2>2. ASSUME NEW v \in DOMAIN Batches, IsCopy(blob, v) PROVE Content = Whole(v)
    BY <2>2, CopiesRead DEF Content
  <2>3. ASSUME NEW a \in Attempts, blob = <<<<Footer(of[a], batch[a])>>>> PROVE Content = <<Footer(of[a], batch[a])>>
    <3> DEFINE x == Footer(of[a], batch[a])
    <3>1. blob = <<<<x>>>>
      BY <2>3
    <3> HIDE DEF x
    <3>2. Content = <<x>>
      BY <3>1, FooterReads DEF Content
    <3> QED
      BY <3>2 DEF x
  <2> HIDE DEF IsCopy, Whole
  <2> QED
    BY <2>1, <2>2, <2>3
<1>2. PublishedBeforeReported
  <2> SUFFICES ASSUME NEW a \in Attempts, at[a] = "published", ~tangled, batch[a] > 0,
                      \A b \in Attempts : of[b] \in {None, of[a]}
               PROVE  Content = Whole(of[a]) /\ batch[a] = Batches[of[a]]
    BY DEF PublishedBeforeReported
  <2>1. of[a] \in DOMAIN Batches /\ batch[a] = Batches[of[a]]
    BY DEF StreamInv, AttemptOK
  <2>2. IsCopy(blob, of[a])
    BY DEF StreamInv, Untangled, CopyIsThere
  <2> QED
    BY <2>1, <2>2, CopiesRead DEF Content
<1>3. DictionaryIsOfTheFile
  <2> SUFFICES ASSUME NEW a \in Attempts, at[a] = "done", NEW d, d = result[a].schema
               PROVE  /\ progress[a] = None
                      /\ d # None =>
                          /\ MarksSchema /\ d.field # d.description /\ d.notes \notin {d.field, d.description}
                          /\ {d.field, d.description} \subseteq {Columns[i].name : i \in DOMAIN Columns}
    BY DEF DictionaryIsOfTheFile
  <2>1. progress[a] = None /\ \E n \in Nat : d = detect_schema_dictionary(_profile_from_batch(n))
    BY DEF StreamInv, ResultsOK
  <2> QED
    BY <2>1, Dictionaries
<1> QED
  BY <1>1, <1>2, <1>3 DEF CopiesAreWhole

(* A copy beside a CSV is whole, or a footer that a failure left, in every state in which no         *)
(* attempts met that can spoil each other; an attempt that returns finds every row it counts; a       *)
(* dictionary names two columns of the file: for any number of attempts, versions, batches and         *)
(* columns, and blocks of any size (parquet_service.py).                                          *)
THEOREM ConversionsPublishWholeCopies == ASSUME ConstantsOK PROVE Spec => []CopiesAreWhole
<1> HIDE DEF StreamInv
<1> QED
  BY StreamInit, StreamNext, StreamSays, PTL DEF Spec
=============================================================================
